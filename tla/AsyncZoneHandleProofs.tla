----------------------- MODULE AsyncZoneHandleProofs -----------------------
(***************************************************************************)
(* Theorems about AsyncZoneHandle for any number of handles, of calls in   *)
(* progress and of pool threads, and any zones: the mutex gives a handle   *)
(* to one call at a time, a closure that is still to end keeps its handle  *)
(* and with it the zone, and the handles of the async API behave as        *)
(* ZoneHandle specifies.                                                   *)
(***************************************************************************)
EXTENDS AsyncZoneHandle, ZoneHandleProofs, SequenceTheorems

-----------------------------------------------------------------------------
(* The inductive invariant                                                 *)

CallType ==
    [phase : Phases, on : Threads \cup {NoOne},
     method : HandleCalls \cup DeviceCalls \cup {"None", "getter"},
     zone : Indices \cup {NoZone}, awaited : BOOLEAN]

\* What is true of a call by itself: which phases its method goes through, and
\* what it works on.
CallOK(c) ==
    /\ c \in CallType
    /\ c.phase = "None" <=> c.method = "None"
    /\ c.method = "None" => c = NoCall
    /\ c.method \in HandleCalls \cup {"getter"} => c.on \in Threads
    /\ c.method = "getter" => c.phase \in {"Locking", "Running"}
    /\ c.method \in DeviceCalls => c.phase \notin {"Locking", "Running"}
    /\ c.method = "zone_op" => c.on = NoOne /\ c.zone \in Zones
    /\ c.method = "zone_handle" =>
           /\ c.zone \in Indices
           /\ c.phase \in {"Queued", "Started"} => c.on \in Threads

CallsOK ==
    /\ DOMAIN call = Slots
    /\ call = [s \in Slots |-> call[s]]
    /\ \A s \in Slots : CallOK(call[s])
    /\ held \in [Threads -> BOOLEAN]

\* The members of the queue q are those of S, each of them once.
Enumerates(q, S) ==
    /\ q \in Seq(Slots)
    /\ \A j, k \in 1 .. Len(q) : q[j] = q[k] => j = k
    /\ \A s \in Slots : s \in S <=> \E k \in 1 .. Len(q) : q[k] = s

Queued     == {s \in Slots : call[s].phase = "Queued"}
Waiting(h) == {s \in Slots : call[s].on = h /\ call[s].phase = "Locking"}

PoolInv == Enumerates(pool, Queued)

\* The mutex of a handle belongs to the one call that is running on it, and
\* nobody waits for a mutex that is free.
MutexInv ==
    /\ owner \in [Threads -> Slots \cup {NoSlot}]
    /\ waiters \in [Threads -> Seq(Slots)]
    /\ \A h \in Threads :
           /\ Enumerates(waiters[h], Waiting(h))
           /\ owner[h] = NoSlot => Waiting(h) = {}
           /\ \A s \in Slots : owner[h] = s <=> call[s].on = h /\ call[s].phase = "Running"

\* A call that makes a handle is the only one on it.
MakerAlone ==
    \A s \in Slots : Makes(s) /\ call[s].on \in Threads =>
        /\ ~held[call[s].on]
        /\ \A u \in Slots \ {s} : call[u].on # call[s].on

\* The client's obligation still holds when the closure of a device call runs.
PendingFree ==
    \A s \in Slots :
        call[s].method \in DeviceCalls /\ call[s].phase \in {"Queued", "Started"} =>
            /\ Exclusive(call[s].zone)
            /\ Makes(s) => Pending(call[s].zone) = {s}

\* The call that is inside write_all_sequential has the mutex.
WriterRuns ==
    \A h \in Threads : left[h] > 0 =>
        \E s \in Slots : /\ call[s].on = h
                         /\ call[s].phase = "Running"
                         /\ call[s].method = "write_all_sequential"

AsyncInv ==
    /\ TypeInv
    /\ CallsOK
    /\ PoolInv
    /\ MutexInv
    /\ MakerAlone
    /\ PendingFree
    /\ ClosureKeepsHandle
    /\ WriterRuns

-----------------------------------------------------------------------------
(* Queues                                                                  *)

LEMMA AppendEnumerates ==
    ASSUME NEW q, NEW S, NEW T, Enumerates(q, S), NEW s \in Slots \ S, T = S \cup {s}
    PROVE  Enumerates(Append(q, s), T)
<1> DEFINE r == Append(q, s)
<1>1. /\ q \in Seq(Slots) /\ r \in Seq(Slots) /\ Len(r) = Len(q) + 1
      /\ r[Len(q) + 1] = s
      /\ \A k \in 1 .. Len(q) : r[k] = q[k]
  BY DEF Enumerates
<1>2. \A k \in 1 .. Len(q) : q[k] # s
  BY DEF Enumerates
<1>3. \A j, k \in 1 .. Len(r) : r[j] = r[k] => j = k
  BY <1>1, <1>2 DEF Enumerates
<1>4. \A u \in Slots : u \in T <=> \E k \in 1 .. Len(r) : r[k] = u
  BY <1>1 DEF Enumerates
<1> QED BY <1>1, <1>3, <1>4 DEF Enumerates

LEMMA TailEnumerates ==
    ASSUME NEW q, NEW S, NEW T, Enumerates(q, S), q # <<>>, T = S \ {Head(q)}
    PROVE  Head(q) \in Slots /\ Head(q) \in S /\ Enumerates(Tail(q), T)
<1> DEFINE r == Tail(q)
<1>1. /\ q \in Seq(Slots) /\ r \in Seq(Slots) /\ Len(q) \in Nat \ {0} /\ Len(r) = Len(q) - 1
      /\ Head(q) = q[1] /\ q[1] \in Slots
      /\ \A k \in 1 .. Len(r) : r[k] = q[k + 1]
  BY DEF Enumerates
<1>2. \A k \in 1 .. Len(q) : k # 1 => q[k] # q[1]
  BY <1>1 DEF Enumerates
<1>3. \A j, k \in 1 .. Len(r) : r[j] = r[k] => j = k
  BY <1>1 DEF Enumerates
<1>4. ASSUME NEW u \in Slots
      PROVE  u \in T <=> \E k \in 1 .. Len(r) : r[k] = u
  <2>1. u \in S <=> \E k \in 1 .. Len(q) : q[k] = u
    BY DEF Enumerates
  <2>2. \A k \in 1 .. Len(q) : k = 1 \/ (k - 1 \in 1 .. Len(r) /\ r[k - 1] = q[k])
    BY <1>1
  <2>3. \A k \in 1 .. Len(r) : k + 1 \in 1 .. Len(q) /\ k + 1 # 1
    BY <1>1
  <2> QED BY <1>1, <1>2, <2>1, <2>2, <2>3
<1> QED BY <1>1, <1>3, <1>4 DEF Enumerates

LEMMA RemoveEnumerates ==
    ASSUME NEW q, NEW S, NEW T, Enumerates(q, S), NEW k \in 1 .. Len(q), T = S \ {q[k]}
    PROVE  Enumerates(SubSeq(q, 1, k - 1) \o SubSeq(q, k + 1, Len(q)), T)
<1> DEFINE a == SubSeq(q, 1, k - 1)
           b == SubSeq(q, k + 1, Len(q))
           r == a \o b
<1>1. q \in Seq(Slots) /\ Len(q) \in Nat
  BY DEF Enumerates
<1>2. /\ a \in Seq(Slots) /\ Len(a) = k - 1
      /\ \A j \in 1 .. k - 1 : a[j] = q[j]
  BY <1>1, SubSeqProperties
<1>3. /\ b \in Seq(Slots) /\ Len(b) = Len(q) - k
      /\ \A j \in 1 .. Len(q) - k : b[j] = q[k + j]
  BY <1>1, SubSeqProperties
<1> HIDE DEF a, b
<1>4. /\ r \in Seq(Slots) /\ Len(r) = Len(a) + Len(b)
      /\ \A j \in 1 .. Len(a) + Len(b) : r[j] = IF j <= Len(a) THEN a[j] ELSE b[j - Len(a)]
  BY <1>2, <1>3, ConcatProperties
<1> HIDE DEF r
<1>5. /\ r \in Seq(Slots) /\ Len(r) = Len(q) - 1
      /\ \A j \in 1 .. Len(r) : r[j] = IF j <= k - 1 THEN a[j] ELSE b[j - (k - 1)]
  BY <1>1, <1>2, <1>3, <1>4
<1> DEFINE from(j) == IF j < k THEN j ELSE j + 1
<1>6. \A j \in 1 .. Len(r) : from(j) \in 1 .. Len(q) \ {k} /\ r[j] = q[from(j)]
  <2> TAKE j \in 1 .. Len(r)
  <2>1. CASE j < k
    BY <1>1, <1>2, <1>5, <2>1
  <2>2. CASE ~(j < k)
    <3>1. j - (k - 1) \in 1 .. Len(q) - k /\ k + (j - (k - 1)) = j + 1
      BY <1>1, <1>5, <2>2
    <3>2. r[j] = b[j - (k - 1)]
      BY <1>1, <1>5, <2>2
    <3> QED BY <1>1, <1>3, <2>2, <3>1, <3>2
  <2> QED BY <2>1, <2>2
<1>7. \A i \in 1 .. Len(q) \ {k} : \E j \in 1 .. Len(r) : from(j) = i
  <2> TAKE i \in 1 .. Len(q) \ {k}
  <2>1. CASE i < k
    BY <1>1, <1>5, <2>1
  <2>2. CASE ~(i < k)
    <3>1. i - 1 \in 1 .. Len(r) /\ from(i - 1) = i
      BY <1>1, <1>5, <2>2
    <3> QED BY <3>1
  <2> QED BY <2>1, <2>2
<1>8. \A i, j \in 1 .. Len(r) : from(i) = from(j) => i = j
  BY <1>1, <1>5
<1> HIDE DEF from
<1>9. \A i, j \in 1 .. Len(r) : r[i] = r[j] => i = j
  <2> TAKE i, j \in 1 .. Len(r)
  <2>1. from(i) \in 1 .. Len(q) /\ from(j) \in 1 .. Len(q)
        /\ r[i] = q[from(i)] /\ r[j] = q[from(j)]
    BY <1>6
  <2>2. q[from(i)] = q[from(j)] => from(i) = from(j)
    BY <2>1 DEF Enumerates
  <2> QED BY <1>8, <2>1, <2>2
<1>10. ASSUME NEW u \in Slots
      PROVE  u \in T <=> \E j \in 1 .. Len(r) : r[j] = u
  <2>1. u \in S <=> \E i \in 1 .. Len(q) : q[i] = u
    BY DEF Enumerates
  <2>2. \A i \in 1 .. Len(q) : q[i] = q[k] <=> i = k
    BY DEF Enumerates
  <2>3. u \in T <=> \E i \in 1 .. Len(q) \ {k} : q[i] = u
    BY <2>1, <2>2
  <2> QED BY <1>6, <1>7, <2>3
<1>11. Enumerates(r, T)
  BY <1>5, <1>9, <1>10 DEF Enumerates
<1> QED BY <1>11 DEF a, b, r

LEMMA EmptyEnumerates ==
    ASSUME NEW S, S = {}
    PROVE  Enumerates(<<>>, S)
BY DEF Enumerates

-----------------------------------------------------------------------------
(* What a step that does not concern a part of the invariant keeps         *)

\* A call that is c keeps the handle it is on.
Keeps(c) ==
    \/ c.method = "zone_handle" /\ c.phase \in {"Dropping", "Done"}
    \/ c.method \notin {"zone_handle", "getter"} /\ c.phase \notin {"None", "Done"}

LEMMA ClonesKeep ==
    \A h \in Threads : Clones(h) = {s \in Slots : call[s].on = h /\ Keeps(call[s])}
BY DEF Clones, Keeps, Makes, IsGetter

LEMMA PoolKept ==
    ASSUME PoolInv, pool' = pool,
           \A u \in Slots : call'[u].phase = "Queued" <=> call[u].phase = "Queued"
    PROVE  PoolInv'
<1>1. Queued' = Queued
  BY DEF Queued
<1> QED BY <1>1 DEF PoolInv, Enumerates

LEMMA MutexKept ==
    ASSUME MutexInv, UNCHANGED <<owner, waiters>>,
           \A u \in Slots : /\ call'[u].phase = "Locking" <=> call[u].phase = "Locking"
                            /\ call'[u].phase = "Running" <=> call[u].phase = "Running"
                            /\ call[u].phase \in {"Locking", "Running"} =>
                                  call'[u].on = call[u].on
    PROVE  MutexInv'
<1>1. \A h \in Threads : Waiting(h)' = Waiting(h)
  BY DEF Waiting
<1>2. \A h \in Threads : Enumerates(waiters[h], Waiting(h))'
  BY <1>1 DEF MutexInv, Enumerates
<1> QED BY <1>1, <1>2 DEF MutexInv

LEMMA MakersKept ==
    ASSUME MakerAlone,
           \A u \in Slots : /\ call'[u].on \in Threads => call'[u].on = call[u].on
                            /\ call'[u].method = "zone_handle" => call[u].method = "zone_handle",
           \A h \in Threads : held'[h] => held[h]
    PROVE  MakerAlone'
<1> SUFFICES ASSUME NEW s \in Slots, Makes(s)', call'[s].on \in Threads
             PROVE  /\ ~held'[call'[s].on]
                    /\ \A u \in Slots \ {s} : call'[u].on # call'[s].on
  BY DEF MakerAlone
<1>1. Makes(s) /\ call[s].on = call'[s].on
  BY DEF Makes
<1>2. ~held[call[s].on] /\ \A u \in Slots \ {s} : call[u].on # call[s].on
  BY <1>1 DEF MakerAlone
<1> QED BY <1>1, <1>2

\* c is a device call that is still to run.
Pends(c) == c.method \in DeviceCalls /\ c.phase \in {"Queued", "Started"}

LEMMA PendingKept ==
    ASSUME PendingFree,
           \A u \in Slots : Pends(call'[u]) =>
               /\ Pends(call[u])
               /\ call'[u].method = call[u].method
               /\ call'[u].zone = call[u].zone
               /\ Exclusive(call[u].zone) => Exclusive(call[u].zone)'
    PROVE  PendingFree'
<1> SUFFICES ASSUME NEW s \in Slots, Pends(call'[s])
             PROVE  /\ Exclusive(call[s].zone)'
                    /\ Makes(s)' => Pending(call[s].zone)' = {s}
  BY DEF PendingFree, Pends, Exclusive
<1>1. /\ Pends(call[s]) /\ call'[s].zone = call[s].zone
      /\ Makes(s)' <=> Makes(s)
      /\ Exclusive(call[s].zone)'
  BY DEF PendingFree, Pends, Makes
<1>2. ASSUME Makes(s) PROVE Pending(call[s].zone)' = {s}
  <2>1. Pending(call[s].zone) = {s}
    BY <1>1, <1>2 DEF PendingFree, Pends
  <2>2. \A u \in Slots : u \in Pending(call[s].zone)' <=>
                         Pends(call'[u]) /\ call'[u].zone = call'[s].zone
    BY DEF Pending, Pends
  <2>3. \A u \in Slots : u \in Pending(call[s].zone) <=>
                         Pends(call[u]) /\ call[u].zone = call[s].zone
    BY DEF Pending, Pends
  <2>4. Pending(call[s].zone)' \subseteq Slots
    BY DEF Pending
  <2> QED BY <1>1, <2>1, <2>2, <2>3, <2>4
<1> QED BY <1>1, <1>2

\* ClosureKeepsHandle for h.
KeepsHandle(h) == held[h] \/ Clones(h) # {} <=> Live(h)

LEMMA HandleKept ==
    ASSUME ClosureKeepsHandle, NEW h \in Threads,
           held'[h] = held[h],
           handle'[h].zone = handle[h].zone,
           \A u \in Slots : call'[u].on = h /\ Keeps(call'[u]) <=> call[u].on = h /\ Keeps(call[u])
    PROVE  KeepsHandle(h)'
<1>1. Clones(h)' = {s \in Slots : call'[s].on = h /\ Keeps(call'[s])}
  BY DEF Clones, Keeps, Makes, IsGetter
<1>2. Clones(h)' = Clones(h)
  BY <1>1, ClonesKeep
<1> QED BY <1>2 DEF ClosureKeepsHandle, KeepsHandle, Live

LEMMA WritersKept ==
    ASSUME WriterRuns, left' = left,
           \A u \in Slots : call[u].phase = "Running" /\ call[u].method = "write_all_sequential"
               => /\ call'[u].phase = "Running"
                  /\ call'[u].method = call[u].method
                  /\ call'[u].on = call[u].on
    PROVE  WriterRuns'
<1> SUFFICES ASSUME NEW h \in Threads, left'[h] > 0
             PROVE  \E s \in Slots : /\ call'[s].on = h
                                     /\ call'[s].phase = "Running"
                                     /\ call'[s].method = "write_all_sequential"
  BY DEF WriterRuns
<1>1. PICK s \in Slots : /\ call[s].on = h
                         /\ call[s].phase = "Running"
                         /\ call[s].method = "write_all_sequential"
  BY DEF WriterRuns
<1> QED BY <1>1

\* A step that changes one call.
LEMMA OneCall ==
    ASSUME CallsOK, NEW s \in Slots, NEW c, CallOK(c), call' = [call EXCEPT ![s] = c],
           held' \in [Threads -> BOOLEAN]
    PROVE  /\ CallsOK'
           /\ call'[s] = c
           /\ \A u \in Slots \ {s} : call'[u] = call[u]
BY DEF CallsOK

LEMMA IdleTyping ==
    ASSUME TypeInv, UNCHANGED handleVars
    PROVE  TypeInv'
BY DEF handleVars, TypeInv, TypeOK, Live

-----------------------------------------------------------------------------
(* New calls                                                               *)

\* A call that is queued in the pool, whichever it is.
LEMMA Enqueue ==
    ASSUME AsyncInv, NEW s \in Slots, call[s] = NoCall,
           NEW c, CallOK(c), c.phase = "Queued",
           call' = [call EXCEPT ![s] = c],
           pool' = Append(pool, s),
           UNCHANGED <<handleVars, owner, waiters, held>>
    PROVE  /\ TypeInv' /\ CallsOK' /\ PoolInv' /\ MutexInv' /\ WriterRuns'
           /\ call'[s] = c
           /\ \A u \in Slots \ {s} : call'[u] = call[u]
<1> USE DEF AsyncInv
<1>1. TypeInv'
  BY IdleTyping
<1>2. CallsOK' /\ call'[s] = c /\ \A u \in Slots \ {s} : call'[u] = call[u]
  BY OneCall DEF CallsOK
<1>3. call[s].phase = "None"
  BY DEF NoCall
<1>4. PoolInv'
  <2>1. s \notin Queued /\ Queued' = Queued \cup {s}
    BY <1>2, <1>3 DEF Queued
  <2> QED BY <2>1, AppendEnumerates DEF PoolInv
<1>5. MutexInv'
  BY <1>2, <1>3, MutexKept
<1>6. WriterRuns'
  BY <1>2, <1>3, WritersKept DEF handleVars
<1> QED BY <1>1, <1>2, <1>4, <1>5, <1>6

LEMMA CallStep ==
    ASSUME AsyncInv, NEW s \in Slots, NEW h \in Threads, NEW method \in HandleCalls,
           Call(s, h, method)
    PROVE  UNCHANGED handleVars /\ AsyncInv'
<1> USE DEF AsyncInv
<1> DEFINE c == NewCall(h, method, NoZone, "Queued")
<1>1. /\ call[s] = NoCall /\ held[h]
      /\ call' = [call EXCEPT ![s] = c]
      /\ pool' = Append(pool, s)
      /\ UNCHANGED <<handleVars, owner, waiters, held>>
  BY DEF Call
<1>2. /\ c.on = h /\ c.method \in HandleCalls /\ c.phase = "Queued"
      /\ CallOK(c)
  BY DEF NewCall, CallOK, CallType, Phases, HandleCalls, DeviceCalls
<1> HIDE DEF c
<1>3. /\ TypeInv' /\ CallsOK' /\ PoolInv' /\ MutexInv' /\ WriterRuns'
      /\ call'[s] = c
      /\ \A u \in Slots \ {s} : call'[u] = call[u]
  BY <1>1, <1>2, Enqueue
<1>4. MakerAlone'
  BY <1>1, <1>2, <1>3 DEF MakerAlone, Makes, HandleCalls
<1>5. PendingFree'
  BY <1>1, <1>2, <1>3, PendingKept DEF Pends, DeviceCalls, HandleCalls, Exclusive, handleVars
<1>6. ASSUME NEW g \in Threads PROVE KeepsHandle(g)'
  <2>1. CASE g = h
    BY <1>1, <2>1 DEF KeepsHandle, ClosureKeepsHandle, Live, handleVars
  <2>2. CASE g # h
    BY <1>1, <1>2, <1>3, <2>2, HandleKept DEF handleVars, NoCall, Keeps
  <2> QED BY <2>1, <2>2
<1> QED BY <1>1, <1>3, <1>4, <1>5, <1>6 DEF ClosureKeepsHandle, KeepsHandle

LEMMA CallZoneOpStep ==
    ASSUME AsyncInv, NEW s \in Slots, NEW z \in Zones, CallZoneOp(s, z)
    PROVE  UNCHANGED handleVars /\ AsyncInv'
<1> USE DEF AsyncInv
<1> DEFINE c == NewCall(NoOne, "zone_op", z, "Queued")
<1>1. /\ call[s] = NoCall
      /\ Exclusive(z) /\ \A u \in Pending(z) : ~Makes(u)
      /\ call' = [call EXCEPT ![s] = c]
      /\ pool' = Append(pool, s)
      /\ UNCHANGED <<handleVars, owner, waiters, held>>
  BY DEF CallZoneOp
<1>2. /\ c.on = NoOne /\ c.method = "zone_op" /\ c.phase = "Queued" /\ c.zone = z
      /\ CallOK(c)
  BY DriveAssumption
     DEF NewCall, CallOK, CallType, Phases, HandleCalls, DeviceCalls, Zones, Indices
<1> HIDE DEF c
<1>3. /\ TypeInv' /\ CallsOK' /\ PoolInv' /\ MutexInv' /\ WriterRuns'
      /\ call'[s] = c
      /\ \A u \in Slots \ {s} : call'[u] = call[u]
  BY <1>1, <1>2, Enqueue
<1>4. MakerAlone'
  BY <1>1, <1>2, <1>3, NoSlotAssumption, MakersKept
<1>5. PendingFree'
  <2> SUFFICES ASSUME NEW v \in Slots, Pends(call'[v])
               PROVE  /\ Exclusive(call[v].zone)'
                      /\ Makes(v)' => Pending(call[v].zone)' = {v}
    BY DEF PendingFree, Pends, Exclusive
  <2>1. CASE v = s
    BY <1>1, <1>2, <1>3, <2>1 DEF Exclusive, Makes, handleVars
  <2>2. CASE v # s
    <3>1. Pends(call[v]) /\ call'[v] = call[v] /\ Exclusive(call[v].zone)'
      BY <1>1, <1>3, <2>2 DEF PendingFree, Pends, Exclusive, handleVars
    <3>2. ASSUME Makes(v) PROVE Pending(call[v].zone)' = {v}
      <4>1. Pending(call[v].zone) = {v} /\ call[v].zone # z
        BY <1>1, <3>1, <3>2 DEF PendingFree, Pends
      <4> QED BY <1>2, <1>3, <3>1, <4>1 DEF Pending
    <3> QED BY <3>1, <3>2 DEF Makes
  <2> QED BY <2>1, <2>2
<1>6. ASSUME NEW g \in Threads PROVE KeepsHandle(g)'
  BY <1>1, <1>2, <1>3, HandleKept, NoSlotAssumption DEF handleVars, NoCall, Keeps
<1> QED BY <1>1, <1>3, <1>4, <1>5, <1>6 DEF ClosureKeepsHandle, KeepsHandle

LEMMA CallZoneHandleStep ==
    ASSUME AsyncInv, NEW s \in Slots, NEW h \in Threads, NEW i \in Indices,
           CallZoneHandle(s, h, i)
    PROVE  UNCHANGED handleVars /\ AsyncInv'
<1> USE DEF AsyncInv
<1> DEFINE c == NewCall(h, "zone_handle", i, "Queued")
<1>1. /\ call[s] = NoCall /\ ~held[h] /\ \A u \in Slots : call[u].on # h
      /\ Exclusive(i) /\ Pending(i) = {}
      /\ call' = [call EXCEPT ![s] = c]
      /\ pool' = Append(pool, s)
      /\ UNCHANGED <<handleVars, owner, waiters, held>>
  BY DEF CallZoneHandle, FreeZone
<1>2. /\ c.on = h /\ c.method = "zone_handle" /\ c.phase = "Queued" /\ c.zone = i
      /\ CallOK(c)
  BY DEF NewCall, CallOK, CallType, Phases, HandleCalls, DeviceCalls
<1> HIDE DEF c
<1>3. /\ TypeInv' /\ CallsOK' /\ PoolInv' /\ MutexInv' /\ WriterRuns'
      /\ call'[s] = c
      /\ \A u \in Slots \ {s} : call'[u] = call[u]
  BY <1>1, <1>2, Enqueue
<1>4. MakerAlone'
  BY <1>1, <1>2, <1>3 DEF MakerAlone, Makes
<1>5. PendingFree'
  <2> SUFFICES ASSUME NEW v \in Slots, Pends(call'[v])
               PROVE  /\ Exclusive(call[v].zone)'
                      /\ Makes(v)' => Pending(call[v].zone)' = {v}
    BY DEF PendingFree, Pends, Exclusive
  <2>1. CASE v = s
    BY <1>1, <1>2, <1>3, <2>1 DEF Exclusive, Pending, handleVars, DeviceCalls
  <2>2. CASE v # s
    <3>1. /\ Pends(call[v]) /\ call'[v] = call[v] /\ Exclusive(call[v].zone)'
          /\ call[v].zone # i
      BY <1>1, <1>3, <2>2 DEF PendingFree, Pends, Exclusive, handleVars, Pending
    <3>2. ASSUME Makes(v) PROVE Pending(call[v].zone)' = {v}
      <4>1. Pending(call[v].zone) = {v}
        BY <3>1, <3>2 DEF PendingFree, Pends
      <4> QED BY <1>2, <1>3, <3>1, <4>1 DEF Pending
    <3> QED BY <3>1, <3>2 DEF Makes
  <2> QED BY <2>1, <2>2
<1>6. ASSUME NEW g \in Threads PROVE KeepsHandle(g)'
  BY <1>1, <1>2, <1>3, HandleKept DEF handleVars, NoCall, Keeps
<1> QED BY <1>1, <1>3, <1>4, <1>5, <1>6 DEF ClosureKeepsHandle, KeepsHandle

LEMMA GetStep ==
    ASSUME AsyncInv, NEW s \in Slots, NEW h \in Threads, Get(s, h)
    PROVE  UNCHANGED handleVars /\ AsyncInv'
<1> USE DEF AsyncInv
<1> DEFINE c == NewCall(h, "getter", NoZone, "Locking")
<1>1. /\ call[s] = NoCall /\ held[h] /\ owner[h] # NoSlot
      /\ call' = [call EXCEPT ![s] = c]
      /\ waiters' = [waiters EXCEPT ![h] = Append(@, s)]
      /\ UNCHANGED <<handleVars, pool, owner, held>>
  BY DEF Get
<1>2. /\ c.on = h /\ c.method = "getter" /\ c.phase = "Locking"
      /\ CallOK(c)
  BY DEF NewCall, CallOK, CallType, Phases, HandleCalls, DeviceCalls
<1> HIDE DEF c
<1>3. TypeInv' /\ CallsOK' /\ call'[s] = c /\ \A u \in Slots \ {s} : call'[u] = call[u]
  BY <1>1, <1>2, IdleTyping, OneCall DEF CallsOK
<1>4. PoolInv' /\ WriterRuns'
  BY <1>1, <1>2, <1>3, PoolKept, WritersKept DEF NoCall, handleVars
<1>5. MutexInv'
  <2>1. \A g \in Threads \ {h} : Waiting(g)' = Waiting(g)
    BY <1>1, <1>2, <1>3, NoSlotAssumption DEF Waiting, NoCall
  <2>2. s \notin Waiting(h) /\ Waiting(h)' = Waiting(h) \cup {s}
    BY <1>1, <1>2, <1>3 DEF Waiting, NoCall
  <2>3. \A g \in Threads \ {h} : waiters'[g] = waiters[g]
    BY <1>1 DEF MutexInv
  <2>4. waiters'[h] = Append(waiters[h], s)
    BY <1>1 DEF MutexInv
  <2>5. Enumerates(waiters'[h], Waiting(h)')
    BY <2>2, <2>4, AppendEnumerates DEF MutexInv
  <2>6. \A g \in Threads : Enumerates(waiters'[g], Waiting(g)')
    BY <2>1, <2>3, <2>5 DEF MutexInv
  <2>7. waiters' \in [Threads -> Seq(Slots)]
    BY <1>1, <2>6 DEF MutexInv, Enumerates
  <2>8. \A g \in Threads, u \in Slots :
           call'[u].on = g /\ call'[u].phase = "Running" <=>
               call[u].on = g /\ call[u].phase = "Running"
    BY <1>1, <1>2, <1>3 DEF NoCall
  <2> QED BY <1>1, <2>1, <2>6, <2>7, <2>8 DEF MutexInv
<1>6. MakerAlone'
  BY <1>1, <1>2, <1>3 DEF MakerAlone, Makes
<1>7. PendingFree'
  BY <1>1, <1>2, <1>3, PendingKept DEF Pends, Exclusive, handleVars
<1>8. ASSUME NEW g \in Threads PROVE KeepsHandle(g)'
  BY <1>1, <1>2, <1>3, HandleKept DEF handleVars, NoCall, Keeps
<1> QED BY <1>1, <1>3, <1>4, <1>5, <1>6, <1>7, <1>8 DEF ClosureKeepsHandle, KeepsHandle

-----------------------------------------------------------------------------
(* Making and dropping an AsyncZoneHandle                                  *)

LEMMA NewAsyncStep ==
    ASSUME AsyncInv, NEW h \in Threads, NEW i \in Indices, NewAsync(h, i)
    PROVE  HandleNext /\ AsyncInv'
<1> USE DEF AsyncInv
<1>1. /\ ~held[h] /\ \A s \in Slots : call[s].on # h
      /\ Exclusive(i) /\ Pending(i) = {}
      /\ NewInner(h, i)
      /\ held' = [held EXCEPT ![h] = (result'[h] = "Ok")]
      /\ UNCHANGED <<call, pool, owner, waiters>>
  BY DEF NewAsync, FreeZone
<1>2. HandleNext /\ TypeInv'
  BY <1>1, NextTyping DEF HandleNext
<1>3. /\ \A u \in Threads \ {h} : handle'[u] = handle[u]
      /\ \/ result'[h] = "Ok" /\ i \in Zones /\ handle'[h].zone = i
         \/ result'[h] # "Ok" /\ handle' = handle
      /\ left' = left
  BY <1>1, NewInnerKeeps DEF NewInner
<1>4. CallsOK' /\ PoolInv' /\ MutexInv' /\ WriterRuns'
  BY <1>1, <1>3, PoolKept, MutexKept, WritersKept DEF CallsOK
<1>5. MakerAlone'
  BY <1>1 DEF MakerAlone, Makes, CallsOK
<1>6. PendingFree'
  <2>1. \A u \in Slots : Pends(call[u]) => call[u].zone # i
    BY <1>1 DEF Pending, Pends
  <2> QED BY <1>1, <1>3, <2>1, PendingKept DEF Exclusive
<1>7. ASSUME NEW g \in Threads PROVE KeepsHandle(g)'
  <2>1. CASE g = h
    <3>1. Clones(h) = {} /\ Clones(h)' = {}
      BY <1>1 DEF Clones
    <3>2. ~Live(h)
      BY <1>1, <3>1 DEF ClosureKeepsHandle
    <3>3. held'[h] <=> result'[h] = "Ok"
      BY <1>1 DEF CallsOK
    <3>4. Live(h)' <=> result'[h] = "Ok"
      BY <1>3, <3>2 DEF Live, NoZone, Zones
    <3> QED BY <2>1, <3>1, <3>3, <3>4 DEF KeepsHandle
  <2>2. CASE g # h
    BY <1>1, <1>3, <2>2, HandleKept DEF CallsOK
  <2> QED BY <2>1, <2>2
<1> QED BY <1>2, <1>4, <1>5, <1>6, <1>7 DEF ClosureKeepsHandle, KeepsHandle

\* The handle h loses its last clone, if it is dropped.
LEMMA DropKeeps ==
    ASSUME TypeInv, NEW h \in Threads, Drop(h)
    PROVE  /\ HandleNext /\ TypeInv'
           /\ ~Live(h)' /\ handle'[h].zone = NoZone /\ left' = left
           /\ \A u \in Threads \ {h} : handle'[u] = handle[u]
           /\ \A j \in Indices : Exclusive(j) => Exclusive(j)'
<1>1. HandleNext
  BY DEF HandleNext
<1>2. /\ handle' = [handle EXCEPT ![h] = NoHandle] /\ left' = left
      /\ \A u \in Threads \ {h} : handle'[u] = handle[u]
      /\ handle'[h].zone = NoZone
  BY DEF Drop, NoHandle, TypeInv, TypeOK
<1>3. \A j \in Indices : j # NoZone
  BY DEF Indices, NoZone
<1> QED BY <1>1, <1>2, <1>3, NextTyping DEF Live, Exclusive

LEMMA DropAsyncStep ==
    ASSUME AsyncInv, NEW h \in Threads, DropAsync(h)
    PROVE  [HandleNext]_handleVars /\ AsyncInv'
<1> USE DEF AsyncInv
<1>1. /\ held[h]
      /\ held' = [held EXCEPT ![h] = FALSE]
      /\ UNCHANGED <<call, pool, owner, waiters>>
  BY DEF DropAsync
<1>2. \/ Clones(h) = {} /\ Drop(h)
      \/ Clones(h) # {} /\ UNCHANGED handleVars
  BY DEF DropAsync
<1>3. /\ [HandleNext]_handleVars /\ TypeInv' /\ left' = left
      /\ \A u \in Threads \ {h} : handle'[u] = handle[u]
      /\ \A j \in Indices : Exclusive(j) => Exclusive(j)'
  BY <1>2, DropKeeps, IdleTyping DEF handleVars, Exclusive
<1>4. CallsOK' /\ PoolInv' /\ MutexInv' /\ WriterRuns'
  BY <1>1, <1>3, PoolKept, MutexKept, WritersKept DEF CallsOK
<1>5. MakerAlone'
  BY <1>1, MakersKept DEF CallsOK
<1>6. PendingFree'
  <2>1. \A u \in Slots : Pends(call[u]) => call[u].zone \in Indices
    BY DriveAssumption DEF Pends, CallsOK, CallOK, DeviceCalls, Zones, Indices
  <2> QED BY <1>1, <1>3, <2>1, PendingKept
<1>7. ASSUME NEW g \in Threads PROVE KeepsHandle(g)'
  <2>1. CASE g = h
    <3>1. Clones(h)' = Clones(h) /\ ~held'[h]
      BY <1>1 DEF Clones, Makes, IsGetter, CallsOK
    <3>2. Live(h)' <=> Clones(h) # {}
      BY <1>1, <1>2, DropKeeps DEF ClosureKeepsHandle, Live, handleVars
    <3> QED BY <2>1, <3>1, <3>2 DEF KeepsHandle
  <2>2. CASE g # h
    BY <1>1, <1>3, <2>2, HandleKept DEF CallsOK
  <2> QED BY <2>1, <2>2
<1> QED BY <1>3, <1>4, <1>5, <1>6, <1>7 DEF ClosureKeepsHandle, KeepsHandle

-----------------------------------------------------------------------------
(* The pool and the mutex                                                  *)

\* A step in which the calls go on, and none of them changes what it holds.
LEMMA GoOn ==
    ASSUME AsyncInv, held' = held,
           \A u \in Threads : handle'[u].zone = handle[u].zone,
           \A u \in Slots : /\ call'[u].on = call[u].on
                            /\ call'[u].method = call[u].method
                            /\ call'[u].zone = call[u].zone
                            /\ Keeps(call'[u]) <=> Keeps(call[u])
                            /\ Pends(call'[u]) => Pends(call[u])
    PROVE  MakerAlone' /\ PendingFree' /\ ClosureKeepsHandle'
<1> USE DEF AsyncInv
<1>1. MakerAlone'
  BY MakersKept
<1>2. PendingFree'
  BY PendingKept DEF Exclusive
<1>3. ASSUME NEW h \in Threads PROVE KeepsHandle(h)'
  BY HandleKept
<1> QED BY <1>1, <1>2, <1>3 DEF ClosureKeepsHandle, KeepsHandle

LEMMA PoolTakesStep ==
    ASSUME AsyncInv, PoolTakes
    PROVE  UNCHANGED handleVars /\ AsyncInv'
<1> USE DEF AsyncInv
<1> DEFINE s == Head(pool)
           c == [call[s] EXCEPT !.phase = "Started"]
<1>1. s \in Slots /\ s \in Queued /\ Enumerates(Tail(pool), Queued \ {s})
  BY TailEnumerates DEF PoolTakes, PoolInv
<1>2. /\ call' = [call EXCEPT ![s] = c]
      /\ pool' = Tail(pool)
      /\ UNCHANGED <<handleVars, owner, waiters, held>>
  BY DEF PoolTakes
<1>3. call[s].phase = "Queued" /\ CallOK(call[s])
  BY <1>1 DEF Queued, CallsOK
<1>4. /\ CallOK(c) /\ c.phase = "Started" /\ c.on = call[s].on
      /\ c.method = call[s].method /\ c.zone = call[s].zone
  BY <1>3 DEF CallOK, CallType, Phases, NoCall
<1> HIDE DEF s, c
<1>5. TypeInv' /\ CallsOK' /\ call'[s] = c /\ \A u \in Slots \ {s} : call'[u] = call[u]
  BY <1>1, <1>2, <1>4, IdleTyping, OneCall DEF CallsOK
<1>6. PoolInv'
  <2>1. Queued' = Queued \ {s}
    BY <1>4, <1>5 DEF Queued
  <2> QED BY <1>1, <1>2, <2>1 DEF PoolInv
<1>7. MutexInv' /\ WriterRuns'
  BY <1>2, <1>3, <1>4, <1>5, MutexKept, WritersKept DEF handleVars
<1>8. MakerAlone' /\ PendingFree' /\ ClosureKeepsHandle'
  BY <1>2, <1>3, <1>4, <1>5, GoOn DEF handleVars, Keeps, Pends
<1> QED BY <1>2, <1>5, <1>6, <1>7, <1>8

LEMMA BlockingLockStep ==
    ASSUME AsyncInv, NEW s \in Slots, BlockingLock(s)
    PROVE  UNCHANGED handleVars /\ AsyncInv'
<1> USE DEF AsyncInv
<1>0. PICK h \in Threads : h = call[s].on
  BY DEF BlockingLock, CallsOK, CallOK, CallType, HandleCalls, DeviceCalls
<1> DEFINE c == [call[s] EXCEPT !.phase = call'[s].phase]
<1>1. /\ call[s].phase = "Started" /\ call[s].method \notin DeviceCalls
      /\ CallOK(call[s]) /\ h \in Threads /\ call[s].on = h
      /\ UNCHANGED <<handleVars, pool, held>>
  BY <1>0 DEF BlockingLock, CallsOK, CallOK, CallType
<1>2. \/ /\ owner[h] = NoSlot /\ call'[s].phase = "Running"
         /\ owner' = [owner EXCEPT ![h] = s] /\ waiters' = waiters
      \/ /\ owner[h] # NoSlot /\ call'[s].phase = "Locking"
         /\ waiters' = [waiters EXCEPT ![h] = Append(@, s)] /\ owner' = owner
  BY <1>1 DEF BlockingLock, CallsOK, CallOK, CallType
<1>3. call' = [call EXCEPT ![s] = c]
  BY <1>1 DEF BlockingLock, CallsOK, CallOK, CallType
<1>4. /\ CallOK(c) /\ c.phase \in {"Locking", "Running"} /\ c.phase = call'[s].phase
      /\ c.on = h /\ c.method = call[s].method /\ c.zone = call[s].zone
  BY <1>1, <1>2 DEF CallOK, CallType, Phases, NoCall, DeviceCalls, HandleCalls
<1> HIDE DEF c
<1>5. TypeInv' /\ CallsOK' /\ call'[s] = c /\ \A u \in Slots \ {s} : call'[u] = call[u]
  BY <1>1, <1>3, <1>4, IdleTyping, OneCall DEF CallsOK
<1>6. PoolInv' /\ WriterRuns'
  BY <1>1, <1>4, <1>5, PoolKept, WritersKept DEF handleVars
<1>7. \A g \in Threads \ {h} : Waiting(g)' = Waiting(g)
  BY <1>1, <1>4, <1>5 DEF Waiting
<1>8. MutexInv'
  <2>1. CASE owner[h] = NoSlot
    <3>1. Waiting(h)' = Waiting(h)
      BY <1>1, <1>2, <1>4, <1>5, <2>1 DEF Waiting
    <3>2. \A g \in Threads, u \in Slots :
             owner'[g] = u <=> call'[u].on = g /\ call'[u].phase = "Running"
      BY <1>1, <1>2, <1>4, <1>5, <2>1, NoSlotAssumption DEF MutexInv
    <3> QED BY <1>2, <1>7, <2>1, <3>1, <3>2, NoSlotAssumption DEF MutexInv
  <2>2. CASE owner[h] # NoSlot
    <3>1. s \notin Waiting(h) /\ Waiting(h)' = Waiting(h) \cup {s}
      BY <1>1, <1>2, <1>4, <1>5, <2>2 DEF Waiting
    <3>2. /\ waiters' = [waiters EXCEPT ![h] = Append(@, s)] /\ owner' = owner
          /\ waiters'[h] = Append(waiters[h], s)
          /\ \A g \in Threads \ {h} : waiters'[g] = waiters[g]
      BY <1>2, <2>2 DEF MutexInv
    <3>3. Enumerates(waiters'[h], Waiting(h)')
      BY <3>1, <3>2, AppendEnumerates DEF MutexInv
    <3>4. \A g \in Threads : Enumerates(waiters'[g], Waiting(g)')
      BY <1>7, <3>2, <3>3 DEF MutexInv
    <3>5. waiters' \in [Threads -> Seq(Slots)]
      BY <3>2, <3>4 DEF MutexInv, Enumerates
    <3>6. \A g \in Threads, u \in Slots :
             call'[u].on = g /\ call'[u].phase = "Running" <=>
                 call[u].on = g /\ call[u].phase = "Running"
      BY <1>1, <1>2, <1>4, <1>5, <2>2
    <3> QED BY <1>7, <2>2, <3>2, <3>4, <3>5, <3>6 DEF MutexInv
  <2> QED BY <2>1, <2>2
<1>9. MakerAlone' /\ PendingFree' /\ ClosureKeepsHandle'
  BY <1>1, <1>4, <1>5, GoOn DEF handleVars, Keeps, Pends, DeviceCalls
<1> QED BY <1>1, <1>5, <1>6, <1>8, <1>9

\* The call s gives the mutex up, to the first that waits for it if there is one.
LEMMA ReleaseStep ==
    ASSUME CallsOK, MutexInv, NEW s \in Slots, call[s].phase = "Running",
           NEW c, CallOK(c), c.phase \notin {"Locking", "Running"},
           Release(call[s].on, [call EXCEPT ![s] = c]), held' = held
    PROVE  /\ CallsOK' /\ MutexInv' /\ call'[s] = c
           /\ \A u \in Slots \ {s} :
                  \/ call'[u] = call[u]
                  \/ /\ call[u].phase = "Locking"
                     /\ call'[u] = [call[u] EXCEPT !.phase = "Running"]
<1>0. PICK h \in Threads : h = call[s].on
  BY DEF CallsOK, CallOK, CallType, HandleCalls, DeviceCalls
<1> DEFINE d == [call EXCEPT ![s] = c]
<1>1. call[s].on = h /\ owner[h] = s
  BY <1>0 DEF MutexInv
<1>2. d[s] = c /\ \A u \in Slots \ {s} : d[u] = call[u]
  BY DEF CallsOK
<1>3. CASE waiters[h] = <<>>
  <2>1. owner' = [owner EXCEPT ![h] = NoSlot] /\ call' = d /\ waiters' = waiters
    BY <1>1, <1>3 DEF Release
  <2>2. CallsOK' /\ call'[s] = c /\ \A u \in Slots \ {s} : call'[u] = call[u]
    BY <2>1, OneCall DEF CallsOK
  <2>3. \A g \in Threads : Waiting(g)' = Waiting(g)
    BY <2>2 DEF Waiting
  <2>4. Waiting(h) = {}
    BY <1>1, <1>3 DEF MutexInv, Enumerates, Waiting
  <2>5. \A g \in Threads, u \in Slots :
           owner'[g] = u <=> call'[u].on = g /\ call'[u].phase = "Running"
    BY <1>1, <2>1, <2>2, NoSlotAssumption DEF MutexInv
  <2>6. MutexInv'
    BY <1>1, <2>1, <2>3, <2>4, <2>5 DEF MutexInv
  <2> QED BY <2>2, <2>6
<1>4. CASE waiters[h] # <<>>
  <2> DEFINE w == Head(waiters[h])
             e == [call[w] EXCEPT !.phase = "Running"]
  <2>1. /\ owner' = [owner EXCEPT ![h] = w]
        /\ call' = [d EXCEPT ![w].phase = "Running"]
        /\ waiters' = [waiters EXCEPT ![h] = Tail(@)]
    BY <1>1, <1>4 DEF Release
  <2>2. w \in Slots /\ w \in Waiting(h) /\ Enumerates(Tail(waiters[h]), Waiting(h) \ {w})
    BY <1>1, <1>4, TailEnumerates DEF MutexInv
  <2>3. call[w].on = h /\ call[w].phase = "Locking" /\ w # s /\ CallOK(call[w])
    BY <2>2 DEF Waiting, CallsOK
  <2>4. /\ call'[s] = c /\ call'[w] = e
        /\ \A u \in Slots \ {s, w} : call'[u] = call[u]
    BY <1>2, <2>1, <2>2, <2>3 DEF CallsOK
  <2>5. CallOK(e) /\ e.on = h /\ e.phase = "Running"
    BY <2>3 DEF CallOK, CallType, Phases, NoCall, DeviceCalls, HandleCalls
  <2>6. CallsOK'
    BY <2>1, <2>4, <2>5 DEF CallsOK
  <2> HIDE DEF w, e
  <2>7. \A g \in Threads \ {h} : Waiting(g)' = Waiting(g)
    BY <2>3, <2>4, <2>5 DEF Waiting
  <2>8. Waiting(h)' = Waiting(h) \ {w}
    BY <2>3, <2>4, <2>5 DEF Waiting
  <2>9. \A g \in Threads : Enumerates(waiters'[g], Waiting(g)')
    <3>1. /\ waiters'[h] = Tail(waiters[h])
          /\ \A g \in Threads \ {h} : waiters'[g] = waiters[g]
      BY <2>1 DEF MutexInv
    <3>2. Enumerates(waiters'[h], Waiting(h)')
      BY <2>2, <2>8, <3>1
    <3> TAKE g \in Threads
    <3>3. CASE g # h
      BY <2>7, <3>1, <3>3 DEF MutexInv
    <3> QED BY <3>2, <3>3
  <2>10. waiters' \in [Threads -> Seq(Slots)]
    BY <2>1, <2>9 DEF MutexInv, Enumerates
  <2>11. \A g \in Threads, u \in Slots :
            owner'[g] = u <=> call'[u].on = g /\ call'[u].phase = "Running"
    <3> TAKE g \in Threads, u \in Slots
    <3>1. /\ owner'[h] = w
          /\ g # h => owner'[g] = owner[g]
      BY <2>1 DEF MutexInv
    <3>2. owner[g] = u <=> call[u].on = g /\ call[u].phase = "Running"
      BY DEF MutexInv
    <3>3. CASE u \in {s, w}
      BY <1>1, <2>3, <2>4, <2>5, <3>1, <3>2, <3>3
    <3>4. CASE u \notin {s, w}
      <4>1. call'[u] = call[u]
        BY <2>4, <3>4
      <4>2. CASE g = h
        BY <1>1, <3>1, <3>2, <3>4, <4>1, <4>2
      <4>3. CASE g # h
        BY <3>1, <3>2, <4>1, <4>3
      <4> QED BY <4>2, <4>3
    <3> QED BY <3>3, <3>4
  <2>12. owner' \in [Threads -> Slots \cup {NoSlot}]
    BY <2>1, <2>2 DEF MutexInv
  <2>13. \A g \in Threads : owner'[g] = NoSlot => Waiting(g)' = {}
    <3> TAKE g \in Threads
    <3>1. CASE g = h
      BY <2>1, <2>2, <3>1, NoSlotAssumption DEF MutexInv
    <3>2. CASE g # h
      BY <2>1, <2>7, <3>2 DEF MutexInv
    <3> QED BY <3>1, <3>2
  <2>14. MutexInv'
    BY <2>9, <2>10, <2>11, <2>12, <2>13 DEF MutexInv
  <2> QED BY <2>3, <2>4, <2>6, <2>14 DEF e
<1> QED BY <1>3, <1>4

\* A call that has run gives the mutex up: what this does beside the handle.
LEMMA UnlockStep ==
    ASSUME AsyncInv, NEW s \in Slots, call[s].phase = "Running", call[s].method \in HandleCalls,
           \A u \in Threads : handle'[u].zone = handle[u].zone,
           Unlock(s)
    PROVE  /\ CallsOK' /\ PoolInv' /\ MutexInv'
           /\ MakerAlone' /\ PendingFree' /\ ClosureKeepsHandle'
           /\ \A u \in Slots : u # s /\ call[u].phase = "Running" => call'[u] = call[u]
<1> USE DEF AsyncInv
<1> DEFINE c == [call[s] EXCEPT !.phase = "Dropping"]
<1>1. Release(call[s].on, [call EXCEPT ![s] = c]) /\ UNCHANGED <<pool, held>>
  BY DEF Unlock, CallsOK
<1>2. /\ CallOK(c) /\ c.phase = "Dropping" /\ c.on = call[s].on
      /\ c.method = call[s].method /\ c.zone = call[s].zone
  BY DEF CallsOK, CallOK, CallType, Phases, NoCall, HandleCalls, DeviceCalls
<1> HIDE DEF c
<1>3. /\ CallsOK' /\ MutexInv' /\ call'[s] = c
      /\ \A u \in Slots \ {s} :
             \/ call'[u] = call[u]
             \/ call[u].phase = "Locking" /\ call'[u] = [call[u] EXCEPT !.phase = "Running"]
  BY <1>1, <1>2, ReleaseStep
<1>4. \A u \in Slots \ {s} :
          /\ call'[u].on = call[u].on /\ call'[u].method = call[u].method
          /\ call'[u].zone = call[u].zone
          /\ \/ call'[u] = call[u]
             \/ call[u].phase = "Locking" /\ call'[u].phase = "Running"
  BY <1>3 DEF CallsOK, CallOK, CallType
<1>5. PoolInv'
  BY <1>1, <1>2, <1>3, <1>4, PoolKept
<1>6. \A u \in Slots : /\ call'[u].on = call[u].on
                       /\ call'[u].method = call[u].method
                       /\ call'[u].zone = call[u].zone
                       /\ Keeps(call'[u]) <=> Keeps(call[u])
                       /\ Pends(call'[u]) => Pends(call[u])
  BY <1>2, <1>3, <1>4 DEF Keeps, Pends, HandleCalls
<1>7. MakerAlone' /\ PendingFree' /\ ClosureKeepsHandle'
  BY <1>1, <1>6, GoOn
<1> QED BY <1>3, <1>4, <1>5, <1>7

\* The method of a handle that runs in the call s is one of ZoneHandle's.
LEMMA BodyMethod ==
    ASSUME AsyncInv, NEW s \in Slots, NEW h \in Threads, call[s].on = h, Body(s)
    PROVE  /\ Operate(h) \/ UNCHANGED handleVars
           /\ \/ left'[h] = 0 /\ Unlock(s)
              \/ call[s].method = "write_all_sequential" /\ UNCHANGED asyncVars
<1> USE DEF AsyncInv
<1>0. \A n \in 1 .. MaxBuf : Fits(h, n)
  BY AsyncAssumption DEF Fits
<1>1. CASE call[s].method = "write_all_sequential"
  <2>1. \/ (\E n \in 1 .. MaxBuf : BeginWriteAll(h, n)) /\ UNCHANGED asyncVars
        \/ WriteAllStep(h) /\ IF left'[h] = 0 THEN Unlock(s) ELSE UNCHANGED asyncVars
    BY <1>1 DEF Body, WriteAllBody
  <2> QED BY <1>0, <1>1, <2>1 DEF Operate
<1>2. CASE call[s].method = "one_call"
  <2>1. /\ call[s].phase = "Running" /\ Unlock(s)
        /\ \/ \E n \in 1 .. MaxBuf : WriteSequential(h, n)
           \/ ResetZone(h) \/ FinishZone(h) \/ OpenZone(h) \/ CloseZone(h)
           \/ UNCHANGED handleVars
    BY <1>2 DEF Body
  <2>2. left[h] = 0
    <3>1. ASSUME NEW u \in Slots, call[u].on = h, call[u].phase = "Running" PROVE u = s
      BY <2>1, <3>1 DEF MutexInv
    <3>2. ~(left[h] > 0)
      BY <1>2, <3>1 DEF WriterRuns
    <3> QED BY <3>2 DEF TypeInv, TypeOK
  <2>3. left' = left
    BY <2>1 DEF WriteSequential, ResetZone, FinishZone, OpenZone, CloseZone, ManageOnly, handleVars
  <2> QED BY <1>0, <2>1, <2>2, <2>3 DEF Operate
<1> QED BY <1>1, <1>2 DEF Body

LEMMA BodyStep ==
    ASSUME AsyncInv, NEW s \in Slots, Body(s)
    PROVE  [HandleNext]_handleVars /\ AsyncInv'
<1> USE DEF AsyncInv
<1>1. call[s].phase = "Running" /\ call[s].method \in HandleCalls
  BY DEF Body, HandleCalls
<1>2. PICK h \in Threads : call[s].on = h
  BY <1>1 DEF CallsOK, CallOK
<1>3. /\ Operate(h) \/ UNCHANGED handleVars
      /\ \/ left'[h] = 0 /\ Unlock(s)
         \/ call[s].method = "write_all_sequential" /\ UNCHANGED asyncVars
  BY <1>2, BodyMethod
<1>4. [HandleNext]_handleVars /\ TypeInv'
  BY <1>3, NextTyping DEF HandleNext
<1>5. /\ \A u \in Threads : handle'[u].zone = handle[u].zone
      /\ \A u \in Threads \ {h} : left'[u] = left[u]
  BY <1>3, OperateKeeps DEF handleVars
<1>6. CASE left'[h] = 0 /\ Unlock(s)
  <2>1. /\ CallsOK' /\ PoolInv' /\ MutexInv'
        /\ MakerAlone' /\ PendingFree' /\ ClosureKeepsHandle'
        /\ \A u \in Slots : u # s /\ call[u].phase = "Running" => call'[u] = call[u]
    BY <1>1, <1>5, <1>6, UnlockStep
  <2>2. WriterRuns'
    <3> SUFFICES ASSUME NEW g \in Threads, left'[g] > 0
                 PROVE  \E u \in Slots : /\ call'[u].on = g
                                         /\ call'[u].phase = "Running"
                                         /\ call'[u].method = "write_all_sequential"
      BY DEF WriterRuns
    <3>1. g # h /\ left[g] > 0
      BY <1>5, <1>6
    <3>2. PICK u \in Slots : /\ call[u].on = g
                             /\ call[u].phase = "Running"
                             /\ call[u].method = "write_all_sequential"
      BY <3>1 DEF WriterRuns
    <3> QED BY <1>2, <2>1, <3>1, <3>2
  <2> QED BY <1>4, <2>1, <2>2
<1>7. CASE call[s].method = "write_all_sequential" /\ UNCHANGED asyncVars
  <2>1. UNCHANGED <<call, pool, owner, waiters, held>>
    BY <1>7 DEF asyncVars
  <2>2. CallsOK' /\ PoolInv' /\ MutexInv'
    BY <2>1, PoolKept, MutexKept DEF CallsOK
  <2>3. MakerAlone' /\ PendingFree' /\ ClosureKeepsHandle'
    BY <1>5, <2>1, GoOn
  <2>4. WriterRuns'
    BY <1>1, <1>2, <1>5, <1>7, <2>1 DEF WriterRuns
  <2> QED BY <1>4, <2>2, <2>3, <2>4
<1> QED BY <1>3, <1>6, <1>7

LEMMA EndGetterStep ==
    ASSUME AsyncInv, NEW s \in Slots, EndGetter(s)
    PROVE  UNCHANGED handleVars /\ AsyncInv'
<1> USE DEF AsyncInv
<1>1. /\ call[s].method = "getter" /\ call[s].phase = "Running"
      /\ Release(call[s].on, [call EXCEPT ![s] = NoCall])
      /\ UNCHANGED <<handleVars, pool, held>>
  BY DEF EndGetter, IsGetter
<1>2. CallOK(NoCall) /\ NoCall.phase = "None" /\ NoCall.method = "None" /\ NoCall.on = NoOne
  BY DEF CallOK, CallType, NoCall, Phases, HandleCalls, DeviceCalls
<1>3. /\ CallsOK' /\ MutexInv' /\ call'[s] = NoCall
      /\ \A u \in Slots \ {s} :
             \/ call'[u] = call[u]
             \/ call[u].phase = "Locking" /\ call'[u] = [call[u] EXCEPT !.phase = "Running"]
  BY <1>1, <1>2, ReleaseStep
<1>4. \A u \in Slots \ {s} :
          /\ call'[u].on = call[u].on /\ call'[u].method = call[u].method
          /\ call'[u].zone = call[u].zone
          /\ \/ call'[u] = call[u]
             \/ call[u].phase = "Locking" /\ call'[u].phase = "Running"
  BY <1>3 DEF CallsOK, CallOK, CallType
<1>5. PoolInv' /\ WriterRuns' /\ TypeInv'
  BY <1>1, <1>2, <1>3, <1>4, PoolKept, WritersKept, IdleTyping DEF handleVars
<1>6. MakerAlone'
  BY <1>1, <1>2, <1>3, <1>4, NoSlotAssumption, MakersKept
<1>7. PendingFree'
  BY <1>1, <1>2, <1>3, <1>4, PendingKept DEF Pends, Exclusive, handleVars, DeviceCalls
<1>8. ASSUME NEW g \in Threads PROVE KeepsHandle(g)'
  BY <1>1, <1>2, <1>3, <1>4, NoSlotAssumption, HandleKept DEF handleVars, Keeps
<1> QED BY <1>1, <1>3, <1>5, <1>6, <1>7, <1>8 DEF ClosureKeepsHandle, KeepsHandle

LEMMA CancelGetterStep ==
    ASSUME AsyncInv, NEW s \in Slots, CancelGetter(s)
    PROVE  UNCHANGED handleVars /\ AsyncInv'
<1> USE DEF AsyncInv
<1>0. call[s].method = "getter" /\ call[s].phase = "Locking"
  BY DEF CancelGetter, IsGetter
<1>1. PICK h \in Threads : h = call[s].on
  BY <1>0 DEF CallsOK, CallOK
<1>2. PICK k \in 1 .. Len(waiters[h]) :
         /\ waiters[h][k] = s
         /\ waiters' = [waiters EXCEPT ![h] = SubSeq(@, 1, k - 1) \o SubSeq(@, k + 1, Len(@))]
  <2>1. waiters[h] \in Seq(Slots)
    BY DEF MutexInv
  <2>2. DOMAIN waiters[h] = 1 .. Len(waiters[h])
    BY <2>1
  <2>3. \E k \in DOMAIN waiters[h] :
           /\ waiters[h][k] = s
           /\ waiters' = [waiters EXCEPT ![h] = SubSeq(@, 1, k - 1) \o SubSeq(@, k + 1, Len(@))]
    BY <1>1, Zenon DEF CancelGetter
  <2> QED BY <2>2, <2>3
<1>3. /\ call' = [call EXCEPT ![s] = NoCall]
      /\ UNCHANGED <<handleVars, pool, owner, held>>
  BY DEF CancelGetter
<1>4. CallOK(NoCall) /\ NoCall.phase = "None" /\ NoCall.method = "None" /\ NoCall.on = NoOne
  BY DEF CallOK, CallType, NoCall, Phases, HandleCalls, DeviceCalls
<1>5. TypeInv' /\ CallsOK' /\ call'[s] = NoCall /\ \A u \in Slots \ {s} : call'[u] = call[u]
  BY <1>3, <1>4, IdleTyping, OneCall DEF CallsOK
<1>6. PoolInv' /\ WriterRuns'
  BY <1>0, <1>3, <1>4, <1>5, PoolKept, WritersKept DEF handleVars
<1>7. \A g \in Threads \ {h} : Waiting(g)' = Waiting(g)
  BY <1>0, <1>1, <1>4, <1>5 DEF Waiting
<1>8. Waiting(h)' = Waiting(h) \ {s}
  BY <1>0, <1>1, <1>4, <1>5 DEF Waiting
<1>9. /\ waiters'[h] = SubSeq(waiters[h], 1, k - 1) \o SubSeq(waiters[h], k + 1, Len(waiters[h]))
      /\ \A g \in Threads \ {h} : waiters'[g] = waiters[g]
  <2> DEFINE w == SubSeq(waiters[h], 1, k - 1) \o SubSeq(waiters[h], k + 1, Len(waiters[h]))
  <2>1. DOMAIN waiters = Threads
    BY DEF MutexInv
  <2>2. waiters' = [waiters EXCEPT ![h] = w]
    BY <1>2
  <2> HIDE DEF w
  <2>3. waiters'[h] = w /\ \A g \in Threads \ {h} : waiters'[g] = waiters[g]
    BY <2>1, <2>2
  <2> QED BY <2>3 DEF w
<1>10. \A g \in Threads : Enumerates(waiters'[g], Waiting(g)')
  <2>1. Enumerates(waiters'[h], Waiting(h)')
    BY <1>2, <1>8, <1>9, RemoveEnumerates DEF MutexInv
  <2> TAKE g \in Threads
  <2>2. CASE g # h
    BY <1>7, <1>9, <2>2 DEF MutexInv
  <2> QED BY <2>1, <2>2
<1>11. MutexInv'
  <2>1. waiters' \in [Threads -> Seq(Slots)]
    BY <1>2, <1>10 DEF MutexInv, Enumerates
  <2>2. \A g \in Threads, u \in Slots :
           owner'[g] = u <=> call'[u].on = g /\ call'[u].phase = "Running"
    BY <1>0, <1>3, <1>4, <1>5 DEF MutexInv
  <2>3. \A g \in Threads : owner'[g] = NoSlot => Waiting(g)' = {}
    BY <1>3, <1>7, <1>8 DEF MutexInv
  <2> QED BY <1>3, <1>10, <2>1, <2>2, <2>3 DEF MutexInv
<1>12. MakerAlone'
  BY <1>3, <1>4, <1>5, NoSlotAssumption, MakersKept
<1>13. PendingFree'
  BY <1>3, <1>4, <1>5, PendingKept DEF Pends, Exclusive, handleVars, DeviceCalls
<1>14. ASSUME NEW g \in Threads PROVE KeepsHandle(g)'
  BY <1>0, <1>3, <1>4, <1>5, NoSlotAssumption, HandleKept DEF handleVars, Keeps
<1> QED BY <1>3, <1>5, <1>6, <1>11, <1>12, <1>13, <1>14 DEF ClosureKeepsHandle, KeepsHandle

-----------------------------------------------------------------------------
(* The closures of the device's calls                                      *)

LEMMA ZoneOpStep ==
    ASSUME AsyncInv, NEW s \in Slots, ZoneOp(s)
    PROVE  [HandleNext]_handleVars /\ AsyncInv'
<1> USE DEF AsyncInv
<1> DEFINE c == [call[s] EXCEPT !.phase = "Dropping"]
<1>1. /\ call[s].phase = "Started" /\ call[s].method = "zone_op"
      /\ call[s].zone \in Zones /\ call[s].on = NoOne
      /\ Exclusive(call[s].zone)
  BY DEF ZoneOp, CallsOK, CallOK, PendingFree, DeviceCalls
<1>2. /\ call' = [call EXCEPT ![s] = c]
      /\ UNCHANGED <<handle, left, pool, owner, waiters, held>>
  BY DEF ZoneOp, Commands, handleVars
<1>3. [HandleNext]_handleVars /\ TypeInv'
  <2>1. RawManage(call[s].zone) \/ UNCHANGED handleVars
    BY <1>1 DEF ZoneOp, RawManage
  <2> QED BY <1>1, <2>1, NextTyping DEF HandleNext
<1>4. /\ CallOK(c) /\ c.phase = "Dropping" /\ c.on = NoOne
      /\ c.method = "zone_op" /\ c.zone = call[s].zone
  BY <1>1 DEF CallsOK, CallOK, CallType, Phases, NoCall, HandleCalls, DeviceCalls
<1> HIDE DEF c
<1>5. CallsOK' /\ call'[s] = c /\ \A u \in Slots \ {s} : call'[u] = call[u]
  BY <1>2, <1>4, OneCall DEF CallsOK
<1>6. PoolInv' /\ MutexInv' /\ WriterRuns'
  BY <1>1, <1>2, <1>4, <1>5, PoolKept, MutexKept, WritersKept
<1>7. MakerAlone' /\ PendingFree' /\ ClosureKeepsHandle'
  BY <1>1, <1>2, <1>4, <1>5, GoOn DEF Keeps, Pends
<1> QED BY <1>3, <1>5, <1>6, <1>7

LEMMA MakeHandleStep ==
    ASSUME AsyncInv, NEW s \in Slots, MakeHandle(s)
    PROVE  HandleNext /\ AsyncInv'
<1> USE DEF AsyncInv
<1>0. /\ call[s].phase = "Started" /\ call[s].method = "zone_handle"
      /\ call[s].on \in Threads /\ call[s].zone \in Indices
  BY DEF MakeHandle, Makes, CallsOK, CallOK
<1>1. PICK h \in Threads, i \in Indices : h = call[s].on /\ i = call[s].zone
  BY <1>0
<1> DEFINE c == [call[s] EXCEPT !.phase = "Dropping",
                                !.on = IF result'[h] = "Ok" THEN h ELSE NoOne]
<1>2. /\ NewInner(h, i)
      /\ call' = [call EXCEPT ![s] = c]
      /\ UNCHANGED <<pool, owner, waiters, held>>
  BY <1>1 DEF MakeHandle, CallsOK, CallOK, CallType
<1>3. /\ Exclusive(i) /\ Pending(i) = {s}
      /\ ~held[h] /\ \A u \in Slots \ {s} : call[u].on # h
  BY <1>0, <1>1 DEF PendingFree, MakerAlone, Makes, DeviceCalls
<1>4. HandleNext /\ TypeInv'
  BY <1>2, <1>3, NextTyping DEF HandleNext
<1>5. /\ \A u \in Threads \ {h} : handle'[u] = handle[u]
      /\ \/ result'[h] = "Ok" /\ i \in Zones /\ handle'[h].zone = i
         \/ result'[h] # "Ok" /\ handle' = handle
      /\ left' = left
  BY <1>2, NewInnerKeeps DEF NewInner
<1>6. /\ CallOK(c) /\ c.phase = "Dropping" /\ c.method = "zone_handle" /\ c.zone = i
      /\ c.on = IF result'[h] = "Ok" THEN h ELSE NoOne
  BY <1>0, <1>1 DEF CallsOK, CallOK, CallType, Phases, NoCall, HandleCalls, DeviceCalls
<1> HIDE DEF c
<1>7. CallsOK' /\ call'[s] = c /\ \A u \in Slots \ {s} : call'[u] = call[u]
  BY <1>2, <1>6, OneCall DEF CallsOK
<1>8. PoolInv' /\ MutexInv' /\ WriterRuns'
  BY <1>0, <1>2, <1>5, <1>6, <1>7, PoolKept, MutexKept, WritersKept
<1>9. MakerAlone'
  BY <1>0, <1>1, <1>2, <1>6, <1>7, NoSlotAssumption, MakersKept
<1>10. PendingFree'
  <2>1. \A u \in Slots \ {s} : Pends(call[u]) => call[u].zone # i
    BY <1>3 DEF Pending, Pends
  <2>2. ~Pends(c)
    BY <1>6 DEF Pends
  <2>3. \A u \in Slots \ {s} : Pends(call[u]) =>
            (Exclusive(call[u].zone) => Exclusive(call[u].zone)')
    BY <1>5, <1>7, <2>1 DEF Exclusive
  <2> QED BY <1>7, <2>2, <2>3, PendingKept
<1>11. ASSUME NEW g \in Threads PROVE KeepsHandle(g)'
  <2>1. CASE g = h
    <3>1. Clones(h) = {}
      BY <1>0, <1>3 DEF Clones, Makes
    <3>2. ~Live(h) /\ ~held'[h]
      BY <1>2, <1>3, <3>1 DEF ClosureKeepsHandle
    <3>3. Live(h)' <=> result'[h] = "Ok"
      BY <1>5, <3>2 DEF Live, NoZone, Zones
    <3>4. Clones(h)' # {} <=> result'[h] = "Ok"
      BY <1>3, <1>6, <1>7, NoSlotAssumption DEF Clones, Makes
    <3> QED BY <2>1, <3>2, <3>3, <3>4 DEF KeepsHandle
  <2>2. CASE g # h
    BY <1>1, <1>2, <1>5, <1>6, <1>7, <2>2, NoSlotAssumption, HandleKept
  <2> QED BY <2>1, <2>2
<1> QED BY <1>4, <1>7, <1>8, <1>9, <1>10, <1>11 DEF ClosureKeepsHandle, KeepsHandle

-----------------------------------------------------------------------------
(* The end of a call                                                       *)

\* What the end of a call does beside the handle it may drop.
LEMMA EndStep ==
    ASSUME AsyncInv, NEW s \in Slots, call[s].phase \in {"Dropping", "Done"},
           NEW c, c = NoCall \/ c = [call[s] EXCEPT !.phase = "Done"],
           call' = [call EXCEPT ![s] = c],
           left' = left, UNCHANGED <<pool, owner, waiters>>,
           held' \in [Threads -> BOOLEAN],
           \A u \in Slots \ {s}, j \in Indices :
               Pends(call[u]) /\ call[u].zone = j /\ Exclusive(j) => Exclusive(j)'
    PROVE  /\ CallsOK' /\ PoolInv' /\ MutexInv' /\ PendingFree' /\ WriterRuns'
           /\ call'[s] = c /\ \A u \in Slots \ {s} : call'[u] = call[u]
           /\ c.on \in Threads => c.on = call[s].on
           /\ c.method = "zone_handle" => call[s].method = "zone_handle"
<1> USE DEF AsyncInv
<1>1. /\ CallOK(c) /\ c.phase \in {"None", "Done"}
      /\ c.on \in Threads => c.on = call[s].on
      /\ c.method = "zone_handle" => call[s].method = "zone_handle"
  <2>1. CASE c = NoCall
    BY <2>1, NoSlotAssumption
       DEF CallOK, CallType, NoCall, Phases, HandleCalls, DeviceCalls
  <2>2. CASE c = [call[s] EXCEPT !.phase = "Done"]
    BY <2>2 DEF CallsOK, CallOK, CallType, NoCall, Phases, HandleCalls, DeviceCalls
  <2> QED BY <2>1, <2>2
<1>2. CallsOK' /\ call'[s] = c /\ \A u \in Slots \ {s} : call'[u] = call[u]
  BY <1>1, OneCall
<1>3. PoolInv' /\ MutexInv' /\ WriterRuns'
  BY <1>1, <1>2, PoolKept, MutexKept, WritersKept
<1>4. PendingFree'
  <2>1. \A u \in Slots : Pends(call[u]) => call[u].zone \in Indices
    BY DriveAssumption DEF Pends, CallsOK, CallOK, DeviceCalls, Zones, Indices
  <2>2. ~Pends(c)
    BY <1>1 DEF Pends
  <2>3. \A u \in Slots \ {s} : Pends(call[u]) =>
            (Exclusive(call[u].zone) => Exclusive(call[u].zone)')
    BY <1>2, <2>1 DEF Exclusive
  <2> QED BY <1>2, <2>2, <2>3, PendingKept
<1> QED BY <1>1, <1>2, <1>3, <1>4

LEMMA DropCloneStep ==
    ASSUME AsyncInv, NEW s \in Slots, DropClone(s)
    PROVE  [HandleNext]_handleVars /\ AsyncInv'
<1> USE DEF AsyncInv
<1> DEFINE c == Ended(s)
           Last(h) == /\ ~held[h] /\ Clones(h) = {s}
                      /\ Makes(s) => ~call[s].awaited
<1>1. /\ call[s].phase = "Dropping" /\ CallOK(call[s])
      /\ call' = [call EXCEPT ![s] = c]
      /\ UNCHANGED <<pool, owner, waiters, held>>
  BY DEF DropClone, CallsOK
<1>2. \/ \E h \in Threads : call[s].on = h /\ Last(h) /\ Drop(h)
      \/ UNCHANGED handleVars /\ \A h \in Threads : call[s].on = h => ~Last(h)
  BY <1>1, NoSlotAssumption DEF DropClone, CallOK, CallType
<1>3. c = NoCall \/ c = [call[s] EXCEPT !.phase = "Done"]
  BY DEF Ended
<1>4. /\ [HandleNext]_handleVars /\ TypeInv' /\ left' = left
      /\ \A j \in Indices : Exclusive(j) => Exclusive(j)'
      /\ \A g \in Threads : g # call[s].on => handle'[g] = handle[g]
  BY <1>2, DropKeeps, IdleTyping DEF handleVars, Exclusive
<1>5. /\ CallsOK' /\ PoolInv' /\ MutexInv' /\ PendingFree' /\ WriterRuns'
      /\ call'[s] = c /\ \A u \in Slots \ {s} : call'[u] = call[u]
      /\ c.on \in Threads => c.on = call[s].on
      /\ c.method = "zone_handle" => call[s].method = "zone_handle"
  <2>1. held' \in [Threads -> BOOLEAN]
    BY <1>1 DEF CallsOK
  <2> HIDE DEF c
  <2> QED BY <1>1, <1>3, <1>4, <2>1, EndStep
<1>6. MakerAlone'
  BY <1>1, <1>5, MakersKept
<1>7. ASSUME NEW g \in Threads PROVE KeepsHandle(g)'
  <2>1. CASE g # call[s].on
    <3> HIDE DEF c
    <3> QED BY <1>1, <1>4, <1>5, <2>1, HandleKept
  <2>2. CASE g = call[s].on
    <3>1. s \in Clones(g)
      BY <1>1, <2>2, NoSlotAssumption, ClonesKeep DEF CallOK, CallType, Keeps
    <3>2. \A u \in Slots \ {s} : u \in Clones(g)' <=> u \in Clones(g)
      BY <1>5 DEF Clones, Makes, IsGetter
    <3>3. s \in Clones(g)' <=> Makes(s) /\ call[s].awaited
      BY <1>1, <1>5, <2>2, NoSlotAssumption
         DEF Clones, Makes, IsGetter, Ended, NoCall, CallOK, CallType
    <3>4. Clones(g) \subseteq Slots /\ Clones(g)' \subseteq Slots
      BY DEF Clones
    <3>5. CASE Last(g) /\ Drop(g)
      <4>1. ~held'[g] /\ ~Live(g)'
        BY <1>1, <3>5, DropKeeps
      <4>2. Clones(g)' = {}
        BY <3>2, <3>3, <3>4, <3>5
      <4> QED BY <4>1, <4>2 DEF KeepsHandle
    <3>6. CASE UNCHANGED handleVars /\ ~Last(g)
      <4>1. Live(g)'
        BY <3>1, <3>6 DEF ClosureKeepsHandle, handleVars, Live
      <4>2. held'[g] \/ Clones(g)' # {}
        BY <1>1, <3>1, <3>2, <3>3, <3>4, <3>6
      <4> QED BY <4>1, <4>2 DEF KeepsHandle
    <3> QED BY <1>2, <2>2, <3>5, <3>6
  <2> QED BY <2>1, <2>2
<1> QED BY <1>4, <1>5, <1>6, <1>7 DEF ClosureKeepsHandle, KeepsHandle

LEMMA CompleteStep ==
    ASSUME AsyncInv, NEW s \in Slots, Complete(s)
    PROVE  UNCHANGED handleVars /\ AsyncInv'
<1> USE DEF AsyncInv
<1>1. /\ call[s].phase = "Done"
      /\ call' = [call EXCEPT ![s] = NoCall]
      /\ UNCHANGED <<handleVars, pool, owner, waiters>>
  BY DEF Complete
<1>2. \/ /\ Makes(s) /\ call[s].on \in Threads
         /\ held' = [held EXCEPT ![call[s].on] = TRUE]
      \/ ~(Makes(s) /\ call[s].on \in Threads) /\ held' = held
  BY NoSlotAssumption DEF Complete, CallsOK, CallOK, CallType
<1>3. /\ CallsOK' /\ PoolInv' /\ MutexInv' /\ PendingFree' /\ WriterRuns'
      /\ call'[s] = NoCall /\ \A u \in Slots \ {s} : call'[u] = call[u]
  <2>1. held' \in [Threads -> BOOLEAN]
    BY <1>2 DEF CallsOK
  <2> QED BY <1>1, <2>1, EndStep DEF handleVars, Exclusive
<1>4. TypeInv'
  BY <1>1, IdleTyping
<1>5. MakerAlone'
  <2>1. CASE held' = held
    BY <1>3, <2>1, NoSlotAssumption, MakersKept DEF NoCall
  <2>2. CASE Makes(s) /\ call[s].on \in Threads /\ held' = [held EXCEPT ![call[s].on] = TRUE]
    <3>1. \A u \in Slots \ {s} : call[u].on # call[s].on
      BY <2>2 DEF MakerAlone
    <3> QED BY <1>3, <2>2, <3>1, NoSlotAssumption DEF MakerAlone, Makes, NoCall
  <2> QED BY <1>2, <2>1, <2>2
<1>6. ASSUME NEW g \in Threads PROVE KeepsHandle(g)'
  <2>1. CASE Makes(s) /\ call[s].on = g
    <3>1. Live(g)'
      BY <1>1, <2>1 DEF ClosureKeepsHandle, Clones, handleVars, Live
    <3>2. held'[g]
      BY <1>2, <2>1 DEF CallsOK
    <3> QED BY <3>1, <3>2 DEF KeepsHandle
  <2>2. CASE ~(Makes(s) /\ call[s].on = g)
    <3>1. held'[g] = held[g] /\ handle'[g] = handle[g]
      BY <1>1, <1>2, <2>2 DEF CallsOK, handleVars
    <3>2. ~(call[s].on = g /\ Keeps(call[s])) /\ call'[s].on # g
      BY <1>1, <1>3, <2>2, NoSlotAssumption DEF Keeps, Makes, NoCall
    <3> QED BY <1>3, <3>1, <3>2, HandleKept
  <2> QED BY <2>1, <2>2
<1> QED BY <1>1, <1>3, <1>4, <1>5, <1>6 DEF ClosureKeepsHandle, KeepsHandle

LEMMA CancelFutureStep ==
    ASSUME AsyncInv, NEW s \in Slots, CancelFuture(s)
    PROVE  [HandleNext]_handleVars /\ AsyncInv'
<1> USE DEF AsyncInv
<1>0. UNCHANGED <<pool, owner, waiters, held>> /\ CallOK(call[s])
  BY DEF CancelFuture, CallsOK
<1>1. CASE call[s].phase = "Done"
  <2>1. call' = [call EXCEPT ![s] = NoCall]
    BY <1>1 DEF CancelFuture
  <2>2. \/ Makes(s) /\ call[s].on \in Threads /\ Drop(call[s].on)
        \/ ~(Makes(s) /\ call[s].on \in Threads) /\ UNCHANGED handleVars
    BY <1>0, <1>1, NoSlotAssumption DEF CancelFuture, CallOK, CallType
  <2>3. /\ [HandleNext]_handleVars /\ TypeInv' /\ left' = left
        /\ \A j \in Indices : Exclusive(j) => Exclusive(j)'
        /\ \A g \in Threads : g # call[s].on => handle'[g] = handle[g]
    BY <2>2, DropKeeps, IdleTyping DEF handleVars, Exclusive
  <2>4. /\ CallsOK' /\ PoolInv' /\ MutexInv' /\ PendingFree' /\ WriterRuns'
        /\ call'[s] = NoCall /\ \A u \in Slots \ {s} : call'[u] = call[u]
    BY <1>0, <1>1, <2>1, <2>3, EndStep DEF CallsOK
  <2>5. MakerAlone'
    BY <1>0, <2>4, NoSlotAssumption, MakersKept DEF NoCall
  <2>6. ASSUME NEW g \in Threads PROVE KeepsHandle(g)'
    <3>1. CASE Makes(s) /\ call[s].on = g
      <4>1. ~held'[g] /\ \A u \in Slots : call'[u].on # g
        BY <1>0, <2>4, <3>1, NoSlotAssumption DEF MakerAlone, NoCall
      <4>2. ~Live(g)'
        BY <2>2, <3>1, DropKeeps
      <4> QED BY <4>1, <4>2 DEF KeepsHandle, Clones
    <3>2. CASE ~(Makes(s) /\ call[s].on = g)
      <4>1. handle'[g] = handle[g]
        BY <2>2, <2>3, <3>2 DEF handleVars
      <4>2. ~(call[s].on = g /\ Keeps(call[s])) /\ call'[s].on # g
        BY <1>1, <2>4, <3>2, NoSlotAssumption DEF Keeps, Makes, NoCall
      <4> QED BY <1>0, <2>4, <4>1, <4>2, HandleKept
    <3> QED BY <3>1, <3>2
  <2> QED BY <2>3, <2>4, <2>5, <2>6 DEF ClosureKeepsHandle, KeepsHandle
<1>2. CASE call[s].phase # "Done"
  <2> DEFINE c == [call[s] EXCEPT !.awaited = FALSE]
  <2>1. call[s] # NoCall /\ call' = [call EXCEPT ![s] = c] /\ UNCHANGED handleVars
    BY <1>2 DEF CancelFuture, NoCall, CallsOK
  <2>2. /\ CallOK(c) /\ c.phase = call[s].phase /\ c.on = call[s].on
        /\ c.method = call[s].method /\ c.zone = call[s].zone
    BY <1>0, <2>1 DEF CallOK, CallType
  <2> HIDE DEF c
  <2>3. TypeInv' /\ CallsOK' /\ call'[s] = c /\ \A u \in Slots \ {s} : call'[u] = call[u]
    BY <1>0, <2>1, <2>2, IdleTyping, OneCall DEF CallsOK
  <2>4. PoolInv' /\ MutexInv' /\ WriterRuns'
    BY <1>0, <2>1, <2>2, <2>3, PoolKept, MutexKept, WritersKept DEF handleVars
  <2>5. MakerAlone' /\ PendingFree' /\ ClosureKeepsHandle'
    BY <1>0, <2>1, <2>2, <2>3, GoOn DEF handleVars, Keeps, Pends
  <2> QED BY <2>1, <2>3, <2>4, <2>5
<1> QED BY <1>1, <1>2

-----------------------------------------------------------------------------
(* The theorems                                                            *)

LEMMA InitAsyncInv == AsyncInit => AsyncInv
<1> SUFFICES ASSUME AsyncInit PROVE AsyncInv
  OBVIOUS
<1>1. /\ call = [s \in Slots |-> NoCall] /\ pool = <<>>
      /\ owner = [h \in Threads |-> NoSlot]
      /\ waiters = [h \in Threads |-> <<>>]
      /\ held = [h \in Threads |-> FALSE]
      /\ HandleInit
  BY DEF AsyncInit
<1>2. TypeInv /\ (\A t \in Threads : ~Live(t)) /\ (\A t \in Threads : left[t] = 0)
  BY <1>1, InitHandleInv DEF HandleInv, HandleInit, NoHandle, Live
<1>3. CallOK(NoCall)
  BY DEF CallOK, CallType, NoCall, Phases, HandleCalls, DeviceCalls
<1>4. CallsOK
  BY <1>1, <1>3 DEF CallsOK
<1>5. Queued = {} /\ \A h \in Threads : Waiting(h) = {}
  BY <1>1 DEF Queued, Waiting, NoCall
<1>6. PoolInv
  BY <1>1, <1>5, EmptyEnumerates DEF PoolInv
<1>7. MutexInv
  <2>1. \A h \in Threads : Enumerates(waiters[h], Waiting(h))
    BY <1>1, <1>5, EmptyEnumerates
  <2>2. \A h \in Threads, s \in Slots :
           owner[h] = s <=> call[s].on = h /\ call[s].phase = "Running"
    BY <1>1, NoSlotAssumption DEF NoCall
  <2> QED BY <1>1, <1>5, <2>1, <2>2 DEF MutexInv
<1>8. MakerAlone /\ PendingFree
  BY <1>1, NoSlotAssumption DEF MakerAlone, PendingFree, NoCall, Makes, DeviceCalls
<1>9. ClosureKeepsHandle /\ WriterRuns
  BY <1>1, <1>2, NoSlotAssumption DEF ClosureKeepsHandle, WriterRuns, Clones, NoCall
<1> QED BY <1>2, <1>4, <1>6, <1>7, <1>8, <1>9 DEF AsyncInv

\* A step of the async API is a step of a handle, of the raw device or none, and
\* keeps the invariant.
LEMMA NextAsyncInv ==
    ASSUME AsyncInv, [AsyncNext]_vars
    PROVE  [HandleNext]_handleVars /\ AsyncInv'
<1>1. ASSUME NEW h \in Threads, DropAsync(h) \/ \E i \in Indices : NewAsync(h, i)
      PROVE  [HandleNext]_handleVars /\ AsyncInv'
  BY <1>1, DropAsyncStep, NewAsyncStep
<1>2. CASE PoolTakes
  BY <1>2, PoolTakesStep
<1>3. ASSUME NEW s \in Slots, Progress(s)
      PROVE  [HandleNext]_handleVars /\ AsyncInv'
  BY <1>3, BlockingLockStep, BodyStep, ZoneOpStep, MakeHandleStep, DropCloneStep,
     CompleteStep, EndGetterStep DEF Progress
<1>4. ASSUME NEW s \in Slots, Client(s)
      PROVE  [HandleNext]_handleVars /\ AsyncInv'
  BY <1>4, CallStep, CallZoneOpStep, CallZoneHandleStep, GetStep, CancelFutureStep,
     CancelGetterStep DEF Client
<1>5. CASE (DriveCloses \/ UNCHANGED handleVars) /\ UNCHANGED asyncVars
  <2>1. [HandleNext]_handleVars /\ UNCHANGED <<handle, left>>
    BY <1>5 DEF HandleNext, DriveCloses, handleVars
  <2>2. UNCHANGED <<call, pool, owner, waiters, held>>
    BY <1>5 DEF asyncVars
  <2>3. TypeInv'
    BY <2>1, NextTyping DEF AsyncInv
  <2>4. CallsOK' /\ PoolInv' /\ MutexInv' /\ WriterRuns'
    BY <2>1, <2>2, PoolKept, MutexKept, WritersKept DEF AsyncInv, CallsOK
  <2>5. MakerAlone' /\ PendingFree' /\ ClosureKeepsHandle'
    BY <2>1, <2>2, GoOn
  <2> QED BY <2>1, <2>3, <2>4, <2>5 DEF AsyncInv
<1> QED BY <1>1, <1>2, <1>3, <1>4, <1>5 DEF AsyncNext, vars

\* Calls, queues and mutexes have their types and agree with each other: a call
\* is in the queue its phase says, and a mutex that is taken has a running owner.
THEOREM AsyncTyping == AsyncSpec => []AsyncTypeOK
<1>1. ASSUME AsyncInv PROVE AsyncTypeOK
  <2> USE <1>1 DEF AsyncInv
  <2>1. \A s \in Slots : CallOK(call[s])
    BY DEF CallsOK
  <2>2. call \in [Slots -> CallType]
    BY <2>1 DEF CallsOK, CallOK
  <2>3. pool \in Seq(Slots) /\ Queued = {pool[k] : k \in DOMAIN pool}
    <3>1. pool \in Seq(Slots) /\ DOMAIN pool = 1 .. Len(pool)
      BY DEF PoolInv, Enumerates
    <3> QED BY <3>1 DEF PoolInv, Enumerates, Queued
  <2>4. ASSUME NEW h \in Threads
        PROVE  /\ Waiting(h) = {waiters[h][k] : k \in DOMAIN waiters[h]}
               /\ owner[h] = NoSlot => waiters[h] = <<>>
    <3>1. waiters[h] \in Seq(Slots) /\ DOMAIN waiters[h] = 1 .. Len(waiters[h])
      BY DEF MutexInv
    <3>2. Waiting(h) = {waiters[h][k] : k \in DOMAIN waiters[h]}
      BY <3>1 DEF MutexInv, Enumerates, Waiting
    <3>3. ASSUME owner[h] = NoSlot, waiters[h] # <<>> PROVE FALSE
      <4>1. waiters[h][1] \in Waiting(h)
        BY <3>1, <3>2, <3>3
      <4> QED BY <3>3, <4>1 DEF MutexInv
    <3> QED BY <3>2, <3>3
  <2>5. \A h \in Threads : owner[h] # NoSlot =>
            call[owner[h]].on = h /\ call[owner[h]].phase = "Running"
    BY DEF MutexInv
  <2>6. \A s \in Slots : /\ call[s] # NoCall <=> call[s].phase # "None"
                         /\ call[s].method \notin DeviceCalls \cup {"None"} =>
                                call[s].on \in Threads
    <3> TAKE s \in Slots
    <3>1. call[s] # NoCall <=> call[s].phase # "None"
      <4>1. NoCall.phase = "None"
        BY DEF NoCall
      <4> QED BY <2>1, <4>1 DEF CallOK
    <3>2. call[s].method \notin DeviceCalls \cup {"None"} => call[s].on \in Threads
      <4>1. call[s].method \in HandleCalls \cup DeviceCalls \cup {"None", "getter"}
        BY <2>1 DEF CallOK, CallType
      <4> QED BY <2>1, <4>1 DEF CallOK, HandleCalls, DeviceCalls
    <3> QED BY <3>1, <3>2
  <2> QED BY <2>2, <2>3, <2>4, <2>5, <2>6
          DEF AsyncTypeOK, CallType, CallsOK, MutexInv, Queued, Waiting
<1> QED BY <1>1, InitAsyncInv, NextAsyncInv, PTL DEF AsyncSpec

\* Whatever calls are in progress or dropped, one at a time works on a handle,
\* and nobody gets at it between two turns of another's write_all_sequential.
THEOREM AsyncExclusive == AsyncSpec => []ExclusiveAccess
<1>1. ASSUME AsyncInv PROVE ExclusiveAccess
  <2>1. ASSUME NEW s \in Slots, NEW u \in Slots, call[s].phase = "Running",
               call[u].phase = "Running", call[s].on = call[u].on
        PROVE  s = u
    <3>1. call[s].on \in Threads
      BY <1>1, <2>1 DEF AsyncInv, CallsOK, CallOK, CallType, HandleCalls, DeviceCalls
    <3> QED BY <1>1, <2>1, <3>1 DEF AsyncInv, MutexInv
  <2> QED BY <1>1, <2>1 DEF AsyncInv, WriterRuns, ExclusiveAccess
<1> QED BY <1>1, InitAsyncInv, NextAsyncInv, PTL DEF AsyncSpec

\* A handle lives as long as its client or a closure has it, and no longer,
\* however many futures were dropped before their closures ran.
THEOREM ClosuresKeepHandle == AsyncSpec => []ClosureKeepsHandle
<1>1. AsyncInv => ClosureKeepsHandle
  BY DEF AsyncInv
<1> QED BY <1>1, InitAsyncInv, NextAsyncInv, PTL DEF AsyncSpec

\* Handles used through the async API behave as ZoneHandle specifies: the mutex
\* makes each method, or each turn of write_all_sequential, one step, and the
\* client's obligation still holds when a closure runs.
THEOREM AsyncImplementsHandles == AsyncSpec => HandleSpec
<1>1. AsyncInit => HandleInit
  BY DEF AsyncInit
<1> QED BY <1>1, InitAsyncInv, NextAsyncInv, PTL DEF AsyncSpec, HandleSpec

\* So what is proved of handles holds through the async API, on Linux and when
\* no write spills: the pointer of a handle none of whose calls failed is the
\* drive's, although futures are dropped in the middle of its writes.
THEOREM AsyncPointerTracking ==
    ASSUME Platform = "linux", NoSpill
    PROVE  AsyncSpec => []PointerTracksDevice
BY AsyncImplementsHandles, PointerTracking, PTL

=============================================================================
