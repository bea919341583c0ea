------------------------------ MODULE ZoneBench ------------------------------
(***************************************************************************)
(* run_bench of examples/zcli.rs: a whole program above ZoneAllocator,     *)
(* ZoneHandle and the raw ZonedDevice.  The main thread allocates and      *)
(* resets zones_per_thread zones for each of the worker threads; a worker  *)
(* writes its zones full, one after the other, and drops each handle; the  *)
(* main thread joins the workers, flushes, and resets the zones through    *)
(* the device, as the handles are gone by then.                            *)
(*                                                                         *)
(* A thread of ZoneAllocator is one of the program's handles here: main    *)
(* makes all of them before the workers run, and each of them is used by   *)
(* one worker only.  When main returns an error the process ends, and the  *)
(* workers still running with it, after any of their steps.                *)
(***************************************************************************)
EXTENDS ZoneAllocator, Sequences, FiniteSets

CONSTANTS
    NrWorkers,      \* --threads
    ZonesPerWorker, \* --zones-per-thread
    Slots           \* the handles in the order in which main makes them

ASSUME BenchAssumption ==
    /\ NrWorkers \in Nat \ {0} /\ ZonesPerWorker \in Nat \ {0}
    /\ Slots \in Seq(Threads)
    /\ Len(Slots) = NrWorkers * ZonesPerWorker
    /\ \A i, j \in DOMAIN Slots : i # j => Slots[i] # Slots[j]
    /\ Clamped

Workers == 1 .. NrWorkers

VARIABLES
    stage,      \* where main is
    made,       \* how many handles it has allocated and reset
    list,       \* `allocated`: the snapshot of the allocator's zones
    toReset,    \* those of them that it still has to reset
    joined,     \* how many workers it has joined
    worker,     \* worker[w]: whether w writes, drops what it has, or has ended
    zoneBytes,  \* zoneBytes[s]: zone_bytes of the zone of handle s, in sectors
    total,      \* total_bytes_written
    before      \* history: the drive when bench began

benchVars == <<stage, made, list, toReset, joined, worker, zoneBytes, total, before>>
allVars == <<vars, benchVars>>

Stages  == {"Allocate", "Join", "Reset", "Done", "Failed"}
Workings == {"Unborn", "Running", "Failing", "Ok", "Err"}

BenchTypeOK ==
    /\ AllocatorTypeOK
    /\ stage \in Stages /\ made \in 0 .. Len(Slots) /\ joined \in 0 .. NrWorkers
    /\ list \subseteq Zones /\ toReset \subseteq list
    /\ worker \in [Workers -> Workings]
    /\ zoneBytes \in [Threads -> 0 .. ZoneLen] /\ total \in Nat

BenchInit ==
    /\ AllocatorInit
    /\ stage = "Allocate" /\ made = 0
    /\ list = {} /\ toReset = {} /\ joined = 0
    /\ worker = [w \in Workers |-> "Unborn"]
    /\ zoneBytes = [s \in Threads |-> 0] /\ total = 0
    /\ before = drive

-----------------------------------------------------------------------------
(* The main thread: allocation                                             *)

NextSlot == Slots[made + 1]

\* allocator.allocate() for the next handle.
AllocateNext ==
    /\ stage = "Allocate" /\ made < Len(Slots)
    /\ \/ outcome[NextSlot] = "None" /\ Allocate(NextSlot)
       \/ Continue(NextSlot)
    /\ UNCHANGED benchVars

\* `?`: the handles made so far are dropped one by one.
AllocateFails ==
    /\ stage = "Allocate" /\ made < Len(Slots)
    /\ outcome[NextSlot] \notin {"None", "Pending", "Ok"}
    /\ stage' = "Failed"
    /\ UNCHANGED <<vars, made, list, toReset, joined, worker, zoneBytes, total, before>>

\* handle.reset() of the handle just allocated.
ResetNext ==
    /\ stage = "Allocate" /\ made < Len(Slots)
    /\ pc[NextSlot] = "Held"
    /\ ResetZone(NextSlot)
    /\ IF result'[NextSlot] = "Ok" THEN made' = made + 1 /\ UNCHANGED stage
                                   ELSE stage' = "Failed" /\ UNCHANGED made
    /\ UNCHANGED <<allocatorVars, list, toReset, joined, worker, zoneBytes, total, before>>

\* main leaves before a worker has been spawned: its handles go.
DropMade ==
    /\ stage = "Failed" /\ list = {}
    /\ \E s \in Threads : DropHandle(s)
    /\ UNCHANGED benchVars

\* The snapshot, and thread::spawn for each worker.
Spawn ==
    /\ stage = "Allocate" /\ made = Len(Slots)
    /\ MutexFree
    /\ list' = allocated
    /\ stage' = "Join"
    /\ worker' = [w \in Workers |-> "Running"]
    /\ UNCHANGED <<vars, made, toReset, joined, zoneBytes, total, before>>

-----------------------------------------------------------------------------
(* The workers                                                             *)

\* The handles that worker w was given.
Given(w) == {Slots[(w - 1) * ZonesPerWorker + k] : k \in 1 .. ZonesPerWorker}

\* The first of them that it has not dropped.
IsCurrent(w, s) ==
    \E i \in DOMAIN Slots :
        /\ s = Slots[i] /\ s \in Given(w) /\ Live(s)
        /\ \A j \in 1 .. i - 1 : Slots[j] \in Given(w) => ~Live(Slots[j])

HasHandles(w) == \E s \in Given(w) : Live(s)

\* Mutant: the whole buffer is passed, whatever the zone has left.
Least_Buffer(m, n) == n

Least(m, n) == IF m <= n THEN m ELSE n

\* capacity_bytes - zone_bytes
Remaining(s) == Capacity(handle[s].zone) - zoneBytes[s]

\* What write_sequential returned.
Count(s) == handle'[s].wp - handle[s].wp

\* A turn of the inner loop, with write_sequential or writev_sequential.  A
\* write that returns 0 changes nothing.
WriteZone(w) ==
    /\ worker[w] = "Running"
    /\ \E s \in Threads :
           /\ IsCurrent(w, s)
           /\ Remaining(s) > 0
           /\ WriteSequential(s, Least(Remaining(s), MaxBuf))
           /\ IF result'[s] = "Ok"
              THEN /\ zoneBytes' = [zoneBytes EXCEPT ![s] = @ + Count(s)]
                   /\ total' = total + Count(s)
                   /\ UNCHANGED worker
              ELSE worker' = [worker EXCEPT ![w] = "Failing"] /\ UNCHANGED <<zoneBytes, total>>
    /\ UNCHANGED <<allocatorVars, stage, made, list, toReset, joined, before>>

\* The end of the outer loop's body, or of the closure after an error: the
\* first handle is dropped.
DropNext(w) ==
    /\ \E s \in Threads :
           /\ IsCurrent(w, s)
           /\ worker[w] = "Failing" \/ (worker[w] = "Running" /\ Remaining(s) = 0)
           /\ DropHandle(s)
    /\ UNCHANGED benchVars

\* Mutant: a worker has ended when its last zone is full, not when the handle of
\* that zone is gone.
EndWorker_Early(w) ==
    /\ worker[w] \in {"Running", "Failing"}
    /\ \A s \in Given(w) : Live(s) => worker[w] = "Running" /\ Remaining(s) = 0
    /\ worker' = [worker EXCEPT ![w] = IF @ = "Running" THEN "Ok" ELSE "Err"]
    /\ UNCHANGED <<vars, stage, made, list, toReset, joined, zoneBytes, total, before>>

EndWorker(w) ==
    /\ worker[w] \in {"Running", "Failing"}
    /\ ~HasHandles(w)
    /\ worker' = [worker EXCEPT ![w] = IF @ = "Running" THEN "Ok" ELSE "Err"]
    /\ UNCHANGED <<vars, stage, made, list, toReset, joined, zoneBytes, total, before>>

-----------------------------------------------------------------------------
(* The main thread: join, fsync, reset                                     *)

\* Mutant: the error of a worker is dropped, not returned.
Join_IgnoresErr ==
    /\ stage = "Join" /\ joined < NrWorkers
    /\ worker[joined + 1] \in {"Ok", "Err"}
    /\ joined' = joined + 1
    /\ UNCHANGED <<vars, stage, made, list, toReset, worker, zoneBytes, total, before>>

\* The workers are joined in order; the first error ends the process.
Join ==
    /\ stage = "Join" /\ joined < NrWorkers
    /\ \/ worker[joined + 1] = "Ok" /\ joined' = joined + 1 /\ UNCHANGED stage
       \/ worker[joined + 1] = "Err" /\ stage' = "Failed" /\ UNCHANGED joined
    /\ UNCHANGED <<vars, made, list, toReset, worker, zoneBytes, total, before>>

\* Mutant: the allocator is asked for its zones only now.
Flush_Snapshots ==
    /\ stage = "Join" /\ joined = NrWorkers
    /\ \/ stage' = "Reset" /\ toReset' = allocated
       \/ stage' = "Failed" /\ UNCHANGED toReset
    /\ UNCHANGED <<vars, made, list, joined, worker, zoneBytes, total, before>>

\* dev.fsync(), if asked for.
Flush ==
    /\ stage = "Join" /\ joined = NrWorkers
    /\ \/ stage' = "Reset" /\ toReset' = list
       \/ stage' = "Failed" /\ UNCHANGED toReset
    /\ UNCHANGED <<vars, made, list, joined, worker, zoneBytes, total, before>>

\* dev.reset_zones(zone_size * zone_idx, zone_size) for the next zone.
ResetListed ==
    /\ stage = "Reset"
    /\ \E z \in toReset :
           /\ \A x \in toReset : z <= x
           /\ \/ drive' \in ResetStates(drive, z) /\ toReset' = toReset \ {z} /\ UNCHANGED stage
              \/ /\ drive' \in ResetStates(drive, z) \cup {drive}
                 /\ stage' = "Failed" /\ UNCHANGED toReset
    /\ UNCHANGED <<handle, left, result, goal, turn, synced, allocatorVars,
                   made, list, joined, worker, zoneBytes, total, before>>

Finish ==
    /\ stage = "Reset" /\ toReset = {}
    /\ stage' = "Done"
    /\ UNCHANGED <<vars, made, list, toReset, joined, worker, zoneBytes, total, before>>

-----------------------------------------------------------------------------
(* The specification                                                       *)

Main ==
    AllocateNext \/ AllocateFails \/ ResetNext \/ DropMade \/ Spawn
    \/ Join \/ Flush \/ ResetListed \/ Finish

Work(w) == WriteZone(w) \/ DropNext(w) \/ EndWorker(w)

BenchNext ==
    \/ Main
    \/ \E w \in Workers : Work(w)
    \/ DriveCloses /\ UNCHANGED <<allocatorVars, benchVars>>

BenchSpec == BenchInit /\ [][BenchNext]_allVars

\* The threads of a process keep running; a write repeated with nothing in its
\* way does not return 0 for ever.
BenchFairness == WF_allVars(Main) /\ \A w \in Workers : WF_allVars(Work(w))

BenchFairSpec == BenchSpec /\ BenchFairness

-----------------------------------------------------------------------------
(* Properties                                                              *)

Touched == {z \in Zones : drive[z].wp # before[z].wp}

\* What bench leaves on a device: it changes only zones that were empty, at most
\* one zone per worker is ever written in part (the number that is compared with
\* the device's max_open_zones), and a bench that succeeds leaves nothing.
BenchFootprint ==
    /\ \A z \in Touched : before[z].cond = "Empty"
    /\ Cardinality({z \in Touched : drive[z].cond # "Full"}) <= NrWorkers
    /\ stage = "Done" => Touched = {}

\* When the results are printed, every zone of the snapshot is full and the
\* total is what was written, whatever short writes there were.
BenchFills ==
    stage = "Reset" /\ toReset = list =>
        /\ Cardinality(list) = Len(Slots)
        /\ total = Len(Slots) * ZoneCap
        /\ \A z \in list : drive[z].cond = "Full"

\* The program comes to an end: no failure of a worker leaves main waiting, and
\* no handle being dropped waits for a mutex that nobody gives up.
BenchEnds == <>(stage \in {"Done", "Failed"})

=============================================================================
