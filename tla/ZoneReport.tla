------------------------------ MODULE ZoneReport ------------------------------
(***************************************************************************)
(* The two ways the library walks over all zones of a device:              *)
(* ZonedDevice::report_all_zones (src/device/mod.rs), and ZoneIterator     *)
(* (src/device/iter.rs), consumed here by report_zones_filtered.  Both ask *)
(* for batches of zones and continue where the last zone of a batch ends;  *)
(* between two batches the conditions of the zones change.                 *)
(*                                                                         *)
(* Sectors are real sectors of the device here.  A reported zone is its    *)
(* index and the condition it had.                                         *)
(***************************************************************************)
EXTENDS Integers, Sequences, FiniteSets

CONSTANTS
    NrZones,        \* DeviceInfo.nr_zones
    ZoneStart,      \* ZoneStart[z]: where z starts; [NrZones]: the device's end
    Conditions,     \* bound: the conditions told apart
    Wanted,         \* the conditions the filter lets through
    Batches,        \* bound: the batch sizes asked for
    MaxChanges      \* bound: how often zones change while the walks go on

Zones == 0 .. NrZones - 1

ASSUME GeometryAssumption ==
    /\ NrZones \in Nat \ {0}
    /\ ZoneStart \in [0 .. NrZones -> Nat]
    /\ ZoneStart[0] = 0
    /\ \A y, z \in 0 .. NrZones : y < z => ZoneStart[y] < ZoneStart[z]
    /\ Wanted \subseteq Conditions
    /\ Batches \subseteq Nat
    /\ MaxChanges \in Nat

VARIABLES
    cond,       \* the drive's zones
    batch,      \* batch_size of both calls
    \* report_all_zones
    sector, allZones, allOutcome,
    \* ZoneIterator
    buffer, bufPos, nextSector, done,
    \* report_zones_filtered
    filtered, filteredOutcome,
    \* history
    yielded,    \* what the iterator has yielded
    changes,    \* how often a zone has changed its condition
    honest,     \* every report began at the zone of the sector asked for
    reports     \* how many reports each walk has asked for

driveVars == <<cond, changes>>
allVars   == <<sector, allZones, allOutcome>>
iterVars  == <<buffer, bufPos, nextSector, done, filtered, filteredOutcome, yielded>>
vars      == <<driveVars, allVars, iterVars, batch, honest, reports>>

Reported == [zone : Zones, cond : Conditions]
Outcomes == {"Running", "Ok", "Err"}

ReportInit ==
    /\ cond \in [Zones -> Conditions]
    /\ batch \in Batches
    /\ sector = 0 /\ allZones = <<>> /\ allOutcome = "Running"
    /\ buffer = <<>> /\ bufPos = 0 /\ nextSector = 0 /\ done = FALSE
    /\ filtered = <<>> /\ filteredOutcome = "Running"
    /\ yielded = <<>> /\ changes = 0 /\ honest = TRUE
    /\ reports = [all |-> 0, iterator |-> 0]

-----------------------------------------------------------------------------
(* report_zones                                                            *)

\* batch_size, or the 512 that stands for 0.
Batch == IF batch = 0 THEN 512 ELSE batch

\* The zones from first on, count of them.
ZonesFrom(first, count) ==
    [k \in 1 .. count |-> [zone |-> first + k - 1, cond |-> cond[first + k - 1]]]

\* The zone that contains sector s.
Containing(s) ==
    CHOOSE z \in Zones : ZoneStart[z] <= s /\ s < ZoneStart[z + 1]

PastEnd(s) == s >= ZoneStart[NrZones]

\* The reports of at most Batch zones that begin at a zone of Firsts.
Reports(Firsts) ==
    UNION {{ZonesFrom(first, count) : count \in {n \in 1 .. NrZones - first : n <= Batch}} :
              first \in Firsts}

\* What report_zones(s, Batch) should return: the zones from that of s on,
\* perhaps fewer than asked for; none past the end of the device, where FreeBSD
\* turns EINVAL into an empty report.
HonestReports(s) == IF PastEnd(s) THEN {<<>>} ELSE Reports({Containing(s)})

\* What a drive may return that answers for an earlier sector.
StrayReports(s) == Reports({z \in Zones : ZoneStart[z + 1] <= s})

Answers(s, zones) ==
    \/ zones \in HonestReports(s) /\ UNCHANGED honest
    \/ zones \in StrayReports(s) /\ honest' = FALSE

\* last.start + last.len
EndOf(zones) == ZoneStart[zones[Len(zones)].zone + 1]

-----------------------------------------------------------------------------
(* report_all_zones                                                        *)

\* Mutant: the loop ends with the batch that reaches the last zone but one.
ReportAllStep_OneShort ==
    /\ allOutcome = "Running"
    /\ \/ \E zones \in HonestReports(sector) \cup StrayReports(sector) :
              /\ Answers(sector, zones)
              /\ IF zones = <<>>
                 THEN allOutcome' = "Ok" /\ UNCHANGED <<sector, allZones>>
                 ELSE /\ allZones' = allZones \o zones
                      /\ IF Len(allZones') + 1 >= NrZones \/ EndOf(zones) <= sector
                         THEN allOutcome' = "Ok" /\ UNCHANGED sector
                         ELSE sector' = EndOf(zones) /\ UNCHANGED allOutcome
       \/ allOutcome' = "Err" /\ UNCHANGED <<sector, allZones, honest>>
    /\ reports' = [reports EXCEPT !.all = @ + 1]
    /\ UNCHANGED <<driveVars, iterVars, batch>>

\* One turn of the loop.
ReportAllStep ==
    /\ allOutcome = "Running"
    /\ \/ \E zones \in HonestReports(sector) \cup StrayReports(sector) :
              /\ Answers(sector, zones)
              /\ IF zones = <<>>
                 THEN allOutcome' = "Ok" /\ UNCHANGED <<sector, allZones>>
                 ELSE /\ allZones' = allZones \o zones
                      /\ IF Len(allZones') >= NrZones \/ EndOf(zones) <= sector
                         THEN allOutcome' = "Ok" /\ UNCHANGED sector
                         ELSE sector' = EndOf(zones) /\ UNCHANGED allOutcome
       \/ allOutcome' = "Err" /\ UNCHANGED <<sector, allZones, honest>>
    /\ reports' = [reports EXCEPT !.all = @ + 1]
    /\ UNCHANGED <<driveVars, iterVars, batch>>

-----------------------------------------------------------------------------
(* ZoneIterator::next, called by report_zones_filtered                     *)

\* Mutant: the filter is applied to the condition the zone has by now.
Yields_Rechecked(zone) ==
    /\ yielded' = Append(yielded, zone)
    /\ filtered' = IF cond[zone.zone] \in Wanted THEN Append(filtered, zone) ELSE filtered
    /\ UNCHANGED filteredOutcome

\* ZoneFilter::matches; type and condition are one value here.
Matches(zone) == zone.cond \in Wanted

\* Some(Ok(zone)), and the filter.
Yields(zone) ==
    /\ yielded' = Append(yielded, zone)
    /\ filtered' = IF Matches(zone) THEN Append(filtered, zone) ELSE filtered
    /\ UNCHANGED filteredOutcome

\* Mutant: buf_pos is advanced before and after the zone is taken.
FromBuffer_Twice ==
    /\ filteredOutcome = "Running"
    /\ bufPos < Len(buffer)
    /\ bufPos' = bufPos + 2
    /\ Yields(buffer[bufPos + 1])
    /\ UNCHANGED <<driveVars, allVars, batch, honest, reports, buffer, nextSector, done>>

FromBuffer ==
    /\ filteredOutcome = "Running"
    /\ bufPos < Len(buffer)
    /\ bufPos' = bufPos + 1
    /\ Yields(buffer[bufPos + 1])
    /\ UNCHANGED <<driveVars, allVars, batch, honest, reports, buffer, nextSector, done>>

Exhausted ==
    /\ filteredOutcome = "Running"
    /\ bufPos >= Len(buffer) /\ done
    /\ filteredOutcome' = "Ok"
    /\ UNCHANGED <<driveVars, allVars, batch, honest, reports, buffer, bufPos, nextSector, done,
                   filtered, yielded>>

\* Mutant: no test for progress.
Fetch_NoGuard ==
    /\ filteredOutcome = "Running"
    /\ bufPos >= Len(buffer) /\ ~done
    /\ \/ \E zones \in HonestReports(nextSector) \cup StrayReports(nextSector) :
              /\ Answers(nextSector, zones)
              /\ IF zones = <<>>
                 THEN /\ filteredOutcome' = "Ok" /\ done' = TRUE
                      /\ UNCHANGED <<buffer, bufPos, nextSector, filtered, yielded>>
                 ELSE /\ nextSector' = EndOf(zones)
                      /\ buffer' = zones
                      /\ bufPos' = 1
                      /\ UNCHANGED done
                      /\ Yields(zones[1])
       \/ /\ filteredOutcome' = "Err" /\ done' = TRUE
          /\ UNCHANGED <<buffer, bufPos, nextSector, filtered, yielded, honest>>
    /\ reports' = [reports EXCEPT !.iterator = @ + 1]
    /\ UNCHANGED <<driveVars, allVars, batch>>

\* The next batch is fetched and its first zone yielded.
Fetch ==
    /\ filteredOutcome = "Running"
    /\ bufPos >= Len(buffer) /\ ~done
    /\ \/ \E zones \in HonestReports(nextSector) \cup StrayReports(nextSector) :
              /\ Answers(nextSector, zones)
              /\ IF zones = <<>>
                 THEN /\ filteredOutcome' = "Ok" /\ done' = TRUE
                      /\ UNCHANGED <<buffer, bufPos, nextSector, filtered, yielded>>
                 ELSE /\ done' = (EndOf(zones) <= nextSector)
                      /\ nextSector' = EndOf(zones)
                      /\ buffer' = zones
                      /\ bufPos' = 1
                      /\ Yields(zones[1])
       \/ /\ filteredOutcome' = "Err" /\ done' = TRUE
          /\ UNCHANGED <<buffer, bufPos, nextSector, filtered, yielded, honest>>
    /\ reports' = [reports EXCEPT !.iterator = @ + 1]
    /\ UNCHANGED <<driveVars, allVars, batch>>

-----------------------------------------------------------------------------
(* The specification                                                       *)

\* Somebody writes, resets or finishes a zone.
ZoneChanges ==
    /\ \E z \in Zones : \E c \in Conditions \ {cond[z]} : cond' = [cond EXCEPT ![z] = c]
    /\ changes < MaxChanges
    /\ changes' = changes + 1
    /\ UNCHANGED <<allVars, iterVars, batch, honest, reports>>

ReportNext == ReportAllStep \/ FromBuffer \/ Exhausted \/ Fetch \/ ZoneChanges

ReportSpec == ReportInit /\ [][ReportNext]_vars

-----------------------------------------------------------------------------
(* Properties                                                              *)

ReportTypeOK ==
    /\ cond \in [Zones -> Conditions]
    /\ batch \in Batches
    /\ sector \in Nat /\ nextSector \in Nat
    /\ allZones \in Seq(Reported) /\ buffer \in Seq(Reported)
    /\ filtered \in Seq(Reported) /\ yielded \in Seq(Reported)
    /\ bufPos \in 0 .. Len(buffer)
    /\ allOutcome \in Outcomes /\ filteredOutcome \in Outcomes
    /\ done \in BOOLEAN /\ honest \in BOOLEAN /\ changes \in 0 .. MaxChanges
    /\ reports \in [all : Nat, iterator : Nat]

\* zones lists the first zones of the device, each once and in order.
Leading(zones) == Len(zones) <= NrZones /\ \A k \in DOMAIN zones : zones[k].zone = k - 1

\* Whatever the batch size, short reports and changes in between, both walks
\* list every zone once and in order, and end without error only after the
\* last.  (report_all_zones, ZoneIterator::next.)
EveryZoneOnce ==
    honest =>
        /\ Leading(allZones) /\ Leading(yielded)
        /\ allOutcome = "Ok" => Len(allZones) = NrZones
        /\ filteredOutcome = "Ok" => Len(yielded) = NrZones

\* How many of the first n zones of zones the filter lets through.
Passed(zones, n) == Cardinality({k \in 1 .. n : zones[k].cond \in Wanted})

\* kept is zones without those the filter stops: as many as pass, and each at the
\* place that the number of those before it gives.
Selected(kept, zones) ==
    /\ Len(kept) = Passed(zones, Len(zones))
    /\ \A n \in DOMAIN zones :
           zones[n].cond \in Wanted => kept[Passed(zones, n)] = zones[n]

\* A zone passes the filter by the condition it is returned with: no zone is
\* returned with a condition that was not asked for, or left out with one that
\* was, because it changed while it lay in the iterator's buffer.  On a device
\* nobody changes that is what filtering report_all_zones gives.
FilterConsistent ==
    /\ Selected(filtered, yielded)
    /\ changes = 0 /\ honest /\ allOutcome = "Ok" /\ filteredOutcome = "Ok" =>
           Selected(filtered, allZones)

\* Both walks end after a number of reports that the device's zones bound, even
\* on a drive whose reports make no progress.
ReportsBounded == reports.all <= NrZones + 1 /\ reports.iterator <= NrZones + 1

=============================================================================
