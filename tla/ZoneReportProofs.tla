--------------------------- MODULE ZoneReportProofs ---------------------------
(***************************************************************************)
(* Theorems about the walks of ZoneReport, for every device, every batch   *)
(* size, every length of the reports and every change of the zones between *)
(* them: each walk lists every zone once and in order, the filter goes by  *)
(* the condition a zone is returned with, and both walks end.              *)
(***************************************************************************)
EXTENDS ZoneReport, TLAPS, SequenceTheorems, FiniteSetTheorems

-----------------------------------------------------------------------------
(* The inductive invariant                                                 *)

\* report_all_zones stands where a zone begins: every turn of its loop brought
\* it at least one zone further, and past every zone it has listed.
AllWalks ==
    /\ allOutcome = "Running" =>
           \E j \in 0 .. NrZones :
               /\ sector = ZoneStart[j]
               /\ reports.all <= j
               /\ honest => Len(allZones) = j /\ j < NrZones
    /\ reports.all <= NrZones + 1
    /\ honest => Leading(allZones) /\ (allOutcome = "Ok" => Len(allZones) = NrZones)

\* ZoneIterator stands where a zone begins; the zones before it have been yielded
\* or are the rest of the buffer, which holds the last zones before it.
IteratorWalks ==
    /\ \E j \in 0 .. NrZones :
           /\ nextSector = ZoneStart[j]
           /\ ~done => reports.iterator <= j
           /\ honest => /\ Len(yielded) + Len(buffer) - bufPos = j
                        /\ \A k \in DOMAIN buffer : buffer[k].zone = j - Len(buffer) + k - 1
    /\ reports.iterator <= NrZones + 1
    /\ honest => /\ Leading(yielded)
                 /\ filteredOutcome = "Running" => ~done
                 /\ filteredOutcome = "Ok" => Len(yielded) = NrZones

\* Every zone of zones still has the condition it was reported with.
Fresh(zones) == \A k \in DOMAIN zones : zones[k].cond = cond[zones[k].zone]

\* On a device nobody changes, every report is still true.
Untouched == changes = 0 => Fresh(allZones) /\ Fresh(buffer) /\ Fresh(yielded)

ReportInv ==
    /\ ReportTypeOK
    /\ AllWalks
    /\ IteratorWalks
    /\ Untouched
    /\ Selected(filtered, yielded)

-----------------------------------------------------------------------------
(* Geometry and reports                                                    *)

\* Zones begin in the order of their indices.
LEMMA ReportStarts ==
    /\ NrZones \in Nat \ {0} /\ ZoneStart[0] = 0
    /\ \A z \in 0 .. NrZones : ZoneStart[z] \in Nat
    /\ \A y, z \in 0 .. NrZones : ZoneStart[y] < ZoneStart[z] <=> y < z
    /\ \A z \in Zones : z \in 0 .. NrZones /\ z + 1 \in 0 .. NrZones
<1>1. NrZones \in Nat \ {0} /\ ZoneStart \in [0 .. NrZones -> Nat] /\ ZoneStart[0] = 0
  BY GeometryAssumption
<1>2. \A y, z \in 0 .. NrZones : y < z => ZoneStart[y] < ZoneStart[z]
  BY GeometryAssumption
<1>3. ASSUME NEW y \in 0 .. NrZones, NEW z \in 0 .. NrZones, ZoneStart[y] < ZoneStart[z]
      PROVE  y < z
  <2>1. ZoneStart[y] \in Nat /\ ZoneStart[z] \in Nat /\ y \in Nat /\ z \in Nat
    BY <1>1
  <2>2. z # y
    BY <2>1, <1>3
  <2>3. ~(z < y)
    BY <2>1, <1>2, <1>3
  <2> QED BY <2>1, <2>2, <2>3
<1>4. \A z \in Zones : z \in 0 .. NrZones /\ z + 1 \in 0 .. NrZones
  BY <1>1 DEF Zones
<1> QED BY <1>1, <1>2, <1>3, <1>4

\* A sector where a zone begins lies in that zone.
LEMMA ContainingStart ==
    ASSUME NEW j \in 0 .. NrZones
    PROVE  /\ PastEnd(ZoneStart[j]) <=> j = NrZones
           /\ j # NrZones => j \in Zones /\ Containing(ZoneStart[j]) = j
<1>0. NrZones \in Nat \ {0} /\ NrZones \in 0 .. NrZones /\ j \in Nat
  BY ReportStarts
<1>1. PastEnd(ZoneStart[j]) <=> j = NrZones
  <2>1. ZoneStart[j] \in Nat /\ ZoneStart[NrZones] \in Nat
        /\ (ZoneStart[j] < ZoneStart[NrZones] <=> j < NrZones)
    BY <1>0, ReportStarts
  <2> QED BY <1>0, <2>1 DEF PastEnd
<1>2. ASSUME j # NrZones PROVE j \in Zones /\ Containing(ZoneStart[j]) = j
  <2>1. j \in Zones
    BY <1>0, <1>2 DEF Zones
  <2>2. ZoneStart[j] <= ZoneStart[j] /\ ZoneStart[j] < ZoneStart[j + 1]
    <3>1. j + 1 \in 0 .. NrZones /\ j < j + 1
      BY <1>0, <2>1, ReportStarts
    <3> QED BY <3>1, ReportStarts
  <2>3. ASSUME NEW z \in Zones, ZoneStart[z] <= ZoneStart[j], ZoneStart[j] < ZoneStart[z + 1]
        PROVE  z = j
    <3>1. z \in 0 .. NrZones /\ z + 1 \in 0 .. NrZones /\ z \in Nat
      BY ReportStarts DEF Zones
    <3>2. j < z + 1
      BY <2>3, <3>1, ReportStarts
    <3>3. ~(j < z)
      <4>1. ZoneStart[j] \in Nat /\ ZoneStart[z] \in Nat
            /\ (ZoneStart[j] < ZoneStart[z] <=> j < z)
        BY <3>1, ReportStarts
      <4> QED BY <2>3, <4>1
    <3> QED BY <1>0, <3>1, <3>2, <3>3
  <2> QED BY <2>1, <2>2, <2>3 DEF Containing
<1> QED BY <1>1, <1>2

\* The shape of a report that begins at first.
Listed(zones, first) ==
    /\ zones \in Seq(Reported) /\ Len(zones) \in 1 .. NrZones - first
    /\ \A k \in DOMAIN zones : zones[k].zone = first + k - 1
    /\ EndOf(zones) = ZoneStart[first + Len(zones)]
    /\ Fresh(zones)

\* A report lists its zones as they are, in order, and ends where the last one does.
LEMMA ReportShape ==
    ASSUME cond \in [Zones -> Conditions],
           NEW first \in Zones, NEW count \in 1 .. NrZones - first
    PROVE  Listed(ZonesFrom(first, count), first)
<1> DEFINE zones == ZonesFrom(first, count)
<1>0. NrZones \in Nat \ {0} /\ first \in Nat /\ count \in Nat \ {0} /\ first + count <= NrZones
  BY ReportStarts DEF Zones
<1>1. \A k \in 1 .. count : first + k - 1 \in Zones
  BY <1>0 DEF Zones
<1>2. zones \in [1 .. count -> Reported]
  BY <1>1 DEF ZonesFrom, Reported
<1>3. zones \in Seq(Reported) /\ Len(zones) = count /\ DOMAIN zones = 1 .. count
  <2>1. zones \in Seq(Reported)
    BY <1>0, <1>2, SeqDef
  <2>2. DOMAIN zones = 1 .. count
    BY <1>2
  <2>3. DOMAIN zones = 1 .. Len(zones) /\ Len(zones) \in Nat
    BY <2>1, LenProperties
  <2> HIDE DEF zones
  <2> QED BY <1>0, <2>1, <2>2, <2>3
<1>4. ASSUME NEW k \in 1 .. count
      PROVE  zones[k].zone = first + k - 1 /\ zones[k].cond = cond[first + k - 1]
  <2>1. zones[k] = [zone |-> first + k - 1, cond |-> cond[first + k - 1]]
    BY DEF ZonesFrom
  <2> HIDE DEF zones
  <2> QED BY <2>1
<1> HIDE DEF zones
<1>5. \A k \in 1 .. count : zones[k].zone = first + k - 1 /\ zones[k].cond = cond[first + k - 1]
  BY <1>4
<1>6. EndOf(zones) = ZoneStart[first + Len(zones)]
  <2>1. zones[count].zone + 1 = first + count
    BY <1>0, <1>5
  <2> QED BY <1>3, <2>1 DEF EndOf
<1>7. Fresh(zones)
  BY <1>3, <1>5 DEF Fresh
<1>8. Listed(zones, first)
  BY <1>0, <1>3, <1>5, <1>6, <1>7 DEF Listed
<1> QED BY <1>8 DEF zones

\* What a drive answers for the sector where zone j begins: zones in order, from
\* j on if the report is honest; nothing only past the last zone.
LEMMA AnswerShape ==
    ASSUME cond \in [Zones -> Conditions], batch \in Batches,
           NEW j \in 0 .. NrZones, NEW zones, Answers(ZoneStart[j], zones)
    PROVE  /\ zones = <<>> \/ \E first \in Zones : Listed(zones, first)
           /\ \/ honest' = FALSE
              \/ /\ honest' = honest
                 /\ zones = <<>> => j = NrZones
                 /\ zones # <<>> => j \in Zones /\ Listed(zones, j)
<1>1. ASSUME NEW Firsts \in SUBSET Zones, zones \in Reports(Firsts)
      PROVE  zones # <<>> /\ \E first \in Firsts : Listed(zones, first)
  <2>1. PICK first \in Firsts :
            zones \in {ZonesFrom(first, count) :
                          count \in {n \in 1 .. NrZones - first : n <= Batch}}
    BY <1>1 DEF Reports
  <2>2. PICK count \in 1 .. NrZones - first : zones = ZonesFrom(first, count)
    BY <2>1
  <2>3. first \in Zones
    BY <2>1
  <2>4. Listed(zones, first)
    BY <2>2, <2>3, ReportShape
  <2>5. zones # <<>>
    BY <2>4, EmptySeq, ReportStarts DEF Listed
  <2> QED BY <2>4, <2>5
<1>2. ASSUME zones \in HonestReports(ZoneStart[j])
      PROVE  /\ zones = <<>> => j = NrZones
             /\ zones # <<>> => j \in Zones /\ Listed(zones, j)
  <2>1. CASE j = NrZones
    <3>1. zones = <<>>
      BY <1>2, <2>1, ContainingStart DEF HonestReports
    <3> QED BY <2>1, <3>1
  <2>2. CASE j # NrZones
    <3>1. j \in Zones /\ zones \in Reports({j})
      BY <1>2, <2>2, ContainingStart DEF HonestReports
    <3>2. zones # <<>> /\ \E first \in {j} : Listed(zones, first)
      BY <3>1, <1>1
    <3> QED BY <3>1, <3>2
  <2> QED BY <2>1, <2>2
<1>3. ASSUME zones \in StrayReports(ZoneStart[j])
      PROVE  \E first \in Zones : Listed(zones, first)
  <2>1. zones \in Reports({z \in Zones : ZoneStart[z + 1] <= ZoneStart[j]})
    BY <1>3 DEF StrayReports
  <2> QED BY <1>1, <2>1
<1>4. CASE zones \in HonestReports(ZoneStart[j]) /\ UNCHANGED honest
  BY <1>2, <1>4
<1>5. CASE zones \in StrayReports(ZoneStart[j]) /\ honest' = FALSE
  BY <1>3, <1>5
<1> QED BY <1>4, <1>5 DEF Answers

-----------------------------------------------------------------------------
(* The filter                                                              *)

Passing(zones, n) == {k \in 1 .. n : zones[k].cond \in Wanted}

\* The zones that pass are counted, and each has its place among them.
LEMMA PassedBounds ==
    ASSUME NEW zones, NEW m \in Nat, NEW n \in 0 .. m
    PROVE  /\ IsFiniteSet(Passing(zones, n)) /\ Passed(zones, n) \in Nat
           /\ Passed(zones, n) <= Passed(zones, m)
           /\ n > 0 /\ zones[n].cond \in Wanted => Passed(zones, n) >= 1
<1>1. \A k \in Nat : IsFiniteSet(Passing(zones, k))
  <2> TAKE k \in Nat
  <2>1. IsFiniteSet(1 .. k)
    BY FS_Interval
  <2>2. Passing(zones, k) \subseteq 1 .. k
    BY DEF Passing
  <2> QED BY <2>1, <2>2, FS_Subset
<1>2. \A k \in Nat : Passed(zones, k) = Cardinality(Passing(zones, k)) /\ Passed(zones, k) \in Nat
  BY <1>1, FS_CardinalityType DEF Passed, Passing
<1>3. Passed(zones, n) <= Passed(zones, m)
  <2>1. Passing(zones, n) \subseteq Passing(zones, m)
    BY DEF Passing
  <2> QED BY <1>1, <1>2, <2>1, FS_Subset
<1>4. ASSUME n > 0, zones[n].cond \in Wanted PROVE Passed(zones, n) >= 1
  <2>1. n \in Passing(zones, n)
    BY <1>4 DEF Passing
  <2>2. Cardinality(Passing(zones, n)) # 0
    BY <1>1, <2>1, FS_EmptySet
  <2> QED BY <1>2, <2>2
<1> QED BY <1>1, <1>2, <1>3, <1>4

\* A zone added at the end is counted there and nowhere else.
LEMMA PassedAppend ==
    ASSUME NEW zones \in Seq(Reported), NEW zone \in Reported
    PROVE  /\ \A n \in 0 .. Len(zones) : Passed(Append(zones, zone), n) = Passed(zones, n)
           /\ Passed(Append(zones, zone), Len(zones) + 1) =
                  IF zone.cond \in Wanted THEN Passed(zones, Len(zones)) + 1
                                          ELSE Passed(zones, Len(zones))
<1> DEFINE longer == Append(zones, zone)
           m == Len(zones)
<1>1. /\ m \in Nat /\ longer[m + 1] = zone
      /\ \A k \in 1 .. m : longer[k] = zones[k]
  BY AppendProperties, LenProperties
<1> HIDE DEF longer, m
<1>2. \A n \in 0 .. m : Passing(longer, n) = Passing(zones, n)
  BY <1>1 DEF Passing
<1>3. Passing(longer, m + 1) = IF zone.cond \in Wanted THEN Passing(zones, m) \cup {m + 1}
                                                       ELSE Passing(zones, m)
  BY <1>1 DEF Passing
<1>4. /\ m + 1 \notin Passing(zones, m)
      /\ IsFiniteSet(Passing(zones, m))
  <2>1. m + 1 \notin Passing(zones, m)
    BY <1>1 DEF Passing
  <2>2. m \in 0 .. m
    BY <1>1
  <2> QED BY <1>1, <2>1, <2>2, PassedBounds
<1>5. Cardinality(Passing(zones, m) \cup {m + 1}) = Cardinality(Passing(zones, m)) + 1
  BY <1>4, FS_AddElement
<1>6. \A seq, n : Passed(seq, n) = Cardinality(Passing(seq, n))
  BY DEF Passed, Passing
<1>7. \A n \in 0 .. m : Passed(longer, n) = Passed(zones, n)
  BY <1>2, <1>6
<1>8. Passed(longer, m + 1) =
          IF zone.cond \in Wanted THEN Passed(zones, m) + 1 ELSE Passed(zones, m)
  BY <1>3, <1>5, <1>6
<1> QED BY <1>7, <1>8 DEF longer, m

\* A selection stays one when a zone is added, to kept only if the filter lets it
\* through.
LEMMA SelectedAppend ==
    ASSUME NEW kept \in Seq(Reported), NEW zones \in Seq(Reported), NEW zone \in Reported,
           Selected(kept, zones)
    PROVE  Selected(IF zone.cond \in Wanted THEN Append(kept, zone) ELSE kept,
                    Append(zones, zone))
<1> DEFINE longer == Append(zones, zone)
           more == IF zone.cond \in Wanted THEN Append(kept, zone) ELSE kept
           m == Len(zones)
           p == Len(kept)
<1>1. /\ m \in Nat /\ Len(longer) = m + 1 /\ longer[m + 1] = zone
      /\ DOMAIN longer = 1 .. m + 1 /\ DOMAIN zones = 1 .. m
      /\ \A k \in 1 .. m : longer[k] = zones[k]
  BY AppendProperties, LenProperties
<1>2. /\ p \in Nat /\ p = Passed(zones, m)
      /\ \A n \in 1 .. m : zones[n].cond \in Wanted => kept[Passed(zones, n)] = zones[n]
  BY <1>1, LenProperties DEF Selected
<1>3. \A k \in 1 .. p : more[k] = kept[k]
  BY AppendProperties, LenProperties
<1>4. zone.cond \in Wanted => Len(more) = p + 1 /\ more[p + 1] = zone
  BY AppendProperties, LenProperties
<1>5. zone.cond \notin Wanted => Len(more) = p
  OBVIOUS
<1>6. /\ \A n \in 0 .. m : Passed(longer, n) = Passed(zones, n)
      /\ Passed(longer, m + 1) =
             IF zone.cond \in Wanted THEN Passed(zones, m) + 1 ELSE Passed(zones, m)
  BY PassedAppend
<1>7. \A n \in 1 .. m : zones[n].cond \in Wanted => Passed(zones, n) \in 1 .. p
  BY <1>1, <1>2, PassedBounds
<1> HIDE DEF longer, more, m, p
<1>8. Len(more) = Passed(longer, Len(longer))
  BY <1>1, <1>2, <1>4, <1>5, <1>6
<1>9. ASSUME NEW n \in 1 .. m + 1, longer[n].cond \in Wanted
      PROVE  more[Passed(longer, n)] = longer[n]
  <2>1. CASE n = m + 1
    BY <1>1, <1>2, <1>4, <1>6, <1>9, <2>1
  <2>2. CASE n \in 1 .. m
    <3>1. Passed(longer, n) = Passed(zones, n) /\ longer[n] = zones[n]
      BY <1>1, <1>6, <2>2
    <3>2. Passed(zones, n) \in 1 .. p /\ kept[Passed(zones, n)] = zones[n]
      BY <1>2, <1>7, <1>9, <2>2, <3>1
    <3> QED BY <1>3, <3>1, <3>2
  <2> QED BY <1>1, <2>1, <2>2
<1>10. Selected(more, longer)
  BY <1>1, <1>8, <1>9 DEF Selected
<1> QED BY <1>10 DEF more, longer

-----------------------------------------------------------------------------
(* The steps                                                               *)

\* A batch put behind the zones listed so far lengthens the list: it stays leading
\* if the batch begins with the zone after its last.
LEMMA BatchListed ==
    ASSUME NEW zones \in Seq(Reported), NEW first \in Zones, NEW more, Listed(more, first)
    PROVE  /\ zones \o more \in Seq(Reported)
           /\ Len(zones \o more) = Len(zones) + Len(more)
           /\ Leading(zones) /\ Len(zones) = first => Leading(zones \o more)
           /\ Fresh(zones) => Fresh(zones \o more)
<1> DEFINE longer == zones \o more
           m == Len(zones)
           n == Len(more)
<1>0. NrZones \in Nat \ {0} /\ first \in Nat
  BY ReportStarts DEF Zones
<1>1. /\ more \in Seq(Reported) /\ n \in 1 .. NrZones - first /\ Fresh(more)
      /\ \A k \in 1 .. n : more[k].zone = first + k - 1
      /\ DOMAIN more = 1 .. n /\ n \in Nat
      /\ DOMAIN zones = 1 .. m /\ m \in Nat
  BY LenProperties DEF Listed
<1>2. /\ longer \in Seq(Reported) /\ Len(longer) = m + n
      /\ \A k \in 1 .. m + n : longer[k] = IF k <= m THEN zones[k] ELSE more[k - m]
      /\ DOMAIN longer = 1 .. m + n
  BY <1>1, ConcatProperties, LenProperties
<1> HIDE DEF longer, m, n
<1>3. ASSUME Leading(zones), m = first PROVE Leading(longer)
  <2>1. \A k \in 1 .. m : zones[k].zone = k - 1
    BY <1>1, <1>3 DEF Leading
  <2>2. m + n <= NrZones
    BY <1>0, <1>1, <1>3
  <2>3. ASSUME NEW k \in 1 .. m + n PROVE longer[k].zone = k - 1
    <3>1. CASE k <= m
      BY <1>1, <1>2, <2>1, <3>1
    <3>2. CASE k > m
      <4>1. k - m \in 1 .. n /\ longer[k] = more[k - m]
        BY <1>1, <1>2, <3>2
      <4>2. more[k - m].zone = first + (k - m) - 1
        BY <1>1, <4>1
      <4> QED BY <1>0, <1>1, <1>3, <4>1, <4>2
    <3> QED BY <1>1, <3>1, <3>2
  <2> QED BY <1>2, <2>2, <2>3 DEF Leading
<1>4. ASSUME Fresh(zones) PROVE Fresh(longer)
  <2>1. ASSUME NEW k \in 1 .. m + n PROVE longer[k].cond = cond[longer[k].zone]
    <3>1. CASE k <= m
      <4>1. k \in 1 .. m /\ longer[k] = zones[k]
        BY <1>1, <1>2, <3>1
      <4>2. zones[k].cond = cond[zones[k].zone]
        BY <1>1, <1>4, <4>1 DEF Fresh
      <4> QED BY <4>1, <4>2
    <3>2. CASE k > m
      <4>1. k - m \in 1 .. n /\ longer[k] = more[k - m]
        BY <1>1, <1>2, <3>2
      <4>2. more[k - m].cond = cond[more[k - m].zone]
        BY <1>1, <4>1 DEF Fresh
      <4> QED BY <4>1, <4>2
    <3> QED BY <1>1, <3>1, <3>2
  <2> QED BY <1>2, <2>1 DEF Fresh
<1> QED BY <1>2, <1>3, <1>4 DEF longer, m, n

\* The sector after a report is where a zone begins.
LEMMA ReportEnds ==
    ASSUME NEW first \in Zones, NEW zones, Listed(zones, first)
    PROVE  /\ first + Len(zones) \in 1 .. NrZones
           /\ EndOf(zones) = ZoneStart[first + Len(zones)] /\ EndOf(zones) \in Nat
           /\ zones \in Seq(Reported) /\ Len(zones) \in Nat \ {0} /\ zones # <<>>
           /\ DOMAIN zones = 1 .. Len(zones)
<1>1. /\ NrZones \in Nat \ {0} /\ first \in Nat /\ Len(zones) \in 1 .. NrZones - first
      /\ zones \in Seq(Reported) /\ EndOf(zones) = ZoneStart[first + Len(zones)]
  BY ReportStarts DEF Zones, Listed
<1>2. first + Len(zones) \in 1 .. NrZones /\ Len(zones) \in Nat \ {0}
  BY <1>1
<1>3. first + Len(zones) \in 0 .. NrZones
  BY <1>1, <1>2
<1>4. ZoneStart[first + Len(zones)] \in Nat
  BY <1>3, ReportStarts
<1> QED BY <1>1, <1>2, <1>4, EmptySeq, LenProperties

LEMMA InitInv == ReportInit => ReportInv
<1> SUFFICES ASSUME ReportInit PROVE ReportInv
  OBVIOUS
<1>1. NrZones \in Nat \ {0} /\ ZoneStart[0] = 0 /\ MaxChanges \in Nat /\ 0 \in 0 .. NrZones
  BY ReportStarts, GeometryAssumption
<1>2. <<>> \in Seq(Reported) /\ Len(<<>>) = 0
  BY EmptySeq
<1>3. ReportTypeOK
  <2>1. /\ allZones \in Seq(Reported) /\ buffer \in Seq(Reported)
        /\ filtered \in Seq(Reported) /\ yielded \in Seq(Reported)
        /\ bufPos = 0 /\ Len(buffer) = 0
    BY <1>2 DEF ReportInit
  <2>2. /\ cond \in [Zones -> Conditions] /\ batch \in Batches
        /\ sector \in Nat /\ nextSector \in Nat
        /\ allOutcome \in Outcomes /\ filteredOutcome \in Outcomes
        /\ done \in BOOLEAN /\ honest \in BOOLEAN
        /\ reports \in [all : Nat, iterator : Nat]
    BY DEF ReportInit, Outcomes
  <2>3. bufPos \in 0 .. Len(buffer) /\ changes \in 0 .. MaxChanges
    BY <1>1, <2>1 DEF ReportInit
  <2> QED BY <2>1, <2>2, <2>3 DEF ReportTypeOK
<1>4. ASSUME NEW seq \in Seq(Reported), Len(seq) = 0
      PROVE  DOMAIN seq = {} /\ Leading(seq) /\ Fresh(seq)
  <2>1. DOMAIN seq = {}
    BY <1>4, LenProperties
  <2>2. \A k \in DOMAIN seq : FALSE
    BY <2>1
  <2>3. Leading(seq)
    BY <1>1, <1>4, <2>2 DEF Leading
  <2>4. Fresh(seq)
    BY <2>2 DEF Fresh
  <2> QED BY <2>1, <2>3, <2>4
<1>5. AllWalks
  <2>1. /\ allOutcome = "Running" /\ sector = ZoneStart[0] /\ reports.all = 0
        /\ Len(allZones) = 0 /\ 0 < NrZones /\ allZones \in Seq(Reported)
    BY <1>1, <1>2 DEF ReportInit
  <2>2. Leading(allZones)
    BY <1>4, <2>1
  <2> QED BY <1>1, <2>1, <2>2 DEF AllWalks
<1>6. IteratorWalks
  <2>1. /\ nextSector = ZoneStart[0] /\ reports.iterator = 0 /\ filteredOutcome = "Running"
        /\ Len(yielded) = 0 /\ Len(buffer) = 0 /\ bufPos = 0 /\ ~done
        /\ yielded \in Seq(Reported) /\ buffer \in Seq(Reported)
    BY <1>1, <1>2 DEF ReportInit
  <2>2. Leading(yielded) /\ DOMAIN buffer = {}
    BY <1>4, <2>1
  <2> QED BY <1>1, <2>1, <2>2 DEF IteratorWalks
<1>7. Untouched
  BY <1>2, <1>4 DEF Untouched, ReportInit
<1>8. Selected(<<>>, <<>>)
  <2>1. Passing(<<>>, 0) = {}
    BY DEF Passing
  <2>2. Passed(<<>>, 0) = 0
    BY <2>1, FS_EmptySet DEF Passed, Passing
  <2> QED BY <1>2, <2>2 DEF Selected
<1> QED BY <1>3, <1>5, <1>6, <1>7, <1>8 DEF ReportInv, ReportInit

\* What the steps of the other walk and of the drive leave alone.
LEMMA AllFrame ==
    ASSUME ReportInv, UNCHANGED allVars, reports'.all = reports.all, honest' => honest
    PROVE  AllWalks'
BY DEF ReportInv, AllWalks, allVars, Leading

LEMMA IteratorFrame ==
    ASSUME ReportInv, UNCHANGED iterVars, reports'.iterator = reports.iterator, honest' => honest
    PROVE  IteratorWalks'
BY DEF ReportInv, IteratorWalks, iterVars, Leading

LEMMA AllStepKeeps == ASSUME ReportInv, ReportAllStep PROVE ReportInv'
<1>1. ReportTypeOK /\ AllWalks /\ IteratorWalks /\ Untouched /\ Selected(filtered, yielded)
  BY DEF ReportInv
<1>2. /\ UNCHANGED <<cond, changes, iterVars, batch>> /\ allOutcome = "Running"
      /\ reports' = [reports EXCEPT !.all = @ + 1]
  BY DEF ReportAllStep, driveVars
<1>3. /\ reports' \in [all : Nat, iterator : Nat]
      /\ reports'.all = reports.all + 1 /\ reports'.iterator = reports.iterator
      /\ reports.all \in Nat
  BY <1>1, <1>2 DEF ReportTypeOK
<1>4. PICK j \in 0 .. NrZones :
          /\ sector = ZoneStart[j]
          /\ reports.all <= j
          /\ honest => Len(allZones) = j /\ j < NrZones
  BY <1>1, <1>2 DEF AllWalks
<1>5. NrZones \in Nat \ {0} /\ j \in Nat
  BY ReportStarts
<1>6. /\ cond \in [Zones -> Conditions] /\ batch \in Batches /\ sector \in Nat
      /\ allZones \in Seq(Reported) /\ honest \in BOOLEAN
  BY <1>1 DEF ReportTypeOK
<1>7. reports'.all <= NrZones + 1
  BY <1>3, <1>4, <1>5
<1> DEFINE AllGood ==
               /\ honest' \in BOOLEAN /\ (honest' => honest)
               /\ allZones' \in Seq(Reported) /\ sector' \in Nat /\ allOutcome' \in Outcomes
               /\ AllWalks'
               /\ Fresh(allZones) => Fresh(allZones)'
<1>8. AllGood
  <2>1. CASE allOutcome' = "Err" /\ UNCHANGED <<sector, allZones, honest>>
    <3>1. honest' => Leading(allZones)'
      BY <1>1, <2>1 DEF AllWalks, Leading
    <3> QED BY <1>2, <1>6, <1>7, <2>1, <3>1 DEF AllWalks, Outcomes, Fresh
  <2>2. ASSUME NEW zones, Answers(sector, zones), zones = <<>>,
               allOutcome' = "Ok" /\ UNCHANGED <<sector, allZones>>
        PROVE  AllGood
    <3>1. honest' = FALSE \/ (honest' = honest /\ j = NrZones)
      BY <1>4, <1>6, <2>2, AnswerShape
    <3>2. honest' = FALSE
      BY <1>1, <1>4, <1>5, <1>6, <3>1
    <3> QED BY <1>2, <1>6, <1>7, <2>2, <3>2 DEF AllWalks, Outcomes, Fresh
  <2>3. ASSUME NEW zones, Answers(sector, zones), zones # <<>>,
               allZones' = allZones \o zones,
               IF Len(allZones') >= NrZones \/ EndOf(zones) <= sector
               THEN allOutcome' = "Ok" /\ UNCHANGED sector
               ELSE sector' = EndOf(zones) /\ UNCHANGED allOutcome
        PROVE  AllGood
    <3>1. PICK first \in Zones :
              /\ Listed(zones, first)
              /\ honest' = FALSE \/ (honest' = honest /\ first = j)
      BY <1>4, <1>6, <2>3, AnswerShape
    <3>2. /\ first \in Nat /\ first + Len(zones) \in 0 .. NrZones
          /\ EndOf(zones) = ZoneStart[first + Len(zones)] /\ EndOf(zones) \in Nat
          /\ Len(zones) \in Nat \ {0}
      BY <1>5, <3>1, ReportEnds DEF Zones
    <3>3. /\ allZones' \in Seq(Reported) /\ Len(allZones') = Len(allZones) + Len(zones)
          /\ Leading(allZones) /\ Len(allZones) = first => Leading(allZones')
          /\ Fresh(allZones) => Fresh(allZones')
      BY <1>6, <2>3, <3>1, BatchListed
    <3>4. honest' => honest /\ first = j /\ Len(allZones) = j /\ j < NrZones
      BY <1>4, <1>6, <3>1
    <3>5. honest' => Leading(allZones') /\ Len(allZones') = j + Len(zones)
      BY <1>1, <3>3, <3>4 DEF AllWalks
    <3>6. honest' \in BOOLEAN /\ Fresh(allZones) => Fresh(allZones)'
      BY <1>2, <3>3 DEF Fresh
    <3>7. CASE Len(allZones') >= NrZones \/ EndOf(zones) <= sector
      <4>1. allOutcome' = "Ok" /\ sector' = sector
        BY <2>3, <3>7
      <4>2. honest' => Len(allZones') = NrZones
        <5> SUFFICES ASSUME honest' PROVE Len(allZones') = NrZones
          OBVIOUS
        <5>1. first = j /\ Len(allZones') = j + Len(zones)
          BY <3>4, <3>5
        <5>2. ZoneStart[j] < ZoneStart[j + Len(zones)]
          BY <1>5, <3>2, <5>1, ReportStarts
        <5>3. ~(EndOf(zones) <= sector)
          BY <1>4, <1>6, <3>2, <5>1, <5>2
        <5> QED BY <1>5, <3>2, <3>7, <5>1, <5>3
      <4> QED BY <1>6, <1>7, <3>1, <3>3, <3>4, <3>5, <3>6, <4>1, <4>2 DEF AllWalks, Outcomes, Leading
    <3>8. CASE ~(Len(allZones') >= NrZones \/ EndOf(zones) <= sector)
      <4>1. allOutcome' = "Running" /\ sector' = ZoneStart[first + Len(zones)]
        BY <1>2, <2>3, <3>2, <3>8
      <4>2. j < first + Len(zones)
        BY <1>4, <1>6, <3>2, <3>8, ReportStarts
      <4>3. reports'.all <= first + Len(zones)
        BY <1>3, <1>4, <1>5, <3>2, <4>2
      <4>4. honest' => Len(allZones') = first + Len(zones) /\ first + Len(zones) < NrZones
        BY <1>5, <3>2, <3>4, <3>5, <3>8
      <4>5. sector' \in Nat
        BY <3>2, <4>1
      <4> QED BY <1>6, <1>7, <3>1, <3>2, <3>3, <3>4, <3>5, <3>6, <4>1, <4>3, <4>4, <4>5
              DEF AllWalks, Outcomes, Leading
    <3> QED BY <3>7, <3>8
  <2> QED BY <2>1, <2>2, <2>3 DEF ReportAllStep
<1>9. ReportTypeOK'
  BY <1>1, <1>2, <1>3, <1>8 DEF ReportTypeOK, iterVars
<1>10. IteratorWalks'
  BY <1>2, <1>3, <1>8, IteratorFrame
<1>11. Untouched'
  BY <1>1, <1>2, <1>8 DEF Untouched, Fresh, iterVars
<1>12. Selected(filtered, yielded)'
  BY <1>1, <1>2 DEF iterVars, Selected, Passed
<1> QED BY <1>8, <1>9, <1>10, <1>11, <1>12 DEF ReportInv

\* A yielded zone is put behind the others, and the selection is kept.
LEMMA YieldKeeps ==
    ASSUME ReportInv, NEW zone \in Reported, Yields(zone), cond' = cond
    PROVE  /\ filtered' \in Seq(Reported) /\ yielded' \in Seq(Reported)
           /\ Selected(filtered, yielded)'
           /\ Len(yielded') = Len(yielded) + 1
           /\ Leading(yielded) /\ zone.zone = Len(yielded) => Leading(yielded)'
           /\ Fresh(yielded) /\ zone.cond = cond[zone.zone] => Fresh(yielded)'
           /\ filteredOutcome' = filteredOutcome
<1>1. filtered \in Seq(Reported) /\ yielded \in Seq(Reported) /\ Selected(filtered, yielded)
  BY DEF ReportInv, ReportTypeOK
<1>2. /\ yielded' = Append(yielded, zone)
      /\ filtered' = IF zone.cond \in Wanted THEN Append(filtered, zone) ELSE filtered
      /\ filteredOutcome' = filteredOutcome
  BY DEF Yields, Matches
<1>3. Selected(filtered, yielded)'
  <2>1. Selected(filtered', yielded')
    BY <1>1, <1>2, SelectedAppend
  <2> QED BY <2>1 DEF Selected, Passed
<1>4. filtered' \in Seq(Reported) /\ yielded' \in Seq(Reported)
  BY <1>1, <1>2, AppendProperties
<1>5. /\ Len(yielded) \in Nat /\ Len(yielded') = Len(yielded) + 1
      /\ yielded'[Len(yielded) + 1] = zone
      /\ \A k \in 1 .. Len(yielded) : yielded'[k] = yielded[k]
      /\ DOMAIN yielded = 1 .. Len(yielded) /\ DOMAIN yielded' = 1 .. Len(yielded) + 1
  BY <1>1, <1>2, <1>4, AppendProperties, LenProperties
<1>6. ASSUME Leading(yielded), zone.zone = Len(yielded) PROVE Leading(yielded)'
  <2>1. Len(yielded) + 1 <= NrZones
    <3>1. zone.zone \in Zones /\ NrZones \in Nat
      BY ReportStarts DEF Reported
    <3> QED BY <1>6, <3>1 DEF Zones
  <2>2. ASSUME NEW k \in 1 .. Len(yielded) + 1 PROVE yielded'[k].zone = k - 1
    <3>1. CASE k \in 1 .. Len(yielded)
      BY <1>5, <1>6, <3>1 DEF Leading
    <3>2. CASE k = Len(yielded) + 1
      BY <1>5, <1>6, <3>2
    <3> QED BY <1>5, <3>1, <3>2
  <2> QED BY <1>5, <2>1, <2>2 DEF Leading
<1>7. ASSUME Fresh(yielded), zone.cond = cond[zone.zone] PROVE Fresh(yielded)'
  <2>1. ASSUME NEW k \in 1 .. Len(yielded) + 1
        PROVE  yielded'[k].cond = cond[yielded'[k].zone]
    <3>1. CASE k \in 1 .. Len(yielded)
      <4>1. yielded'[k] = yielded[k] /\ yielded[k].cond = cond[yielded[k].zone]
        BY <1>5, <1>7, <3>1 DEF Fresh
      <4> QED BY <4>1
    <3>2. CASE k = Len(yielded) + 1
      BY <1>5, <1>7, <3>2
    <3> QED BY <1>5, <3>1, <3>2
  <2> QED BY <1>5, <2>1 DEF Fresh
<1> QED BY <1>2, <1>3, <1>4, <1>5, <1>6, <1>7

LEMMA FromBufferKeeps == ASSUME ReportInv, FromBuffer PROVE ReportInv'
<1>1. ReportTypeOK /\ AllWalks /\ IteratorWalks /\ Untouched /\ Selected(filtered, yielded)
  BY DEF ReportInv
<1>2. /\ UNCHANGED <<cond, changes, allVars, batch, honest, reports, buffer, nextSector, done>>
      /\ filteredOutcome = "Running" /\ bufPos < Len(buffer)
      /\ bufPos' = bufPos + 1 /\ Yields(buffer[bufPos + 1])
  BY DEF FromBuffer, driveVars
<1>3. /\ buffer \in Seq(Reported) /\ bufPos \in 0 .. Len(buffer) /\ yielded \in Seq(Reported)
      /\ Len(buffer) \in Nat /\ DOMAIN buffer = 1 .. Len(buffer) /\ Len(yielded) \in Nat
  BY <1>1, LenProperties DEF ReportTypeOK
<1>4. bufPos + 1 \in DOMAIN buffer /\ buffer[bufPos + 1] \in Reported
      /\ bufPos' \in 0 .. Len(buffer)
  <2>1. bufPos + 1 \in 1 .. Len(buffer)
    BY <1>2, <1>3
  <2> QED BY <1>2, <1>3, <2>1, ElementOfSeq
<1>5. /\ filtered' \in Seq(Reported) /\ yielded' \in Seq(Reported)
      /\ Selected(filtered, yielded)'
      /\ Len(yielded') = Len(yielded) + 1
      /\ Leading(yielded) /\ buffer[bufPos + 1].zone = Len(yielded) => Leading(yielded)'
      /\ Fresh(yielded) /\ buffer[bufPos + 1].cond = cond[buffer[bufPos + 1].zone]
             => Fresh(yielded)'
      /\ filteredOutcome' = filteredOutcome
  BY <1>2, <1>4, YieldKeeps
<1>6. PICK j \in 0 .. NrZones :
          /\ nextSector = ZoneStart[j]
          /\ ~done => reports.iterator <= j
          /\ honest => /\ Len(yielded) + Len(buffer) - bufPos = j
                       /\ \A k \in DOMAIN buffer : buffer[k].zone = j - Len(buffer) + k - 1
  BY <1>1 DEF IteratorWalks
<1>7. NrZones \in Nat \ {0} /\ j \in Nat
  BY ReportStarts
<1>8. IteratorWalks'
  <2>1. honest => Len(yielded') + Len(buffer) - bufPos' = j
    <3>1. Len(yielded') = Len(yielded) + 1 /\ bufPos' = bufPos + 1 /\ bufPos \in Nat
      BY <1>2, <1>3, <1>5
    <3>2. Len(yielded') + Len(buffer) - bufPos' = Len(yielded) + Len(buffer) - bufPos
      BY <1>3, <3>1
    <3> QED BY <1>6, <3>2
  <2>2. honest => buffer[bufPos + 1].zone = Len(yielded)
    <3> SUFFICES ASSUME honest PROVE buffer[bufPos + 1].zone = Len(yielded)
      OBVIOUS
    <3>1. buffer[bufPos + 1].zone = j - Len(buffer) + (bufPos + 1) - 1
      BY <1>4, <1>6
    <3> QED BY <1>3, <1>6, <1>7, <3>1
  <2>3. honest => Leading(yielded)' /\ ~done
    BY <1>1, <1>2, <1>5, <2>2 DEF IteratorWalks
  <2>4. reports.iterator <= NrZones + 1
    BY <1>1 DEF IteratorWalks
  <2>5. /\ nextSector' = ZoneStart[j]
        /\ ~done' => reports'.iterator <= j
        /\ honest' => /\ Len(yielded') + Len(buffer') - bufPos' = j
                      /\ \A k \in DOMAIN buffer' : buffer'[k].zone = j - Len(buffer') + k - 1
    BY <1>2, <1>6, <2>1
  <2>6. honest' => /\ Leading(yielded)' /\ ~done'
                   /\ filteredOutcome' = "Running"
    BY <1>2, <1>5, <2>3
  <2> QED BY <1>2, <2>4, <2>5, <2>6 DEF IteratorWalks
<1>9. ReportTypeOK'
  BY <1>1, <1>2, <1>4, <1>5 DEF ReportTypeOK, allVars
<1>10. AllWalks'
  BY <1>2, AllFrame
<1>11. Untouched'
  <2>1. changes = 0 => Fresh(allZones) /\ Fresh(buffer) /\ Fresh(yielded)
    BY <1>1 DEF Untouched
  <2>2. changes = 0 => Fresh(yielded)'
    BY <1>4, <1>5, <2>1 DEF Fresh
  <2> QED BY <1>2, <2>1, <2>2 DEF Untouched, Fresh, allVars
<1> QED BY <1>5, <1>8, <1>9, <1>10, <1>11 DEF ReportInv

LEMMA ExhaustedKeeps == ASSUME ReportInv, Exhausted PROVE ReportInv'
<1>1. ReportTypeOK /\ AllWalks /\ IteratorWalks /\ Untouched /\ Selected(filtered, yielded)
  BY DEF ReportInv
<1>2. /\ UNCHANGED <<cond, changes, allVars, batch, honest, reports, buffer, bufPos,
                     nextSector, done, filtered, yielded>>
      /\ filteredOutcome = "Running" /\ done /\ filteredOutcome' = "Ok"
  BY DEF Exhausted, driveVars
<1>3. ~honest
  BY <1>1, <1>2 DEF IteratorWalks
<1>4. IteratorWalks'
  BY <1>1, <1>2, <1>3 DEF IteratorWalks
<1>5. ReportTypeOK'
  BY <1>1, <1>2 DEF ReportTypeOK, allVars, Outcomes
<1>6. AllWalks'
  BY <1>2, AllFrame
<1>7. Untouched' /\ Selected(filtered, yielded)'
  BY <1>1, <1>2 DEF Untouched, Fresh, allVars, Selected, Passed
<1> QED BY <1>4, <1>5, <1>6, <1>7 DEF ReportInv

LEMMA FetchKeeps == ASSUME ReportInv, Fetch PROVE ReportInv'
<1>1. ReportTypeOK /\ AllWalks /\ IteratorWalks /\ Untouched /\ Selected(filtered, yielded)
  BY DEF ReportInv
<1>2. /\ UNCHANGED <<cond, changes, allVars, batch>>
      /\ filteredOutcome = "Running" /\ bufPos >= Len(buffer) /\ ~done
      /\ reports' = [reports EXCEPT !.iterator = @ + 1]
  BY DEF Fetch, driveVars
<1>3. /\ reports' \in [all : Nat, iterator : Nat]
      /\ reports'.iterator = reports.iterator + 1 /\ reports'.all = reports.all
      /\ reports.iterator \in Nat
  BY <1>1, <1>2 DEF ReportTypeOK
<1>4. PICK j \in 0 .. NrZones :
          /\ nextSector = ZoneStart[j]
          /\ reports.iterator <= j
          /\ honest => Len(yielded) + Len(buffer) - bufPos = j
  BY <1>1, <1>2 DEF IteratorWalks
<1>5. NrZones \in Nat \ {0} /\ j \in Nat
  BY ReportStarts
<1>6. /\ cond \in [Zones -> Conditions] /\ batch \in Batches /\ nextSector \in Nat
      /\ honest \in BOOLEAN
      /\ yielded \in Seq(Reported) /\ filtered \in Seq(Reported) /\ buffer \in Seq(Reported)
      /\ bufPos \in 0 .. Len(buffer) /\ Len(buffer) \in Nat /\ Len(yielded) \in Nat
  BY <1>1, LenProperties DEF ReportTypeOK
<1>7. reports'.iterator <= NrZones + 1
  BY <1>3, <1>4, <1>5
<1>8. honest => Leading(yielded) /\ Len(yielded) = j
  <2>1. bufPos = Len(buffer)
    BY <1>2, <1>6
  <2>2. Len(yielded) + Len(buffer) - bufPos = Len(yielded)
    BY <1>6, <2>1
  <2> QED BY <1>1, <1>4, <2>2 DEF IteratorWalks
<1> DEFINE IteratorGood ==
               /\ honest' \in BOOLEAN /\ (honest' => honest)
               /\ yielded' \in Seq(Reported) /\ filtered' \in Seq(Reported)
               /\ buffer' \in Seq(Reported) /\ bufPos' \in 0 .. Len(buffer')
               /\ nextSector' \in Nat /\ done' \in BOOLEAN /\ filteredOutcome' \in Outcomes
               /\ IteratorWalks'
               /\ Fresh(yielded) /\ Fresh(buffer) => Fresh(yielded)' /\ Fresh(buffer)'
               /\ Selected(filtered, yielded)'
<1>9. IteratorGood
  <2>1. ASSUME done' = TRUE, filteredOutcome' \in {"Ok", "Err"},
               honest' \in BOOLEAN, honest' => honest,
               honest' /\ filteredOutcome' = "Ok" => j = NrZones,
               UNCHANGED <<buffer, bufPos, nextSector, filtered, yielded>>
        PROVE  IteratorGood
    <3>1. honest' => /\ Leading(yielded)'
                     /\ filteredOutcome' = "Running" => ~done'
                     /\ filteredOutcome' = "Ok" => Len(yielded') = NrZones
      BY <1>8, <2>1 DEF Leading
    <3>2. \E i \in 0 .. NrZones :
              /\ nextSector' = ZoneStart[i]
              /\ ~done' => reports'.iterator <= i
              /\ honest' => /\ Len(yielded') + Len(buffer') - bufPos' = i
                            /\ \A k \in DOMAIN buffer' :
                                   buffer'[k].zone = i - Len(buffer') + k - 1
      BY <1>1, <2>1 DEF IteratorWalks
    <3>3. IteratorWalks'
      BY <1>7, <3>1, <3>2 DEF IteratorWalks
    <3>4. /\ Fresh(yielded) /\ Fresh(buffer) => Fresh(yielded)' /\ Fresh(buffer)'
          /\ Selected(filtered, yielded)'
      BY <1>1, <1>2, <2>1 DEF Fresh, Selected, Passed
    <3> QED BY <1>6, <2>1, <3>3, <3>4 DEF Outcomes
  <2>2. ASSUME NEW zones, Answers(nextSector, zones), zones # <<>>,
               done' = (EndOf(zones) <= nextSector), nextSector' = EndOf(zones),
               buffer' = zones, bufPos' = 1, Yields(zones[1])
        PROVE  IteratorGood
    <3>1. PICK first \in Zones :
              /\ Listed(zones, first)
              /\ honest' = FALSE \/ (honest' = honest /\ first = j)
      BY <1>4, <1>6, <2>2, AnswerShape
    <3>2. /\ first \in Nat /\ first + Len(zones) \in 0 .. NrZones
          /\ EndOf(zones) = ZoneStart[first + Len(zones)] /\ EndOf(zones) \in Nat
          /\ Len(zones) \in Nat \ {0} /\ zones \in Seq(Reported) /\ 1 \in 1 .. Len(zones)
          /\ DOMAIN zones = 1 .. Len(zones)
      BY <1>5, <3>1, ReportEnds DEF Zones
    <3>3. zones[1] \in Reported /\ zones[1].zone = first /\ zones[1].cond = cond[first]
          /\ Fresh(zones)
      <4>1. zones[1] \in Reported
        BY <3>2, ElementOfSeq
      <4>2. zones[1].zone = first + 1 - 1 /\ zones[1].cond = cond[zones[1].zone] /\ Fresh(zones)
        BY <3>1, <3>2 DEF Listed, Fresh
      <4> QED BY <3>2, <4>1, <4>2
    <3>4. /\ filtered' \in Seq(Reported) /\ yielded' \in Seq(Reported)
          /\ Selected(filtered, yielded)'
          /\ Len(yielded') = Len(yielded) + 1
          /\ Leading(yielded) /\ zones[1].zone = Len(yielded) => Leading(yielded)'
          /\ Fresh(yielded) /\ zones[1].cond = cond[zones[1].zone] => Fresh(yielded)'
          /\ filteredOutcome' = filteredOutcome
      BY <1>2, <2>2, <3>3, YieldKeeps
    <3>5. honest' \in BOOLEAN /\ (honest' => honest /\ first = j)
      <4>1. CASE honest' = FALSE
        BY <4>1
      <4>2. CASE honest' = honest /\ first = j
        BY <1>6, <4>2
      <4> QED BY <3>1, <4>1, <4>2
    <3>6. Fresh(yielded) /\ Fresh(buffer) => Fresh(yielded)' /\ Fresh(buffer)'
      <4>1. Fresh(buffer)'
        BY <1>2, <2>2, <3>3 DEF Fresh
      <4> QED BY <3>3, <3>4, <4>1
    <3>7. done' \in BOOLEAN /\ (~done' => reports'.iterator <= first + Len(zones))
      <4>1. EndOf(zones) <= nextSector \/ j < first + Len(zones)
        BY <1>4, <1>6, <3>2, ReportStarts
      <4>2. j < first + Len(zones) => reports'.iterator <= first + Len(zones)
        BY <1>3, <1>4, <1>5, <3>2
      <4>3. done' \in BOOLEAN
        BY <2>2
      <4>4. ~done' => ~(EndOf(zones) <= nextSector)
        BY <2>2
      <4> QED BY <4>1, <4>2, <4>3, <4>4
    <3>8. honest' => ~done'
      <4> SUFFICES ASSUME honest' PROVE ~(EndOf(zones) <= nextSector)
        BY <2>2
      <4>1. j < j + Len(zones) /\ first = j
        BY <1>5, <3>2, <3>5
      <4>2. ZoneStart[j] < ZoneStart[j + Len(zones)]
        BY <3>2, <4>1, ReportStarts
      <4> QED BY <1>4, <1>6, <3>2, <4>1, <4>2
    <3>9. honest' => /\ Len(yielded') + Len(zones) - 1 = first + Len(zones)
                     /\ Leading(yielded)'
      <4>1. honest' => Len(yielded) = first /\ Leading(yielded)
        BY <1>8, <3>5
      <4>2. Len(yielded) + 1 + Len(zones) - 1 = Len(yielded) + Len(zones)
        BY <1>6, <3>2
      <4> QED BY <3>3, <3>4, <4>1, <4>2
    <3>10. ASSUME NEW k \in DOMAIN zones
           PROVE  zones[k].zone = (first + Len(zones)) - Len(zones) + k - 1
      <4>1. zones[k].zone = first + k - 1
        BY <3>1 DEF Listed
      <4>2. k \in Nat /\ first + k - 1 = (first + Len(zones)) - Len(zones) + k - 1
        BY <3>2
      <4> QED BY <4>1, <4>2
    <3>11. IteratorWalks'
      <4>1. /\ nextSector' = ZoneStart[first + Len(zones)]
            /\ ~done' => reports'.iterator <= first + Len(zones)
            /\ honest' => /\ Len(yielded') + Len(buffer') - bufPos' = first + Len(zones)
                          /\ \A k \in DOMAIN buffer' :
                                 buffer'[k].zone = (first + Len(zones)) - Len(buffer') + k - 1
        BY <2>2, <3>2, <3>7, <3>9, <3>10
      <4>2. honest' => /\ Leading(yielded)' /\ ~done'
                       /\ filteredOutcome' = "Running"
        BY <1>2, <3>4, <3>8, <3>9
      <4>3. \E i \in 0 .. NrZones :
                /\ nextSector' = ZoneStart[i]
                /\ ~done' => reports'.iterator <= i
                /\ honest' => /\ Len(yielded') + Len(buffer') - bufPos' = i
                              /\ \A k \in DOMAIN buffer' :
                                     buffer'[k].zone = i - Len(buffer') + k - 1
        <5> DEFINE i == first + Len(zones)
        <5>1. i \in 0 .. NrZones
          BY <3>2
        <5> HIDE DEF i
        <5>2. /\ nextSector' = ZoneStart[i]
              /\ ~done' => reports'.iterator <= i
              /\ honest' => /\ Len(yielded') + Len(buffer') - bufPos' = i
                            /\ \A k \in DOMAIN buffer' :
                                   buffer'[k].zone = i - Len(buffer') + k - 1
          BY <4>1 DEF i
        <5> QED BY <5>1, <5>2
      <4> QED BY <1>7, <4>2, <4>3 DEF IteratorWalks
    <3>12. bufPos' \in 0 .. Len(buffer') /\ buffer' \in Seq(Reported) /\ nextSector' \in Nat
      BY <2>2, <3>2
    <3> QED BY <1>2, <3>4, <3>5, <3>6, <3>7, <3>11, <3>12 DEF Outcomes
  <2>3. CASE /\ filteredOutcome' = "Err" /\ done' = TRUE
             /\ UNCHANGED <<buffer, bufPos, nextSector, filtered, yielded, honest>>
    BY <1>6, <2>1, <2>3
  <2>4. ASSUME NEW zones, Answers(nextSector, zones), zones = <<>>,
               filteredOutcome' = "Ok", done' = TRUE,
               UNCHANGED <<buffer, bufPos, nextSector, filtered, yielded>>
        PROVE  IteratorGood
    <3>1. honest' = FALSE \/ (honest' = honest /\ j = NrZones)
      BY <1>4, <1>6, <2>4, AnswerShape
    <3> QED BY <1>6, <2>1, <2>4, <3>1
  <2> QED BY <2>2, <2>3, <2>4 DEF Fetch
<1>10. ReportTypeOK'
  BY <1>1, <1>2, <1>3, <1>9 DEF ReportTypeOK, allVars
<1>11. AllWalks'
  BY <1>2, <1>3, <1>9, AllFrame
<1>12. Untouched'
  <2>1. changes = 0 => Fresh(allZones)' /\ Fresh(buffer)' /\ Fresh(yielded)'
    BY <1>1, <1>2, <1>9 DEF Untouched, Fresh, allVars
  <2> QED BY <1>2, <2>1 DEF Untouched, Fresh
<1> QED BY <1>9, <1>10, <1>11, <1>12 DEF ReportInv

LEMMA ZoneChangesKeeps == ASSUME ReportInv, ZoneChanges PROVE ReportInv'
<1>1. ReportTypeOK /\ AllWalks /\ IteratorWalks /\ Untouched /\ Selected(filtered, yielded)
  BY DEF ReportInv
<1>2. /\ UNCHANGED <<allVars, iterVars, batch, honest, reports>>
      /\ cond' \in [Zones -> Conditions] /\ changes' \in 0 .. MaxChanges /\ changes' # 0
  <2>1. PICK z \in Zones, c \in Conditions : cond' = [cond EXCEPT ![z] = c]
    BY DEF ZoneChanges
  <2>2. cond' \in [Zones -> Conditions]
    BY <1>1, <2>1 DEF ReportTypeOK
  <2>3. changes \in 0 .. MaxChanges /\ MaxChanges \in Nat
        /\ changes < MaxChanges /\ changes' = changes + 1
    BY <1>1, GeometryAssumption DEF ReportTypeOK, ZoneChanges
  <2>4. changes' \in 0 .. MaxChanges /\ changes' # 0
    BY <2>3
  <2> QED BY <2>2, <2>4 DEF ZoneChanges
<1>3. ReportTypeOK'
  BY <1>1, <1>2 DEF ReportTypeOK, allVars, iterVars
<1>4. AllWalks' /\ IteratorWalks'
  BY <1>2, AllFrame, IteratorFrame
<1>5. Untouched' /\ Selected(filtered, yielded)'
  BY <1>1, <1>2 DEF Untouched, iterVars, Selected, Passed
<1> QED BY <1>3, <1>4, <1>5 DEF ReportInv

-----------------------------------------------------------------------------
(* The theorems                                                            *)

THEOREM ReportInvariant == ReportSpec => []ReportInv
<1>1. ReportInit => ReportInv
  BY InitInv
<1>2. ReportInv /\ [ReportNext]_vars => ReportInv'
  <2> SUFFICES ASSUME ReportInv, [ReportNext]_vars PROVE ReportInv'
    OBVIOUS
  <2>1. CASE ReportAllStep
    BY <2>1, AllStepKeeps
  <2>2. CASE FromBuffer
    BY <2>2, FromBufferKeeps
  <2>3. CASE Exhausted
    BY <2>3, ExhaustedKeeps
  <2>4. CASE Fetch
    BY <2>4, FetchKeeps
  <2>5. CASE ZoneChanges
    BY <2>5, ZoneChangesKeeps
  <2>6. CASE UNCHANGED vars
    <3>1. UNCHANGED <<cond, changes, allVars, iterVars, batch, honest, reports>>
      BY <2>6 DEF vars, driveVars
    <3>2. ReportTypeOK'
      BY <3>1 DEF ReportInv, ReportTypeOK, allVars, iterVars
    <3>3. AllWalks' /\ IteratorWalks'
      BY <3>1, AllFrame, IteratorFrame
    <3>4. Untouched' /\ Selected(filtered, yielded)'
      BY <3>1 DEF ReportInv, Untouched, Fresh, allVars, iterVars, Selected, Passed
    <3> QED BY <3>2, <3>3, <3>4 DEF ReportInv
  <2> QED BY <2>1, <2>2, <2>3, <2>4, <2>5, <2>6 DEF ReportNext
<1> QED BY <1>1, <1>2, PTL DEF ReportSpec

\* Both walks keep every variable in its type.
THEOREM ReportTyping == ReportSpec => []ReportTypeOK
<1>1. ReportInv => ReportTypeOK
  BY DEF ReportInv
<1> QED BY <1>1, ReportInvariant, PTL

\* On a drive that answers for the sector asked for, report_all_zones and
\* ZoneIterator list every zone of the device once and in order, and neither ends
\* without error before the last.
THEOREM EveryZoneListedOnce == ReportSpec => []EveryZoneOnce
<1>1. ReportInv => EveryZoneOnce
  BY DEF ReportInv, AllWalks, IteratorWalks, EveryZoneOnce
<1> QED BY <1>1, ReportInvariant, PTL

\* Neither walk asks for more reports than the device has zones, and one more: not
\* even when the drive answers for an earlier sector.
THEOREM WalksBounded == ReportSpec => []ReportsBounded
<1>1. ReportInv => ReportsBounded
  BY DEF ReportInv, AllWalks, IteratorWalks, ReportsBounded
<1> QED BY <1>1, ReportInvariant, PTL

\* report_zones_filtered returns the zones that were reported with a wanted
\* condition, each in its place, whatever the zones do while they lie in the buffer.
THEOREM FilterByReport == ReportSpec => []FilterConsistent
<1>1. ASSUME ReportInv, changes = 0, honest, allOutcome = "Ok", filteredOutcome = "Ok"
      PROVE  Selected(filtered, allZones)
  <2>1. /\ Leading(allZones) /\ Len(allZones) = NrZones /\ Fresh(allZones)
        /\ Leading(yielded) /\ Len(yielded) = NrZones /\ Fresh(yielded)
        /\ allZones \in Seq(Reported) /\ yielded \in Seq(Reported)
    BY <1>1 DEF ReportInv, AllWalks, IteratorWalks, Untouched, ReportTypeOK
  <2>2. DOMAIN allZones = 1 .. NrZones /\ DOMAIN yielded = 1 .. NrZones
    BY <2>1, LenProperties
  <2>3. ASSUME NEW k \in 1 .. NrZones PROVE allZones[k] = yielded[k]
    <3>1. allZones[k].zone = yielded[k].zone
      BY <2>1, <2>2 DEF Leading
    <3>2. allZones[k].cond = yielded[k].cond
      BY <2>1, <2>2, <3>1 DEF Fresh
    <3>3. allZones[k] \in Reported /\ yielded[k] \in Reported
      BY <2>1, ElementOfSeq
    <3> QED BY <3>1, <3>2, <3>3 DEF Reported
  <2>4. allZones = yielded
    BY <2>1, <2>3, SeqEqual
  <2> QED BY <1>1, <2>4 DEF ReportInv
<1>2. ReportInv => FilterConsistent
  BY <1>1 DEF ReportInv, FilterConsistent
<1> QED BY <1>2, ReportInvariant, PTL

=============================================================================
