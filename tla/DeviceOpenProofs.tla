--------------------------- MODULE DeviceOpenProofs ---------------------------
(***************************************************************************)
(* Theorems about DeviceBuilder::open as DeviceOpen models it, for any     *)
(* devices, numbers, names and file names and any number of changes by     *)
(* others: what a device that is opened has satisfied, why one is refused, *)
(* and which failure is reported.                                          *)
(***************************************************************************)
EXTENDS DeviceOpen, TLAPS

-----------------------------------------------------------------------------
(* The inductive invariant                                                 *)

\* The place of a phase among the checks; those before it have been passed.
Place(p) ==
    CASE p = "block_device" -> 1 [] p \in {"not_mounted", "mount_table"} -> 2
      [] p = "no_partitions" -> 3 [] p = "is_zoned" -> 4 [] p = "open" -> 5

\* The check c was made and let the path pass.
PassedBy(c) ==
    /\ c \in checks
    /\ \/ phase # "Returned" /\ Order(c) < Place(phase)
       \/ outcome = "Ok"
       \/ outcome \in DOMAIN Refusals /\ Order(c) < Order(Refusals[outcome])

\* history has what is true now.
HistoryInv ==
    /\ Facts(mounts, partitioned) \subseteq was
    /\ Claims \ Facts(mounts, partitioned) \subseteq wasNot
    /\ repointed => changes > 0

\* What is_not_mounted found out about the path, and looks for.
FoundInv ==
    phase = "mount_table" =>
        /\ "not_mounted" \in checks
        /\ ~repointed =>
               /\ node # Nothing
               /\ found = IF platform = "freebsd" THEN <<node>>
                          ELSE IF node = File THEN <<0, 0>>
                          ELSE Decode(Rdev(Number[node]))

\* The mount could be seen: no mount under another number was in the way, except
\* one that is still there.
MountInv(d) ==
    PassedBy("not_mounted") /\ "not_mounted" \notin blind /\ (platform = "linux" => Number[d][2] < 256)
        => <<"not_mounted", d>> \in was \/ d \in mounts \ listed

PartitionInv(d) ==
    PassedBy("no_partitions") /\ "no_partitions" \notin blind /\ Named(d)
        => <<"no_partitions", d>> \in was

ZonedInv(d) ==
    PassedBy("is_zoned") /\ (platform = "linux" => Named(d)) => <<"is_zoned", d>> \in was

\* While the path leads to one device, that device has satisfied every check that
\* was passed and could see it, and the device opened is that one.
PassedInv ==
    ~repointed =>
        /\ outcome = "Ok" => opened = node
        /\ node \in Devices => MountInv(node) /\ PartitionInv(node) /\ ZonedInv(node)

OpenInv ==
    OpenTypeOK /\ HistoryInv /\ FoundInv /\ PassedInv /\ RefusedForCause

-----------------------------------------------------------------------------
(* Tables and device numbers                                               *)

Errors == {"DeviceMounted", "HasPartitions", "NotZoned"}

LEMMA Tables ==
    /\ Order("block_device") = 1 /\ Order("not_mounted") = 2
    /\ Order("no_partitions") = 3 /\ Order("is_zoned") = 4
    /\ Place("block_device") = 1 /\ Place("not_mounted") = 2 /\ Place("mount_table") = 2
    /\ Place("no_partitions") = 3 /\ Place("is_zoned") = 4 /\ Place("open") = 5
    /\ After("block_device") = "not_mounted" /\ After("not_mounted") = "no_partitions"
    /\ After("mount_table") = "no_partitions" /\ After("no_partitions") = "is_zoned"
    /\ After("is_zoned") = "open"
BY DEF Order, Place, After

LEMMA RefusalTable ==
    /\ DOMAIN Refusals = Errors
    /\ Refusals["DeviceMounted"] = "not_mounted" /\ Refusals["HasPartitions"] = "no_partitions"
    /\ Refusals["NotZoned"] = "is_zoned"
BY DEF Refusals, Errors

LEMMA LowByte ==
    ASSUME NEW low \in 0 .. 255, NEW k \in Nat
    PROVE  (low + 256 * k) \div 256 = k /\ (low + 256 * k) % 256 = low
OBVIOUS

\* What is_not_mounted takes for the device number of a node.
LEMMA Decoded ==
    ASSUME NEW c \in Devices
    PROVE  /\ Number[c] = <<Number[c][1], Number[c][2]>>
           /\ Number[c][1] \in Nat \ {0} /\ Number[c][1] < 4096 /\ Number[c][2] \in Nat
           /\ Decode(Rdev(Number[c])) =
                  <<Number[c][1] + 4096 * (Number[c][2] \div 256), Number[c][2] % 256>>
<1> DEFINE major == Number[c][1]
           minor == Number[c][2]
           low == minor % 256
           k == major + 4096 * (minor \div 256)
<1>1. Number[c] \in Majors \X Minors
  BY OpenAssumption
<1>2. Number[c] = <<major, minor>> /\ major \in Majors /\ minor \in Minors
  BY <1>1
<1>3. major \in Nat \ {0} /\ major < 4096 /\ minor \in Nat
  <2>1. \A n \in Majors : n \in Nat \ {0} /\ n < 4096
    BY DEF Majors
  <2>2. \A n \in Minors : n \in Nat
    BY DEF Minors
  <2> QED BY <1>2, <2>1, <2>2
<1>4. Rdev(Number[c]) = low + 256 * k
  BY DEF Rdev
<1> HIDE DEF major, minor
<1>5. low \in 0 .. 255 /\ k \in Nat
  BY <1>3
<1> HIDE DEF low, k
<1>6. Decode(Rdev(Number[c])) = <<k, low>>
  <2>1. (low + 256 * k) \div 256 = k /\ (low + 256 * k) % 256 = low
    BY <1>5, LowByte
  <2> QED BY <1>4, <2>1 DEF Decode
<1> QED BY <1>2, <1>3, <1>6 DEF major, minor, low, k

\* A device number that is_not_mounted makes of another one is that of no device,
\* and a small one it gets right.
LEMMA NumbersNotMixed ==
    ASSUME NEW c \in Devices, NEW d \in Devices
    PROVE  /\ Number[d] # <<0, 0>>
           /\ Decode(Rdev(Number[c])) = Number[d] => c = d
           /\ Number[c][2] < 256 => Decode(Rdev(Number[c])) = Number[c]
<1> DEFINE major == Number[c][1]
           minor == Number[c][2]
           other == Number[d][1]
           low == Number[d][2]
<1>1. /\ Number[c] = <<major, minor>> /\ major \in Nat /\ minor \in Nat
      /\ Decode(Rdev(Number[c])) = <<major + 4096 * (minor \div 256), minor % 256>>
  BY Decoded
<1>2. Number[d] = <<other, low>> /\ other \in Nat \ {0} /\ other < 4096
  BY Decoded
<1>3. Number[d] # <<0, 0>>
  <2> SUFFICES ASSUME Number[d] = <<0, 0>> PROVE FALSE
    OBVIOUS
  <2>1. Number[d][1] = 0
    OBVIOUS
  <2>2. Number[d][1] \in Nat \ {0}
    BY <1>2
  <2> QED BY <2>1, <2>2
<1> HIDE DEF major, minor, other, low
<1>4. minor < 256 => major + 4096 * (minor \div 256) = major /\ minor % 256 = minor
  BY <1>1
<1>5. minor < 256 => Decode(Rdev(Number[c])) = Number[c]
  BY <1>1, <1>4
<1>6. ASSUME Decode(Rdev(Number[c])) = Number[d] PROVE c = d
  <2>1. other = major + 4096 * (minor \div 256)
    <3>1. Number[d][1] = major + 4096 * (minor \div 256)
      BY <1>1, <1>6
    <3> QED BY <3>1 DEF other
  <2>2. minor < 256
    <3>1. major \in Nat /\ minor \in Nat /\ other \in Nat /\ other < 4096
      BY <1>1, <1>2
    <3>2. minor \div 256 = 0
      <4> DEFINE high == minor \div 256
      <4>1. high \in Nat
        BY <3>1
      <4>2. other = major + 4096 * high
        BY <2>1
      <4> HIDE DEF high
      <4>3. high = 0
        BY <3>1, <4>1, <4>2
      <4> QED BY <4>3 DEF high
    <3> QED BY <3>1, <3>2
  <2>3. Number[c] = Number[d]
    BY <1>5, <1>6, <2>2
  <2> QED BY <2>3, OpenAssumption
<1> QED BY <1>3, <1>5, <1>6 DEF minor

-----------------------------------------------------------------------------
(* The steps of the call                                                   *)

Quiet == UNCHANGED <<world, checks, changes, history>>

\* The check that ends with this step, passed by the device the path leads to.
Satisfied(blinded) ==
    ~repointed /\ node \in Devices =>
        /\ /\ Place(phase) = 2 /\ "not_mounted" \in checks \ blinded
           /\ platform = "linux" => Number[node][2] < 256
           => <<"not_mounted", node>> \in was \/ node \in mounts \ listed
        /\ /\ Place(phase) = 3 /\ "no_partitions" \in checks \ blinded /\ Named(node)
           => <<"no_partitions", node>> \in was
        /\ /\ Place(phase) = 4 /\ "is_zoned" \in checks
           /\ platform = "linux" => Named(node)
           => <<"is_zoned", node>> \in was

LEMMA QuietHistory == ASSUME OpenInv, Quiet PROVE HistoryInv'
BY DEF OpenInv, HistoryInv, Quiet, world, history, Facts

LEMMA PassKeeps ==
    ASSUME OpenInv, Quiet, phase \in Checks \cup {"mount_table"}, Pass,
           blind \subseteq blind', blind' \subseteq checks, Satisfied(blind')
    PROVE  OpenInv'
<1>1. OpenTypeOK /\ HistoryInv /\ PassedInv
  BY DEF OpenInv
<1>2. /\ platform' = platform /\ node' = node /\ fileName' = fileName /\ mounts' = mounts
      /\ listed' = listed /\ partitioned' = partitioned /\ checks' = checks
      /\ changes' = changes /\ repointed' = repointed /\ was' = was /\ wasNot' = wasNot
  BY DEF Quiet, world, history
<1>3. /\ phase' = After(phase) /\ found' = found /\ outcome' = outcome /\ opened' = opened
      /\ phase # "Returned" /\ outcome = "None" /\ opened = Nothing
  BY <1>1 DEF Pass, OpenTypeOK, Checks
<1>4. /\ phase' \in Checks \cup {"open"} /\ phase' # "Returned" /\ phase' # "mount_table"
      /\ Place(phase') = Place(phase) + 1 /\ Place(phase) \in 1 .. 4
  BY <1>3, Tables DEF Checks
<1>5. OpenTypeOK'
  BY <1>1, <1>2, <1>3, <1>4 DEF OpenTypeOK
<1>6. FoundInv'
  BY <1>4 DEF FoundInv
<1>7. outcome' = "None" /\ "None" \notin DOMAIN Refusals
  BY <1>3, RefusalTable DEF Errors
<1>8. RefusedForCause'
  BY <1>7 DEF RefusedForCause
<1>9. ASSUME NEW c \in Checks, PassedBy(c)'
      PROVE  c \in checks /\ (PassedBy(c) \/ Order(c) = Place(phase))
  <2>1. c \in checks /\ Order(c) < Place(phase')
    BY <1>2, <1>7, <1>9 DEF PassedBy
  <2>2. Order(c) \in 1 .. 4
    BY Tables DEF Checks
  <2>3. Order(c) < Place(phase) \/ Order(c) = Place(phase)
    BY <1>4, <2>1, <2>2
  <2> QED BY <1>3, <2>1, <2>3 DEF PassedBy
<1>10. ASSUME ~repointed, node \in Devices
       PROVE  MountInv(node)' /\ PartitionInv(node)' /\ ZonedInv(node)'
  <2>1. MountInv(node) /\ PartitionInv(node) /\ ZonedInv(node)
    BY <1>1, <1>10 DEF PassedInv
  <2>2. MountInv(node)'
    <3> SUFFICES ASSUME PassedBy("not_mounted")', "not_mounted" \notin blind',
                        platform = "linux" => Number[node][2] < 256
                 PROVE  <<"not_mounted", node>> \in was \/ node \in mounts \ listed
      BY <1>2 DEF MountInv
    <3>1. "not_mounted" \in checks /\ (PassedBy("not_mounted") \/ Place(phase) = 2)
      BY <1>9, Tables DEF Checks
    <3>2. CASE PassedBy("not_mounted")
      BY <2>1, <3>2 DEF MountInv
    <3>3. CASE Place(phase) = 2
      BY <1>10, <3>1, <3>3 DEF Satisfied
    <3> QED BY <3>1, <3>2, <3>3
  <2>3. PartitionInv(node)'
    <3> SUFFICES ASSUME PassedBy("no_partitions")', "no_partitions" \notin blind', Named(node)
                 PROVE  <<"no_partitions", node>> \in was
      BY <1>2 DEF PartitionInv, Named
    <3>1. "no_partitions" \in checks /\ (PassedBy("no_partitions") \/ Place(phase) = 3)
      BY <1>9, Tables DEF Checks
    <3>2. CASE PassedBy("no_partitions")
      BY <2>1, <3>2 DEF PartitionInv
    <3>3. CASE Place(phase) = 3
      BY <1>10, <3>1, <3>3 DEF Satisfied
    <3> QED BY <3>1, <3>2, <3>3
  <2>4. ZonedInv(node)'
    <3> SUFFICES ASSUME PassedBy("is_zoned")', platform = "linux" => Named(node)
                 PROVE  <<"is_zoned", node>> \in was
      BY <1>2 DEF ZonedInv, Named
    <3>1. "is_zoned" \in checks /\ (PassedBy("is_zoned") \/ Place(phase) = 4)
      BY <1>9, Tables DEF Checks
    <3>2. CASE PassedBy("is_zoned")
      BY <2>1, <3>2 DEF ZonedInv
    <3>3. CASE Place(phase) = 4
      BY <1>10, <3>1, <3>3 DEF Satisfied
    <3> QED BY <3>1, <3>2, <3>3
  <2> QED BY <2>2, <2>3, <2>4
<1>11. PassedInv'
  BY <1>2, <1>7, <1>10 DEF PassedInv, MountInv, PartitionInv, ZonedInv
<1> QED BY <1>5, <1>6, <1>8, <1>11, QuietHistory DEF OpenInv

\* The error is that of the check that is next, and the device deserves it.
Deserved(error) ==
    error \in Errors =>
        /\ Order(Refusals[error]) = Place(phase)
        /\ ~repointed =>
               \/ /\ node \in Devices
                  /\ <<Refusals[error], node>> \in wasNot
               \/ /\ node \notin Devices \/ ~Named(node)
                  /\ error # "DeviceMounted"

LEMMA RefuseKeeps ==
    ASSUME OpenInv, Quiet, phase # "Returned", NEW error, Refuse(error),
           error # "None", error # "Ok", blind' = blind, Deserved(error)
    PROVE  OpenInv'
<1>1. OpenTypeOK /\ HistoryInv /\ PassedInv
  BY DEF OpenInv
<1>2. /\ platform' = platform /\ node' = node /\ fileName' = fileName /\ mounts' = mounts
      /\ listed' = listed /\ partitioned' = partitioned /\ checks' = checks
      /\ changes' = changes /\ repointed' = repointed /\ was' = was /\ wasNot' = wasNot
  BY DEF Quiet, world, history
<1>3. /\ phase' = "Returned" /\ outcome' = error /\ found' = found /\ opened' = opened
      /\ outcome = "None" /\ opened = Nothing
  BY <1>1 DEF Refuse, OpenTypeOK
<1>4. OpenTypeOK'
  BY <1>1, <1>2, <1>3 DEF OpenTypeOK
<1>5. FoundInv'
  BY <1>3 DEF FoundInv
<1>6. RefusedForCause'
  <2> SUFFICES ASSUME error \in DOMAIN Refusals, ~repointed
               PROVE  \/ /\ node \in Devices
                         /\ <<Refusals[error], node>> \in wasNot
                      \/ /\ node \notin Devices \/ ~Named(node)
                         /\ error # "DeviceMounted"
    BY <1>2, <1>3 DEF RefusedForCause, Named
  <2> QED BY RefusalTable DEF Deserved
<1>7. ASSUME NEW c \in Checks, PassedBy(c)'
      PROVE  PassedBy(c)
  <2>1. c \in checks /\ error \in Errors /\ Order(c) < Order(Refusals[error])
    BY <1>2, <1>3, <1>7, RefusalTable DEF PassedBy
  <2>2. Order(c) < Place(phase)
    BY <2>1 DEF Deserved
  <2> QED BY <2>1, <2>2 DEF PassedBy
<1>8. ASSUME ~repointed, node \in Devices
      PROVE  MountInv(node)' /\ PartitionInv(node)' /\ ZonedInv(node)'
  <2>1. MountInv(node) /\ PartitionInv(node) /\ ZonedInv(node)
    BY <1>1, <1>8 DEF PassedInv
  <2>2. MountInv(node)'
    BY <1>2, <1>7, <2>1 DEF MountInv, Checks
  <2>3. PartitionInv(node)'
    BY <1>2, <1>7, <2>1 DEF PartitionInv, Named, Checks
  <2>4. ZonedInv(node)'
    BY <1>2, <1>7, <2>1 DEF ZonedInv, Named, Checks
  <2> QED BY <2>2, <2>3, <2>4
<1>9. PassedInv'
  BY <1>2, <1>3, <1>8 DEF PassedInv, MountInv, PartitionInv, ZonedInv
<1> QED BY <1>4, <1>5, <1>6, <1>9, QuietHistory DEF OpenInv

LEMMA OpensKeeps ==
    ASSUME OpenInv, Quiet, phase = "open", node # Nothing, Opens(node), blind' = blind
    PROVE  OpenInv'
<1>1. OpenTypeOK /\ HistoryInv /\ PassedInv
  BY DEF OpenInv
<1>2. /\ platform' = platform /\ node' = node /\ fileName' = fileName /\ mounts' = mounts
      /\ listed' = listed /\ partitioned' = partitioned /\ checks' = checks
      /\ changes' = changes /\ repointed' = repointed /\ was' = was /\ wasNot' = wasNot
  BY DEF Quiet, world, history
<1>3. phase' = "Returned" /\ outcome' = "Ok" /\ found' = found /\ opened' = node
  BY DEF Opens
<1>4. OpenTypeOK'
  BY <1>1, <1>2, <1>3 DEF OpenTypeOK
<1>5. FoundInv' /\ RefusedForCause'
  BY <1>3, RefusalTable DEF FoundInv, RefusedForCause, Errors
<1>6. ASSUME NEW c \in Checks, PassedBy(c)'
      PROVE  PassedBy(c)
  <2>1. c \in checks
    BY <1>2, <1>6 DEF PassedBy
  <2>2. Order(c) < Place(phase)
    BY Tables DEF Checks
  <2> QED BY <2>1, <2>2 DEF PassedBy
<1>7. ASSUME ~repointed, node \in Devices
      PROVE  MountInv(node)' /\ PartitionInv(node)' /\ ZonedInv(node)'
  <2>1. MountInv(node) /\ PartitionInv(node) /\ ZonedInv(node)
    BY <1>1, <1>7 DEF PassedInv
  <2>2. MountInv(node)'
    BY <1>2, <1>6, <2>1 DEF MountInv, Checks
  <2>3. PartitionInv(node)'
    BY <1>2, <1>6, <2>1 DEF PartitionInv, Named, Checks
  <2>4. ZonedInv(node)'
    BY <1>2, <1>6, <2>1 DEF ZonedInv, Named, Checks
  <2> QED BY <2>2, <2>3, <2>4
<1>8. PassedInv'
  BY <1>2, <1>3, <1>7 DEF PassedInv, MountInv, PartitionInv, ZonedInv
<1> QED BY <1>4, <1>5, <1>8, QuietHistory DEF OpenInv

LEMMA NoRefusal ==
    ASSUME NEW error, error \notin Errors
    PROVE  Deserved(error)
BY DEF Deserved

LEMMA SkipKeeps == ASSUME OpenInv, Quiet, Skip PROVE OpenInv'
<1>1. phase \in Checks \ checks /\ Pass /\ blind' = blind
  BY DEF Skip
<1>2. blind \subseteq checks
  BY DEF OpenInv, OpenTypeOK
<1>3. Satisfied(blind')
  <2>1. CASE phase = "block_device"
    BY <2>1, Tables DEF Satisfied
  <2>2. CASE phase = "not_mounted"
    BY <1>1, <2>2, Tables DEF Satisfied
  <2>3. CASE phase = "no_partitions"
    BY <1>1, <2>3, Tables DEF Satisfied
  <2>4. CASE phase = "is_zoned"
    BY <1>1, <2>4, Tables DEF Satisfied
  <2> QED BY <1>1, <2>1, <2>2, <2>3, <2>4 DEF Checks
<1> QED BY <1>1, <1>2, <1>3, PassKeeps

LEMMA DeniedKeeps == ASSUME OpenInv, Quiet, Denied PROVE OpenInv'
<1>1. phase \in checks \cup {"open"} /\ Refuse("Io") /\ blind' = blind
  BY DEF Denied
<1>2. phase # "Returned"
  BY <1>1 DEF OpenInv, OpenTypeOK, Checks
<1>3. Deserved("Io")
  BY NoRefusal DEF Errors
<1> QED BY <1>1, <1>2, <1>3, RefuseKeeps

LEMMA IsBlockDeviceKeeps == ASSUME OpenInv, Quiet, IsBlockDevice PROVE OpenInv'
<1>1. phase = "block_device" /\ blind' = blind
      /\ (Refuse("NotFound") \/ Refuse("NotABlockDevice") \/ Pass)
  BY DEF IsBlockDevice
<1>2. Deserved("NotFound") /\ Deserved("NotABlockDevice")
  BY NoRefusal DEF Errors
<1>3. CASE Refuse("NotFound")
  BY <1>1, <1>2, <1>3, RefuseKeeps
<1>4. CASE Refuse("NotABlockDevice")
  BY <1>1, <1>2, <1>4, RefuseKeeps
<1>5. CASE Pass
  <2>1. Satisfied(blind')
    BY <1>1, Tables DEF Satisfied
  <2>2. blind \subseteq checks
    BY DEF OpenInv, OpenTypeOK
  <2>3. phase \in Checks \cup {"mount_table"}
    BY <1>1 DEF Checks
  <2> QED BY <1>1, <1>5, <2>1, <2>2, <2>3, PassKeeps
<1> QED BY <1>1, <1>3, <1>4, <1>5

LEMMA StatForMountKeeps == ASSUME OpenInv, Quiet, StatForMount PROVE OpenInv'
<1>1. phase = "not_mounted" /\ "not_mounted" \in checks /\ blind' = blind
  BY DEF StatForMount
<1>2. CASE node = Nothing
  <2>1. Refuse("Io")
    BY <1>2 DEF StatForMount
  <2>2. Deserved("Io")
    BY NoRefusal DEF Errors
  <2> QED BY <1>1, <2>1, <2>2, RefuseKeeps
<1>3. CASE node # Nothing
  <2>1. OpenTypeOK /\ HistoryInv /\ PassedInv /\ RefusedForCause
    BY DEF OpenInv
  <2>2. /\ platform' = platform /\ node' = node /\ fileName' = fileName /\ mounts' = mounts
        /\ listed' = listed /\ partitioned' = partitioned /\ checks' = checks
        /\ changes' = changes /\ repointed' = repointed /\ was' = was /\ wasNot' = wasNot
    BY DEF Quiet, world, history
  <2>3. /\ phase' = "mount_table" /\ outcome' = outcome /\ opened' = opened
        /\ found' = IF platform = "freebsd" THEN <<node>>
                    ELSE IF node = File THEN <<0, 0>>
                    ELSE Decode(Rdev(Number[node]))
    BY <1>3 DEF StatForMount
  <2>4. outcome = "None"
    BY <1>1, <2>1 DEF OpenTypeOK
  <2>5. OpenTypeOK'
    BY <1>1, <2>1, <2>2, <2>3, <2>4 DEF OpenTypeOK
  <2>6. FoundInv'
    BY <1>1, <1>3, <2>2, <2>3 DEF FoundInv
  <2>7. ASSUME NEW c \in Checks, PassedBy(c)' PROVE PassedBy(c)
    <3>1. c \in checks /\ Order(c) < 2
      BY <2>2, <2>3, <2>4, <2>7, RefusalTable, Tables DEF PassedBy, Errors
    <3> QED BY <1>1, <3>1, Tables DEF PassedBy
  <2>8. PassedInv'
    <3>1. ASSUME ~repointed, node \in Devices
          PROVE  MountInv(node)' /\ PartitionInv(node)' /\ ZonedInv(node)'
      <4>1. MountInv(node) /\ PartitionInv(node) /\ ZonedInv(node)
        BY <2>1, <3>1 DEF PassedInv
      <4>2. MountInv(node)'
        BY <1>1, <2>2, <2>7, <4>1 DEF MountInv, Checks
      <4>3. PartitionInv(node)'
        BY <1>1, <2>2, <2>7, <4>1 DEF PartitionInv, Named, Checks
      <4>4. ZonedInv(node)'
        BY <2>2, <2>7, <4>1 DEF ZonedInv, Named, Checks
      <4> QED BY <4>2, <4>3, <4>4
    <3> QED BY <2>2, <2>3, <2>4, <3>1 DEF PassedInv, MountInv, PartitionInv, ZonedInv
  <2>9. RefusedForCause'
    BY <2>3, <2>4, RefusalTable DEF RefusedForCause, Errors
  <2> QED BY <2>5, <2>6, <2>8, <2>9, QuietHistory DEF OpenInv
<1> QED BY <1>2, <1>3

\* What the history records of a device now.
LEMMA Recorded ==
    ASSUME OpenInv, NEW d \in Devices
    PROVE  /\ <<"not_mounted", d>> \in IF d \in mounts THEN wasNot ELSE was
           /\ <<"no_partitions", d>> \in IF d \in partitioned THEN wasNot ELSE was
           /\ <<"is_zoned", d>> \in IF d \in ZonedDevices THEN was ELSE wasNot
<1>1. Facts(mounts, partitioned) \subseteq was
      /\ Claims \ Facts(mounts, partitioned) \subseteq wasNot
  BY DEF OpenInv, HistoryInv
<1>2. ASSUME NEW c \in Checks
      PROVE  <<c, d>> \in Claims
  BY <1>2 DEF Claims
<1>3. <<"not_mounted", d>> \in Facts(mounts, partitioned) <=> d \notin mounts
  BY DEF Facts
<1>4. <<"no_partitions", d>> \in Facts(mounts, partitioned) <=> d \notin partitioned
  BY DEF Facts
<1>5. <<"is_zoned", d>> \in Facts(mounts, partitioned) <=> d \in ZonedDevices
  BY DEF Facts
<1> QED BY <1>1, <1>2, <1>3, <1>4, <1>5 DEF Checks

\* The mount table has the path's device if and only if its entry names the device,
\* but for large minor numbers on Linux; another device is never found in its place.
LEMMA TableSays ==
    ASSUME OpenInv, phase = "mount_table", ~repointed
    PROVE  /\ node \notin Devices => ~InTable
           /\ node \in Devices /\ InTable => node \in listed
           /\ node \in listed /\ (platform = "linux" => Number[node][2] < 256) => InTable
<1>1. /\ platform \in {"linux", "freebsd"} /\ listed \subseteq Devices /\ node \in Nodes
      /\ Devices \cap {File, Nothing} = {}
  BY OpenAssumption DEF OpenInv, OpenTypeOK
<1>2. found = IF platform = "freebsd" THEN <<node>>
              ELSE IF node = File THEN <<0, 0>>
              ELSE Decode(Rdev(Number[node]))
  BY DEF OpenInv, FoundInv
<1>3. InTable <=> \E d \in listed :
                      found = IF platform = "freebsd" THEN <<d>> ELSE Number[d]
  BY DEF InTable
<1>4. CASE platform = "freebsd"
  <2>1. \A d \in listed : <<node>> = <<d>> <=> node = d
    OBVIOUS
  <2>2. InTable <=> node \in listed
    BY <1>2, <1>3, <1>4, <2>1
  <2> QED BY <1>1, <2>2
<1>5. CASE platform = "linux" /\ node = File
  <2>1. found = <<0, 0>>
    BY <1>2, <1>5
  <2>2. \A d \in listed : Number[d] # <<0, 0>>
    BY <1>1, NumbersNotMixed
  <2> QED BY <1>1, <1>3, <1>5, <2>1, <2>2
<1>6. node # Nothing
  BY DEF OpenInv, FoundInv
<1>7. CASE platform = "linux" /\ node \in Devices
  <2>1. found = Decode(Rdev(Number[node]))
    BY <1>1, <1>2, <1>7
  <2>2. ASSUME InTable PROVE node \in listed
    <3>1. PICK d \in listed : found = Number[d]
      BY <1>3, <1>7, <2>2
    <3>2. node = d
      BY <1>1, <1>7, <2>1, <3>1, NumbersNotMixed
    <3> QED BY <3>1, <3>2
  <2>3. ASSUME node \in listed, Number[node][2] < 256 PROVE InTable
    <3>1. found = Number[node]
      BY <1>7, <2>1, <2>3, NumbersNotMixed
    <3> QED BY <1>3, <1>7, <2>3, <3>1
  <2> QED BY <1>7, <2>2, <2>3
<1> QED BY <1>1, <1>4, <1>5, <1>6, <1>7 DEF Nodes

LEMMA SearchMountsKeeps == ASSUME OpenInv, Quiet, SearchMounts PROVE OpenInv'
<1>1. phase = "mount_table" /\ phase \in Checks \cup {"mount_table"} /\ phase # "Returned"
  BY DEF SearchMounts
<1>2. blind \subseteq checks /\ "not_mounted" \in checks
  BY <1>1 DEF OpenInv, OpenTypeOK, FoundInv
<1>3. listed \subseteq mounts /\ mounts \subseteq Devices
  BY DEF OpenInv, OpenTypeOK
<1>4. CASE InTable /\ Refuse("DeviceMounted") /\ blind' = blind
  <2>1. Order(Refusals["DeviceMounted"]) = Place(phase)
    BY <1>1, RefusalTable, Tables
  <2>2. ASSUME ~repointed PROVE node \in Devices /\ <<"not_mounted", node>> \in wasNot
    <3>1. node \in Devices /\ node \in listed
      BY <1>1, <1>4, <2>2, TableSays
    <3> QED BY <1>3, <3>1, Recorded
  <2>3. Deserved("DeviceMounted")
    BY <2>1, <2>2, RefusalTable DEF Deserved
  <2> QED BY <1>1, <1>4, <2>3, RefuseKeeps
<1>5. CASE ~InTable /\ Pass /\ blind' = blind
  <2>1. ASSUME ~repointed, node \in Devices, platform = "linux" => Number[node][2] < 256
        PROVE  <<"not_mounted", node>> \in was \/ node \in mounts \ listed
    <3>1. node \notin listed
      BY <1>1, <1>5, <2>1, TableSays
    <3> QED BY <2>1, <3>1, Recorded
  <2>2. Satisfied(blind')
    BY <1>1, <2>1, Tables DEF Satisfied
  <2> QED BY <1>1, <1>2, <1>5, <2>2, PassKeeps
<1>6. CASE Pass /\ blind' = blind \cup {"not_mounted"}
  <2>1. Satisfied(blind')
    BY <1>1, <1>6, Tables DEF Satisfied
  <2> QED BY <1>1, <1>2, <1>6, <2>1, PassKeeps
<1> QED BY <1>4, <1>5, <1>6 DEF SearchMounts

\* No two devices have one name.
LEMMA OneNamed ==
    ASSUME NEW c \in Devices, NEW d \in Devices, Named(c), Named(d)
    PROVE  c = d
BY OpenAssumption DEF Named

LEMMA HasNoPartitionsKeeps == ASSUME OpenInv, Quiet, HasNoPartitions PROVE OpenInv'
<1>1. /\ phase = "no_partitions" /\ phase \in Checks \cup {"mount_table"} /\ phase # "Returned"
      /\ "no_partitions" \in checks
  BY DEF HasNoPartitions, Checks
<1>2. blind \subseteq checks /\ partitioned \subseteq Devices
  BY DEF OpenInv, OpenTypeOK
<1>3. CASE Refuse("NotFound") /\ blind' = blind
  BY <1>1, <1>3, NoRefusal, RefuseKeeps DEF Errors
<1>4. CASE /\ \E d \in partitioned : Named(d)
           /\ Refuse("HasPartitions") /\ blind' = blind
  <2>1. Order(Refusals["HasPartitions"]) = Place(phase)
    BY <1>1, RefusalTable, Tables
  <2>2. ASSUME node \in Devices, Named(node) PROVE <<"no_partitions", node>> \in wasNot
    <3>1. node \in partitioned
      BY <1>2, <1>4, <2>2, OneNamed
    <3> QED BY <2>2, <3>1, Recorded
  <2>3. Deserved("HasPartitions")
    BY <2>1, <2>2, RefusalTable DEF Deserved
  <2> QED BY <1>1, <1>4, <2>3, RefuseKeeps
<1>5. CASE /\ ~ \E d \in partitioned : Named(d)
           /\ Pass /\ blind' = blind
  <2>1. ASSUME node \in Devices, Named(node) PROVE <<"no_partitions", node>> \in was
    <3>1. node \notin partitioned
      BY <1>5, <2>1
    <3> QED BY <2>1, <3>1, Recorded
  <2>2. Satisfied(blind')
    BY <1>1, <2>1, Tables DEF Satisfied
  <2> QED BY <1>1, <1>2, <1>5, <2>2, PassKeeps
<1>6. CASE Pass /\ blind' = blind \cup {"no_partitions"}
  <2>1. Satisfied(blind')
    BY <1>1, <1>6, Tables DEF Satisfied
  <2> QED BY <1>1, <1>2, <1>6, <2>1, PassKeeps
<1> QED BY <1>3, <1>4, <1>5, <1>6 DEF HasNoPartitions

LEMMA IsZonedDeviceKeeps == ASSUME OpenInv, Quiet, IsZonedDevice PROVE OpenInv'
<1>1. /\ phase = "is_zoned" /\ phase \in Checks \cup {"mount_table"} /\ phase # "Returned"
      /\ "is_zoned" \in checks /\ blind' = blind
  BY DEF IsZonedDevice, Checks
<1>2. blind \subseteq checks
  BY DEF OpenInv, OpenTypeOK
<1>3. ASSUME node \in Devices, platform = "linux" => Named(node)
      PROVE  Asked = {node}
  BY <1>3, OneNamed DEF Asked
<1>4. CASE Refuse("NotFound")
  BY <1>1, <1>4, NoRefusal, RefuseKeeps DEF Errors
<1>5. CASE Refuse("Io")
  BY <1>1, <1>5, NoRefusal, RefuseKeeps DEF Errors
<1>6. CASE ~(Asked \subseteq ZonedDevices) /\ Refuse("NotZoned")
  <2>1. Order(Refusals["NotZoned"]) = Place(phase)
    BY <1>1, RefusalTable, Tables
  <2>2. ASSUME node \in Devices, platform = "linux" => Named(node)
        PROVE  <<"is_zoned", node>> \in wasNot
    <3>1. node \notin ZonedDevices
      BY <1>3, <1>6, <2>2
    <3> QED BY <2>2, <3>1, Recorded
  <2>3. Deserved("NotZoned")
    BY <2>1, <2>2, RefusalTable DEF Deserved
  <2> QED BY <1>1, <1>6, <2>3, RefuseKeeps
<1>7. CASE Asked \subseteq ZonedDevices /\ Pass
  <2>1. ASSUME node \in Devices, platform = "linux" => Named(node)
        PROVE  <<"is_zoned", node>> \in was
    <3>1. node \in ZonedDevices
      BY <1>3, <1>7, <2>1
    <3> QED BY <2>1, <3>1, Recorded
  <2>2. Satisfied(blind')
    BY <1>1, <2>1, Tables DEF Satisfied
  <2> QED BY <1>1, <1>2, <1>7, <2>2, PassKeeps
<1> QED BY <1>4, <1>5, <1>6, <1>7 DEF IsZonedDevice

LEMMA OpenKeeps == ASSUME OpenInv, Quiet, Open PROVE OpenInv'
<1>1. phase = "open" /\ phase # "Returned" /\ blind' = blind
  BY DEF Open
<1>2. \/ Refuse("NotFound") \/ Refuse("Io")
      \/ node # Nothing /\ Opens(node)
  BY DEF Open, LinuxOpen, FreeBSDOpen
<1>3. Deserved("NotFound") /\ Deserved("Io")
  BY NoRefusal DEF Errors
<1>4. CASE Refuse("NotFound")
  BY <1>1, <1>3, <1>4, RefuseKeeps
<1>5. CASE Refuse("Io")
  BY <1>1, <1>3, <1>5, RefuseKeeps
<1>6. CASE node # Nothing /\ Opens(node)
  BY <1>1, <1>6, OpensKeeps
<1> QED BY <1>2, <1>4, <1>5, <1>6

-----------------------------------------------------------------------------
(* The others                                                              *)

LEMMA OthersKeep == ASSUME OpenInv, Others PROVE OpenInv'
<1>1. OpenTypeOK /\ HistoryInv /\ FoundInv /\ PassedInv
  BY DEF OpenInv
<1>2. /\ platform' = platform /\ fileName' = fileName /\ checks' = checks /\ phase' = phase
      /\ found' = found /\ outcome' = outcome /\ opened' = opened /\ blind' = blind
      /\ phase # "Returned" /\ changes < MaxChanges /\ changes' = changes + 1
  BY DEF Others
<1>3. /\ was' = was \cup Facts(mounts', partitioned')
      /\ wasNot' = wasNot \cup (Claims \ Facts(mounts', partitioned'))
  BY DEF Others
<1>4. /\ outcome = "None" /\ opened = Nothing /\ changes \in Nat /\ MaxChanges \in Nat
      /\ listed \subseteq mounts /\ mounts \subseteq Devices /\ partitioned \subseteq Devices
  BY <1>1, <1>2, OpenAssumption DEF OpenTypeOK
<1>5. /\ changes' \in 0 .. MaxChanges /\ changes' > 0
  BY <1>1, <1>2, <1>4 DEF OpenTypeOK
<1> DEFINE WorldGood ==
               /\ node' \in Nodes /\ listed' \subseteq mounts' /\ mounts' \subseteq Devices
               /\ partitioned' \subseteq Devices
               /\ ~repointed' => ~repointed /\ node' = node
               /\ \A d \in mounts \ listed :
                      d \in mounts' \ listed' \/ <<"not_mounted", d>> \in was'
<1>6. WorldGood
  <2>1. CASE Repoint
    BY <1>1, <1>4, <2>1 DEF Repoint, OpenTypeOK
  <2>2. ASSUME NEW d \in Devices, Mount(d) PROVE WorldGood
    BY <1>1, <1>4, <2>2 DEF Mount, OpenTypeOK
  <2>3. ASSUME NEW d \in Devices, Unmount(d) PROVE WorldGood
    <3>1. <<"not_mounted", d>> \in was'
      BY <1>3, <2>3 DEF Unmount, Facts
    <3> QED BY <1>1, <1>4, <2>3, <3>1 DEF Unmount, OpenTypeOK
  <2>4. ASSUME NEW d \in Devices, Repartition(d) PROVE WorldGood
    BY <1>1, <1>4, <2>4 DEF Repartition, OpenTypeOK
  <2> QED BY <2>1, <2>2, <2>3, <2>4 DEF Others
<1>7. OpenTypeOK'
  BY <1>1, <1>2, <1>5, <1>6 DEF OpenTypeOK
<1>8. HistoryInv'
  BY <1>3, <1>5 DEF HistoryInv, Claims, Facts
<1>9. FoundInv'
  BY <1>1, <1>2, <1>6 DEF FoundInv
<1>10. RefusedForCause'
  BY <1>2, <1>4, RefusalTable DEF RefusedForCause, Errors
<1>11. PassedInv'
  <2> SUFFICES ASSUME ~repointed' PROVE PassedInv'
    BY DEF PassedInv
  <2>1. ~repointed /\ node' = node
    BY <1>6
  <2>2. ASSUME NEW c \in Checks, PassedBy(c)' PROVE PassedBy(c)
    BY <1>2, <2>2 DEF PassedBy
  <2>3. ASSUME node \in Devices
        PROVE  MountInv(node)' /\ PartitionInv(node)' /\ ZonedInv(node)'
    <3>1. MountInv(node) /\ PartitionInv(node) /\ ZonedInv(node)
      BY <1>1, <2>1, <2>3 DEF PassedInv
    <3>2. MountInv(node)'
      BY <1>2, <1>3, <1>6, <2>1, <2>2, <3>1 DEF MountInv, Checks
    <3>3. PartitionInv(node)'
      BY <1>2, <1>3, <2>1, <2>2, <3>1 DEF PartitionInv, Named, Checks
    <3>4. ZonedInv(node)'
      BY <1>2, <1>3, <2>1, <2>2, <3>1 DEF ZonedInv, Named, Checks
    <3> QED BY <3>2, <3>3, <3>4
  <2>4. outcome' = "None"
    BY <1>2, <1>4
  <2> QED BY <2>1, <2>3, <2>4 DEF PassedInv, MountInv, PartitionInv, ZonedInv
<1> QED BY <1>7, <1>8, <1>9, <1>10, <1>11 DEF OpenInv

-----------------------------------------------------------------------------
(* The theorems                                                            *)

LEMMA StartInv == OpenInit => OpenInv
<1> SUFFICES ASSUME OpenInit PROVE OpenInv
  OBVIOUS
<1>1. /\ outcome = "None" /\ phase = "block_device" /\ opened = Nothing /\ blind = {}
      /\ changes = 0 /\ ~repointed
  BY DEF OpenInit
<1>2. OpenTypeOK
  BY <1>1, OpenAssumption DEF OpenInit, OpenTypeOK, Checks
<1>3. HistoryInv
  BY <1>1 DEF OpenInit, HistoryInv
<1>4. FoundInv
  BY <1>1 DEF FoundInv
<1>5. RefusedForCause
  BY <1>1, RefusalTable DEF RefusedForCause, Errors
<1>6. ASSUME NEW c \in Checks PROVE ~PassedBy(c)
  BY <1>1, RefusalTable, Tables DEF PassedBy, Checks, Errors
<1>7. PassedInv
  BY <1>1, <1>6 DEF PassedInv, MountInv, PartitionInv, ZonedInv, Checks
<1> QED BY <1>2, <1>3, <1>4, <1>5, <1>7 DEF OpenInv

THEOREM OpenInvariant == OpenSpec => []OpenInv
<1>1. OpenInit => OpenInv
  BY StartInv
<1>2. OpenInv /\ [OpenNext]_vars => OpenInv'
  <2> SUFFICES ASSUME OpenInv, [OpenNext]_vars PROVE OpenInv'
    OBVIOUS
  <2>1. CASE Step /\ Quiet
    <3>1. CASE Skip
      BY <2>1, <3>1, SkipKeeps
    <3>2. CASE Denied
      BY <2>1, <3>2, DeniedKeeps
    <3>3. CASE IsBlockDevice
      BY <2>1, <3>3, IsBlockDeviceKeeps
    <3>4. CASE StatForMount
      BY <2>1, <3>4, StatForMountKeeps
    <3>5. CASE SearchMounts
      BY <2>1, <3>5, SearchMountsKeeps
    <3>6. CASE HasNoPartitions
      BY <2>1, <3>6, HasNoPartitionsKeeps
    <3>7. CASE IsZonedDevice
      BY <2>1, <3>7, IsZonedDeviceKeeps
    <3>8. CASE Open
      BY <2>1, <3>8, OpenKeeps
    <3> QED BY <2>1, <3>1, <3>2, <3>3, <3>4, <3>5, <3>6, <3>7, <3>8 DEF Step
  <2>2. CASE Others
    BY <2>2, OthersKeep
  <2>3. CASE UNCHANGED vars
    BY <2>3 DEF OpenInv, vars, world, history, OpenTypeOK, HistoryInv, FoundInv, PassedInv,
                MountInv, PartitionInv, ZonedInv, PassedBy, Named, RefusedForCause, Facts
  <2> QED BY <2>1, <2>2, <2>3 DEF OpenNext, Quiet
<1> QED BY <1>1, <1>2, PTL DEF OpenSpec

\* The variables have their types, and a call that returns Ok, and only that, has
\* opened a node.
THEOREM OpenTyping == OpenSpec => []OpenTypeOK
<1>1. OpenInv => OpenTypeOK
  BY DEF OpenInv
<1> QED BY <1>1, OpenInvariant, PTL

\* A device that a check refuses deserves it: is_not_mounted never takes one device
\* for another, and the checks by name only look at a device that has the name.
THEOREM RefusalsDeserved == OpenSpec => []RefusedForCause
<1>1. OpenInv => RefusedForCause
  BY DEF OpenInv
<1> QED BY <1>1, OpenInvariant, PTL

LEMMA PassedWasSeen ==
    ASSUME OpenInv, ~repointed, node \in Devices, NEW c \in checks,
           PassedBy(c), Visible(c, node)
    PROVE  <<c, node>> \in was
<1>1. MountInv(node) /\ PartitionInv(node) /\ ZonedInv(node)
  BY DEF OpenInv, PassedInv
<1>2. c \in Checks
  BY DEF OpenInv, OpenTypeOK
<1>3. CASE c = "block_device"
  <2>1. <<c, node>> \in Facts(mounts, partitioned)
    BY <1>3 DEF Facts
  <2> QED BY <2>1 DEF OpenInv, HistoryInv
<1>4. CASE c = "not_mounted"
  <2>1. mounts = listed /\ "not_mounted" \notin blind
        /\ (platform = "linux" => Number[node][2] < 256)
    BY <1>4 DEF Visible
  <2> QED BY <1>1, <1>4, <2>1 DEF MountInv
<1>5. CASE c = "no_partitions"
  BY <1>1, <1>5 DEF Visible, PartitionInv
<1>6. CASE c = "is_zoned"
  BY <1>1, <1>6 DEF Visible, ZonedInv
<1> QED BY <1>2, <1>3, <1>4, <1>5, <1>6 DEF Checks

\* The device that open returns has satisfied, at some time of the call, every check
\* the builder was told to make and that could see it, as long as the path still
\* leads to what it led to.
THEOREM OpenedSatisfiesChecks == OpenSpec => []OpenedWasChecked
<1>1. ASSUME OpenInv, outcome = "Ok", ~repointed, opened \in Devices,
             NEW c \in checks, Visible(c, opened)
      PROVE  <<c, opened>> \in was
  <2>1. opened = node
    BY <1>1 DEF OpenInv, PassedInv
  <2>2. PassedBy(c)
    BY <1>1 DEF PassedBy
  <2> QED BY <1>1, <2>1, <2>2, PassedWasSeen
<1>2. OpenInv => OpenedWasChecked
  BY <1>1 DEF OpenedWasChecked
<1> QED BY <1>2, OpenInvariant, PTL

\* While nothing changes, the error is that of the first configured check that
\* fails: the device satisfies those before it that could see it.
THEOREM FirstFailureWins == OpenSpec => []FirstFailureReported
<1>1. ASSUME OpenInv, changes = 0, outcome \in DOMAIN Refusals, node \in Devices,
             NEW c \in checks, Order(c) < Order(Refusals[outcome]), Visible(c, node)
      PROVE  <<c, node>> \in was
  <2>1. ~repointed
    BY <1>1 DEF OpenInv, HistoryInv
  <2>2. PassedBy(c)
    BY <1>1 DEF PassedBy
  <2> QED BY <1>1, <2>1, <2>2, PassedWasSeen
<1>2. OpenInv => FirstFailureReported
  BY <1>1 DEF FirstFailureReported
<1> QED BY <1>2, OpenInvariant, PTL

=============================================================================
