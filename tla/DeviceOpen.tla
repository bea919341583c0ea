----------------------------- MODULE DeviceOpen -----------------------------
(***************************************************************************)
(* DeviceBuilder::open (src/device/builder.rs) with the checks of          *)
(* src/validate/mod.rs: up to four checks on a path, one after the other,  *)
(* then the open.  Each looks the path up again, some by the node it leads *)
(* to and some by its file name, while others mount, partition and         *)
(* replace devices.  A step is one look at the system.                     *)
(*                                                                         *)
(* /proc/self/mountinfo, /sys/block, /dev and getfsstat are not in the     *)
(* repository; the model has of them what the checks read.                 *)
(***************************************************************************)
EXTENDS Naturals

CONSTANTS
    Platforms,      \* among "linux" and "freebsd"
    Devices,        \* the block devices
    Number,         \* their device numbers <<major, minor>>
    Name,           \* their names in /dev and /sys/block
    ZonedDevices,   \* those that are zoned
    Aliases,        \* other file names, of symbolic links
    MaxChanges      \* bound: what others do while one call runs

File == "a regular file"
Nothing == "nothing"

\* The numbers of block devices; the major 0 is that of none.
Majors == 1 .. 4095
Minors == 0 .. 2 ^ 20 - 1

ASSUME OpenAssumption ==
    /\ Platforms \subseteq {"linux", "freebsd"}
    /\ Devices \cap {File, Nothing} = {}
    /\ Number \in [Devices -> Majors \X Minors]
    /\ \A c, d \in Devices : c # d => Number[c] # Number[d] /\ Name[c] # Name[d]
    /\ \A d \in Devices : Name[d] \notin Aliases
    /\ ZonedDevices \subseteq Devices
    /\ MaxChanges \in Nat

VARIABLES
    platform,       \* the one the library is compiled for
    node,           \* what the path leads to
    fileName,       \* the last component of the path
    mounts,         \* the devices with a mounted file system
    listed,         \* those whose entry in the mount table names the device
    partitioned,    \* the devices with partitions
    checks,         \* the builder's flags
    phase,          \* the check that is next
    found,          \* is_not_mounted: the device number, or the canonical name
    outcome,
    opened,         \* the node that was opened
    changes,        \* how much others did during the call
    repointed,      \* history: the path has led to something else
    blind,          \* history: the checks whose table could not be read
    was, wasNot     \* history: <<check, device>> that held, or not, during the call

world == <<platform, node, fileName, mounts, listed, partitioned>>
history == <<repointed, was, wasNot>>
vars == <<world, checks, phase, found, outcome, opened, changes, blind, history>>

Nodes == Devices \cup {File, Nothing}
Names == {Name[d] : d \in Devices} \cup Aliases

Checks == {"block_device", "not_mounted", "no_partitions", "is_zoned"}

\* The facts the checks ask for.
Facts(m, p) ==
    {<<"block_device", d>> : d \in Devices} \cup
    {<<"not_mounted", d>> : d \in Devices \ m} \cup
    {<<"no_partitions", d>> : d \in Devices \ p} \cup
    {<<"is_zoned", d>> : d \in ZonedDevices}
Claims == Checks \X Devices

OpenInit ==
    /\ platform \in Platforms
    /\ node \in Nodes /\ fileName \in Names
    /\ mounts \in SUBSET Devices /\ listed \in SUBSET mounts
    /\ partitioned \in SUBSET Devices
    /\ checks \in SUBSET Checks
    /\ phase = "block_device"
    /\ found = <<>> /\ opened = Nothing /\ outcome = "None"
    /\ changes = 0 /\ repointed = FALSE /\ blind = {}
    /\ was = Facts(mounts, partitioned)
    /\ wasNot = Claims \ Facts(mounts, partitioned)

-----------------------------------------------------------------------------
(* Device numbers                                                          *)

\* st_rdev: eight bits of the minor, twelve of the major, the rest of the minor.
Rdev(n) == (n[2] % 256) + 256 * (n[1] + 4096 * (n[2] \div 256))

\* Mutant: the bits above the major are cut off.
Decode_Masked(rdev) == <<(rdev \div 256) % 4096, rdev % 256>>

\* dev_major, dev_minor of is_not_mounted.
Decode(rdev) == <<rdev \div 256, rdev % 256>>

-----------------------------------------------------------------------------
(* The checks                                                              *)

\* Mutant: the partitions are looked for first.
After_Swapped(p) ==
    CASE p = "block_device" -> "no_partitions"
      [] p = "no_partitions" -> "not_mounted"
      [] p \in {"not_mounted", "mount_table"} -> "is_zoned"
      [] p = "is_zoned" -> "open"

After(p) ==
    CASE p = "block_device" -> "not_mounted"
      [] p \in {"not_mounted", "mount_table"} -> "no_partitions"
      [] p = "no_partitions" -> "is_zoned"
      [] p = "is_zoned" -> "open"

Pass == phase' = After(phase) /\ UNCHANGED <<found, outcome, opened>>
Refuse(error) ==
    phase' = "Returned" /\ outcome' = error /\ UNCHANGED <<found, opened>>

\* A check the builder was not told to make.
Skip ==
    /\ phase \in Checks \ checks
    /\ Pass /\ UNCHANGED blind

\* stat, /sys/block or an attribute may be unreadable, open may be denied; on
\* FreeBSD a /dev that cannot be read has no partitions.
Denied ==
    /\ phase \in checks \cup {"open"}
    /\ ~(platform = "freebsd" /\ phase = "no_partitions")
    /\ Refuse("Io") /\ UNCHANGED blind

IsBlockDevice ==
    /\ phase = "block_device" /\ phase \in checks
    /\ CASE node = Nothing -> Refuse("NotFound")
         [] node = File -> Refuse("NotABlockDevice")
         [] OTHER -> Pass
    /\ UNCHANGED blind

\* The first half of is_not_mounted: which device is it.
StatForMount ==
    /\ phase = "not_mounted" /\ phase \in checks
    /\ IF node = Nothing
       THEN Refuse("Io")
       ELSE /\ phase' = "mount_table"
            /\ found' = IF platform = "freebsd" THEN <<node>>
                        ELSE IF node = File THEN <<0, 0>>
                        ELSE Decode(Rdev(Number[node]))
            /\ UNCHANGED <<outcome, opened>>
    /\ UNCHANGED blind

InTable == \E d \in listed : found = IF platform = "freebsd" THEN <<d>> ELSE Number[d]

\* The second half: is it in the mount table.  One that cannot be read is empty.
SearchMounts ==
    /\ phase = "mount_table"
    /\ \/ /\ IF InTable THEN Refuse("DeviceMounted") ELSE Pass
          /\ UNCHANGED blind
       \/ Pass /\ blind' = blind \cup {"not_mounted"}

\* The device a check by file name looks at, if any.
Named(d) == Name[d] = fileName

HasNoPartitions ==
    /\ phase = "no_partitions" /\ phase \in checks
    /\ \/ /\ IF platform = "linux" /\ ~ \E d \in Devices : Named(d)
             THEN Refuse("NotFound")
             ELSE IF \E d \in partitioned : Named(d)
                  THEN Refuse("HasPartitions")
                  ELSE Pass
          /\ UNCHANGED blind
       \/ platform = "freebsd" /\ Pass /\ blind' = blind \cup {"no_partitions"}

\* The device that is asked for its model: by name in sysfs, or by an open and an
\* ioctl.
Asked == IF platform = "linux" THEN {d \in Devices : Named(d)} ELSE Devices \cap {node}

\* Mutant: it is enough that the device has a model.
IsZonedDevice_AnyModel ==
    /\ phase = "is_zoned" /\ phase \in checks
    /\ IF Asked = {}
       THEN Refuse(IF platform = "freebsd" /\ node = Nothing THEN "NotFound" ELSE "Io")
       ELSE Pass
    /\ UNCHANGED blind

IsZonedDevice ==
    /\ phase = "is_zoned" /\ phase \in checks
    /\ IF Asked = {}
       THEN Refuse(IF platform = "freebsd" /\ node = Nothing THEN "NotFound" ELSE "Io")
       ELSE IF Asked \subseteq ZonedDevices THEN Pass ELSE Refuse("NotZoned")
    /\ UNCHANGED blind

Opens(n) ==
    /\ phase' = "Returned" /\ outcome' = "Ok" /\ opened' = n
    /\ UNCHANGED found

LinuxOpen(n) == IF n = Nothing THEN Refuse("NotFound") ELSE Opens(n)

\* Mutant: the file is kept when its sector size cannot be had.
FreeBSDOpen_KeepsFile(n) ==
    CASE n = Nothing -> Refuse("NotFound")
      [] n = File -> /\ phase' = "Returned" /\ outcome' = "Io" /\ opened' = n
                     /\ UNCHANGED found
      [] OTHER -> Opens(n)

\* A regular file does not answer DIOCGSECTORSIZE.
FreeBSDOpen(n) ==
    CASE n = Nothing -> Refuse("NotFound")
      [] n = File -> Refuse("Io")
      [] OTHER -> Opens(n)

Open ==
    /\ phase = "open"
    /\ IF platform = "linux" THEN LinuxOpen(node) ELSE FreeBSDOpen(node)
    /\ UNCHANGED blind

Step ==
    \/ Skip \/ Denied \/ IsBlockDevice \/ StatForMount \/ SearchMounts
    \/ HasNoPartitions \/ IsZonedDevice \/ Open

-----------------------------------------------------------------------------
(* The others                                                              *)

\* A file system may be mounted under another number (btrfs) or name (a label).
Mount(d) ==
    /\ d \notin mounts
    /\ mounts' = mounts \cup {d}
    /\ listed' \in {listed, listed \cup {d}}
    /\ UNCHANGED <<node, partitioned, repointed>>

Unmount(d) ==
    /\ d \in mounts
    /\ mounts' = mounts \ {d} /\ listed' = listed \ {d}
    /\ UNCHANGED <<node, partitioned, repointed>>

Repartition(d) ==
    /\ partitioned' = IF d \in partitioned THEN partitioned \ {d} ELSE partitioned \cup {d}
    /\ UNCHANGED <<node, mounts, listed, repointed>>

\* A device is unplugged, another one gets the path.
Repoint ==
    /\ \E n \in Nodes \ {node} : node' = n
    /\ repointed' = TRUE
    /\ UNCHANGED <<mounts, listed, partitioned>>

Others ==
    /\ phase # "Returned"
    /\ changes < MaxChanges
    /\ changes' = changes + 1
    /\ Repoint \/ \E d \in Devices : Mount(d) \/ Unmount(d) \/ Repartition(d)
    /\ was' = was \cup Facts(mounts', partitioned')
    /\ wasNot' = wasNot \cup (Claims \ Facts(mounts', partitioned'))
    /\ UNCHANGED <<platform, fileName, checks, phase, found, outcome, opened, blind>>

OpenNext ==
    \/ Step /\ UNCHANGED <<world, checks, changes, history>>
    \/ Others

OpenSpec == OpenInit /\ [][OpenNext]_vars

-----------------------------------------------------------------------------
(* Properties                                                              *)

\* The variables have their types, and a device was opened when the call says so.
OpenTypeOK ==
    /\ platform \in Platforms /\ node \in Nodes /\ fileName \in Names
    /\ listed \subseteq mounts /\ mounts \subseteq Devices
    /\ partitioned \subseteq Devices /\ checks \subseteq Checks
    /\ phase \in Checks \cup {"mount_table", "open", "Returned"}
    /\ outcome = "None" <=> phase # "Returned"
    /\ opened # Nothing <=> outcome = "Ok"
    /\ changes \in 0 .. MaxChanges /\ blind \subseteq checks

\* What a check can see: nothing in a table that cannot be read, no mount under
\* another number, no minor above 255 on Linux, no device under another name.
Visible(c, d) ==
    /\ c \notin blind
    /\ c = "not_mounted" => /\ mounts = listed
                            /\ platform = "linux" => Number[d][2] < 256
    /\ c = "no_partitions" => Named(d)
    /\ c = "is_zoned" /\ platform = "linux" => Named(d)

\* "If any check fails, the device is not opened": whatever others do in between,
\* short of putting something else in its place, the device that was opened has
\* satisfied every configured check that could see it at some time of the call.
OpenedWasChecked ==
    outcome = "Ok" /\ ~repointed /\ opened \in Devices =>
        \A c \in checks : Visible(c, opened) => <<c, opened>> \in was

\* The check an error comes from.
Refusals == [DeviceMounted |-> "not_mounted", HasPartitions |-> "no_partitions",
             NotZoned |-> "is_zoned"]

\* No false alarm: a device that is refused was mounted, had partitions or is not
\* zoned at some time of the call; device numbers are never mixed up.
RefusedForCause ==
    outcome \in DOMAIN Refusals /\ ~repointed =>
        \/ /\ node \in Devices
           /\ <<Refusals[outcome], node>> \in wasNot
        \/ /\ node \notin Devices \/ ~Named(node)
           /\ outcome # "DeviceMounted"

Order(c) == CASE c = "block_device" -> 1 [] c = "not_mounted" -> 2
              [] c = "no_partitions" -> 3 [] c = "is_zoned" -> 4

\* "Validation checks run in order: block device, not mounted, no partitions, is
\* zoned": while nothing changes, the outcome is that of the first check that fails.
FirstFailureReported ==
    changes = 0 /\ outcome \in DOMAIN Refusals /\ node \in Devices =>
        \A c \in checks :
            Order(c) < Order(Refusals[outcome]) /\ Visible(c, node)
                => <<c, node>> \in was

\* "Check that the device is not currently mounted": with this check a device that
\* is mounted under its own number during the whole call is not opened.
MountedIsRefused ==
    outcome = "Ok" /\ "not_mounted" \in checks /\ changes = 0 /\ blind = {} =>
        opened \notin listed
=============================================================================
