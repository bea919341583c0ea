---------------------------- MODULE MCDeviceOpen ----------------------------
(* Small instances of DeviceOpen for TLC. *)
EXTENDS DeviceOpen, TLC

CONSTANTS d1, d2

\* The minors differ only above the eighth bit.
TwoDevices == {d1, d2}
Numbers == d1 :> <<8, 0>> @@ d2 :> <<8, 256>>
OwnNames == d1 :> "sda" @@ d2 :> "sdiw"
OneZoned == {d1}
Both == {"linux", "freebsd"}
Linux == {"linux"}
Links == {"wwn-0x5000"}
=============================================================================
