---------------------------- MODULE MCHostLeases ----------------------------
(***************************************************************************)
(* HostLeases for TLC: two interchangeable devices, three sessions between *)
(* two starts (a media lease, a control lease and one more that meets      *)
(* them), one control operation, and a firmware update of three bytes, in  *)
(* chunks of two.                                                          *)
(***************************************************************************)
EXTENDS FirmwareUpdate, TLC

DeviceSymmetry == Permutations(Devices)
=============================================================================
