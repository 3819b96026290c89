-------------------------- MODULE MCDeviceRegistry --------------------------
(***************************************************************************)
(* DeviceRegistry for TLC: two devices of adapter "a" and one of adapter   *)
(* "b" that shares an id with them.  A discovery reports a device not at   *)
(* all, with one row, or with two rows that agree or disagree.             *)
(***************************************************************************)
EXTENDS DeviceRegistry, TLC

CONSTANTS e1, e2, s1, s2

MCKeys == {<<"a", "1">>, <<"a", "2">>, <<"b", "1">>}

R(e, s) == [endpoint |-> e, serial |-> s, online |-> TRUE]

MCReports ==
    {{}, {R(None, s1)}, {R(e1, s1)}, {R(e2, s1)},
     {R(None, s1), R(e1, s1)}, {R(e1, s1), R(e2, s1)}, {R(None, s1), R(None, s2)}}
=============================================================================
