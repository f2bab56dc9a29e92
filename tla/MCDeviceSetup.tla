---------------------------- MODULE MCDeviceSetup ----------------------------
(* DeviceSetup with one device, and with two that are combined alike or     *)
(* not, the picture-in-picture layer on either.                            *)
EXTENDS DeviceSetup, TLC

Both(a, b) == 0 :> a @@ 1 :> b

SomeSetups ==
    { [num |-> 1, mode |-> Both("hard", "hard"), screen |-> Both("hd", "hd"), pip |-> 0],
      [num |-> 2, mode |-> Both("hard", "soft"), screen |-> Both("hd", "wide"), pip |-> 1] }
=============================================================================
