---------------------------- MODULE MCDeviceSync ----------------------------
(* Instances of DeviceSync for TLC: one terminal, one employee, a day of two instants. *)
EXTENDS DeviceSync, TLC

CONSTANTS ana, zk, u1, r1, r2, r3, p1, p2

At(t) == [dev |-> zk, user |-> u1, at |-> t]

OneEvent == {At(0)}
TwoEvents == {At(0), At(1)}

AnasNumber == u1 :> ana

Interchangeable == Permutations(Rows) \cup Permutations(Pulls)

=============================================================================
