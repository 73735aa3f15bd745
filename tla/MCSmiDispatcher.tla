--------------------------- MODULE MCSmiDispatcher ---------------------------
(* Instances of SmiDispatcher for TLC.                                     *)
EXTENDS SmiDispatcher

Sw(v) == [type |-> "sw", value |-> v, tick |-> 1, period |-> 0]
Usb == [type |-> "usb", value |-> 0, tick |-> 1, period |-> 0]
Every(t, p) == [type |-> "timer", value |-> 0, tick |-> t, period |-> p]

\* Two software SMIs, and one child for each asynchronous source.
MixedRecords == {"s1", "s2", "u1", "t1"}
MixedContext ==
    [s1 |-> Sw(1), s2 |-> Sw(AnyValue), u1 |-> Usb, t1 |-> Every(1, 2)]

\* Two children share an asynchronous source.
SharedRecords == {"s1", "u1", "u2"}
SharedContext == [s1 |-> Sw(1), u1 |-> Usb, u2 |-> Usb]
=============================================================================
