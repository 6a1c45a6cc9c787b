------------------------------- MODULE MCSpi -------------------------------
(***************************************************************************)
(* Small instances of Spi: two devices on one bus.                         *)
(***************************************************************************)
EXTENDS Spi, TLC

CONSTANTS d1, d2

MCDevices == {d1, d2}

\* Every kind of segment: two in one selection, after one without data the second
\* of them, and a last one that leaves the device selected.
MCShapes == {<<"hold", "empty", "free", "hold">>}

\* No property or action names a device.
DeviceSymmetry == Permutations(Devices)

\* Bound: nothing is explored beyond a state in which transferDone has lost its
\* one-to-one relation with the transfers.
BeforeDisorder == Event!Orderly /\ ~spare

\* Bound: three dones, as a message takes to end in its last selection, or two control
\* calls, but not all five in one history.
FewEvents == calls + controls <= 4

Explored == BeforeDisorder /\ FewEvents
=============================================================================
