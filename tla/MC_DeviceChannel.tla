-------------------------- MODULE MC_DeviceChannel --------------------------
(* TLC instances of DeviceChannel.                                          *)
EXTENDS DeviceChannel, TLC

\* Devices and requests are interchangeable; used by safety runs only.
Symmetry == Permutations(Device) \cup Permutations(Request)
=============================================================================
