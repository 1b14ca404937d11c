---------------------------- MODULE MCDeviceCache ----------------------------
(* Two requests, an iOS 17+ phone on this computer and a rented device.    *)
EXTENDS DeviceCache, TLC

Requests == Permutations(Request)
=============================================================================
