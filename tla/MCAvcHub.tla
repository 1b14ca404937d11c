------------------------------- MODULE MCAvcHub -------------------------------
(* Small instances of AvcHub for TLC; MCDevices has one more. *)
EXTENDS AvcHub

\* An encoder that brings the parameter sets with every key frame.
KeyPictures == {{"sps", "pps", "idr"}, {"slice"}}
===============================================================================
