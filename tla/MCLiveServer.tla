---------------------------- MODULE MCLiveServer ----------------------------
(* Instances of LiveServer for TLC. *)
EXTENDS LiveServer
=============================================================================
