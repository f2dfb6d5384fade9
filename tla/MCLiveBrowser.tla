---------------------------- MODULE MCLiveBrowser ----------------------------
(* Instances of LiveBrowser for TLC. *)
EXTENDS LiveBrowser
=============================================================================
