------------------------------- MODULE MCWifi -------------------------------
(* The retries of the code, and five things that go wrong, one after the      *)
(* other or in the middle of each other.                                      *)
EXTENDS Wifi
=============================================================================
