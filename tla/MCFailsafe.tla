----------------------------- MODULE MCFailsafe -----------------------------
(***************************************************************************)
(* Failsafe on small constants, for two kinds of caller: the firmware's    *)
(* main(), which never requests arming, and whoever calls the host         *)
(* bindings and passes what it likes.  (A program that always requests, as *)
(* under --arm-test, is one of those.)                                     *)
(***************************************************************************)
EXTENDS Failsafe

FlightAndTests == {{FALSE}, BOOLEAN}
=============================================================================
