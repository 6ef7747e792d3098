--------------------------- MODULE MCBrowserTransport ---------------------------
(***************************************************************************)
(* Bounds for TLC: two pieces of sound with anything going wrong three    *)
(* times, or three with two troubles.                                      *)
(***************************************************************************)
EXTENDS BrowserTransport

Kinds == {"socket", "store", "reload", "server", "start", "elsewhere"}

MCScenarios ==
    {[chunks |-> 2, troubles |-> 3, kinds |-> Kinds],
     [chunks |-> 3, troubles |-> 2, kinds |-> Kinds]}
================================================================================
