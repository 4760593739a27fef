------------------------------- MODULE MCHosts -------------------------------
(***************************************************************************)
(* Instances of Basemap and of ZoneStore for TLC: what a host that goes     *)
(* away owes the card when it is back, Home Assistant and the browser's     *)
(* database.  The two have nothing to do with each other, and a behaviour   *)
(* is one of either: the other is off.                                      *)
(***************************************************************************)
EXTENDS Basemap, ZoneStore

VARIABLE host

\* Both zones have records of an older format.
BothOld == {[u \in Urls |-> [ts |-> 0, made |-> 0, format |-> "old"]]}

StoreOff ==
    /\ now = 0 /\ db \in Stored /\ queue = <<>> /\ dead = FALSE
    /\ zone = [u \in Urls |-> "missing"]
    /\ loads = [running |-> FALSE, superseded |-> FALSE, replan |-> FALSE, listing |-> FALSE]
    /\ back = [wb |-> <<>>, drain |-> "none", hand |-> <<>>]
    /\ past = [age |-> [u \in Urls |-> 0], owed |-> {}, refreshes |-> 0]

InitHosts ==
    /\ InitMap
    /\ \/ host = "Home Assistant" /\ StoreOff
       \/ host = "IndexedDB" /\ InitStore /\ ~ha.serving /\ ~asked.vector /\ ~asked.labelsAbove

NextHosts ==
    /\ UNCHANGED host
    /\ \/ host = "Home Assistant" /\ NextMap /\ UNCHANGED storeVars
       \/ host = "IndexedDB" /\ NextStore /\ UNCHANGED mapVars

SpecHosts == InitHosts /\ [][NextHosts]_<<host, mapVars, storeVars>> /\ FairnessMap /\ FairnessStore
=============================================================================
