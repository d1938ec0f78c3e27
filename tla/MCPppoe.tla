------------------------------ MODULE MCPppoe ------------------------------
(* Values of the constants of PppoeDiscovery for TLC. *)
EXTENDS PppoeDiscovery, TLC

CONSTANTS isp, guest  \* access concentrators

\* No criterion, either, both, and a listing
Choices == (SUBSET {"ac", "service"}) \cup {{"service", "verbose"}}
=============================================================================
