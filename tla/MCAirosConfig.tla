--------------------------- MODULE MCAirosConfig ---------------------------
(* Values of the constants of AirosConfig for TLC. *)
EXTENDS AirosConfig, TLC

CONSTANTS factory, bridge, router  \* configurations
CONSTANTS p1, p2                   \* processes

MCServices == factory :> {} @@ bridge :> {"bridge"} @@ router :> {"route", "dhcpd"}
=============================================================================
