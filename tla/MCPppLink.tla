------------------------------ MODULE MCPppLink ------------------------------
(* Values of the constants of PppLink for TLC: two ends with different wishes. *)
EXTENDS PppLink, TLC

CONSTANTS a, b,                  \* the ends
          small, good, big       \* option values

MCUnits == {a, b}
MCValues == {small, good, big}
MCFlags == [u \in MCUnits |-> {}]
\* b takes the hint of a; a insists on what b naks until b rejects it.
MCWanted == a :> big @@ b :> small
MCAccepts == a :> {good} @@ b :> {good}
MCRefuses == a :> {} @@ b :> {}
MCHint == a :> good @@ b :> good
MCAdopts == a :> {} @@ b :> {good}
MCMaxConfReq == [u \in MCUnits |-> 3]
MCMaxTermReq == [u \in MCUnits |-> 1]
=============================================================================
