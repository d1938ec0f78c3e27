------------------------------ MODULE MCPppFsm ------------------------------
(* Values of the constants of PppFsm for TLC. *)
EXTENDS PppFsm, TLC

CONSTANTS plain, stubborn, ccp,  \* units
          small, good, big       \* option values

MCUnits == {plain, stubborn, ccp}
MCValues == {small, good, big}

\* plain: the defaults; stubborn: silent, restartable, no terminate requests;
\* ccp: passive, with the reject procedure of ccp.c
MCFlags == plain :> {} @@ stubborn :> {"restart", "silent"}
             @@ ccp :> {"passive"}
MCWanted == plain :> big @@ stubborn :> NoOpt @@ ccp :> good
MCAccepts == plain :> {good, big} @@ stubborn :> {} @@ ccp :> {good}
MCRefuses == plain :> {} @@ stubborn :> {big} @@ ccp :> {small, big}
MCHint == plain :> good @@ stubborn :> good @@ ccp :> good
MCAdopts == plain :> {good} @@ stubborn :> {} @@ ccp :> {small}
MCMaxConfReq == plain :> 2 @@ stubborn :> 0 @@ ccp :> 1
MCMaxTermReq == plain :> 2 @@ stubborn :> 0 @@ ccp :> 1
=============================================================================
