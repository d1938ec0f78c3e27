--------------------------- MODULE SessionContract ---------------------------
(***************************************************************************)
(* What pppd promises about one link, whatever the peer sends: the network *)
(* protocol runs only over an open link, after every authentication that   *)
(* the two ends agreed on was acknowledged, and it goes down before the    *)
(* link does, or with it.                                                  *)
(***************************************************************************)
CONSTANT Proofs   \* the authentications there are

VARIABLES
    link,   \* LCP is open
    owed,   \* the authentications still to be done on this link
    net     \* the network protocol is open

vars == <<link, owed, net>>

Init == link = FALSE /\ owed = {} /\ net = FALSE

Establish == ~link /\ link' = TRUE /\ owed' \in SUBSET Proofs /\ net' = FALSE
Authenticate(a) == link /\ a \in owed /\ owed' = owed \ {a} /\ UNCHANGED <<link, net>>
StartNetwork == link /\ owed = {} /\ net' = TRUE /\ UNCHANGED <<link, owed>>
StopNetwork == net' = FALSE /\ UNCHANGED <<link, owed>>
Drop == link /\ link' = FALSE /\ owed' = {} /\ net' = FALSE

Next ==
    \/ Establish \/ StartNetwork \/ StopNetwork \/ Drop
    \/ \E a \in Proofs : Authenticate(a)

Spec == Init /\ [][Next]_vars
=============================================================================
