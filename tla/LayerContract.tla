---------------------------- MODULE LayerContract ----------------------------
(***************************************************************************)
(* What an fsm of pppd promises the layer above it (fsm.h, "callbacks"):   *)
(* it reports up only while the layer below is up and its own user keeps   *)
(* it open, reports down before either of the two ends, and alternates the *)
(* two reports.                                                            *)
(***************************************************************************)
VARIABLES lower,  \* the layer below is up
          open,   \* the user of the layer wants it open
          upper   \* the layer above was told up, and not down since

vars == <<lower, open, upper>>

TypeOK == lower \in BOOLEAN /\ open \in BOOLEAN /\ upper \in BOOLEAN

Init == ~lower /\ ~open /\ ~upper

LowerUp   == ~lower /\ lower' = TRUE /\ UNCHANGED <<open, upper>>
LowerDown == lower /\ lower' = FALSE /\ upper' = FALSE /\ UNCHANGED open
Open      == ~open /\ open' = TRUE /\ UNCHANGED <<lower, upper>>
Close     == open /\ open' = FALSE /\ upper' = FALSE /\ UNCHANGED lower
Up        == lower /\ open /\ ~upper /\ upper' = TRUE /\ UNCHANGED <<lower, open>>
Down      == upper /\ upper' = FALSE /\ UNCHANGED <<lower, open>>

Next == LowerUp \/ LowerDown \/ Open \/ Close \/ Up \/ Down

Spec == Init /\ [][Next]_vars
=============================================================================
