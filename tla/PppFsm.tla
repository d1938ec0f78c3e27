------------------------------- MODULE PppFsm -------------------------------
(***************************************************************************)
(* One fsm of pppd (fsm.c) against an arbitrary peer.                      *)
(*                                                                         *)
(* pppd runs one event at a time: a call from the layer below, from the    *)
(* layer above, from the callout list or from get_input() runs to its end  *)
(* before main() looks for the next one.  Each is one action here.  The    *)
(* peer may be any implementation of RFC 1661, working or broken, so that  *)
(* every frame may arrive at any time.                                     *)
(***************************************************************************)
EXTENDS FsmOps

VARIABLES
    f,      \* the fsm
    lower,  \* history: the last call from below was fsm_lowerup
    open    \* history: the last call of the user was fsm_open

vars == <<f, lower, open>>

Init ==
    /\ \E u \in Units : f = FsmInit(u)
    /\ lower = FALSE /\ open = FALSE

\* The fsm an event starts from: nothing sent and nobody called yet
Quiet == [f EXCEPT !.out = <<>>, !.calls = <<>>]

\* Mutants: the lower layer goes down without the down call; the timer is not
\* cancelled; an open while the fsm is closing is lost; a layer whose protocol
\* is rejected does not call finished.
LowerDownSilently ==
    /\ f' = [Lowerdown(Quiet) EXCEPT !.upper = f.upper]
    /\ lower' = FALSE /\ UNCHANGED open
LowerDownKeepsTimer ==
    /\ f' = [Lowerdown(Quiet) EXCEPT !.timers = f.timers]
    /\ lower' = FALSE /\ UNCHANGED open
UserOpensClosing ==
    /\ f' = IF f.state = "CLOSING" THEN Quiet ELSE Open(Quiet)
    /\ open' = TRUE /\ UNCHANGED lower
RejectedSilently ==
    /\ f' = [ProtReject(Quiet) EXCEPT !.calls = <<>>]
    /\ UNCHANGED <<lower, open>>

LowerUp ==
    /\ f' = Lowerup(Quiet)
    /\ lower' = TRUE /\ UNCHANGED open
LowerDown ==
    /\ f' = Lowerdown(Quiet)
    /\ lower' = FALSE /\ UNCHANGED open
UserOpens ==
    /\ f' = Open(Quiet)
    /\ open' = TRUE /\ UNCHANGED lower
UserCloses ==
    /\ f' = Close(Quiet)
    /\ open' = FALSE /\ UNCHANGED lower
Rejected ==
    /\ f' = ProtReject(Quiet)
    /\ UNCHANGED <<lower, open>>

\* Mutants: ACKRCVD survives the retransmission of the request; the timer is
\* not started again; every retransmission resets the counter.
TimerFiresAcked ==
    /\ f.timers > 0
    /\ LET g == Expire(Untimeout(Quiet))
       IN  f' = IF g.state = "REQSENT" THEN Goto(g, f.state) ELSE g
    /\ UNCHANGED <<lower, open>>
TimerFiresOnce ==
    /\ f.timers > 0
    /\ f' = [Expire(Untimeout(Quiet)) EXCEPT !.timers = 0]
    /\ UNCHANGED <<lower, open>>
TimerFiresAfresh ==
    /\ f.timers > 0
    /\ LET g == Expire(Untimeout(Quiet))
       IN  f' = IF g.out = <<>> THEN g
                ELSE [g EXCEPT !.retransmits = MaxConfReq[f.unit]]
    /\ UNCHANGED <<lower, open>>

\* calltimeout takes the entry off the callout list and calls fsm_timeout
TimerFires ==
    /\ f.timers > 0
    /\ f' = Expire(Untimeout(Quiet))
    /\ UNCHANGED <<lower, open>>

\* Mutant: a layer the peer terminates keeps the counter of its last exchange
ReceiveKeepsCounter(m) ==
    /\ LET g == Input(Quiet, m)
       IN  f' = IF m.code = "TermReq"
                  THEN [g EXCEPT !.retransmits = f.retransmits]
                  ELSE g
    /\ UNCHANGED <<lower, open>>

\* A frame of the peer.  Only the configuration codes carry options.
Receive(m) ==
    /\ f' = Input(Quiet, m)
    /\ UNCHANGED <<lower, open>>

PeerFrames ==
    {m \in Frame : m.code \in {"TermReq", "TermAck", "CodeRej", "Other"} => m.val = NoOpt}

Next ==
    \/ LowerUp \/ LowerDown
    \/ UserOpens \/ UserCloses
    \/ Rejected
    \/ TimerFires
    \/ \E m \in PeerFrames : Receive(m)

\* The main loop calls calltimeout() in every round (handle_events).
Spec == Init /\ [][Next]_vars /\ WF_vars(TimerFires)
-----------------------------------------------------------------------------
TypeOK == f \in Fsm /\ lower \in BOOLEAN /\ open \in BOOLEAN

(* The retransmit timer runs in exactly the states that wait for an answer
   of the peer, and there is never a second entry of it in the callout list:
   no fsm waits for ever, and no exchange is retransmitted at double speed. *)
TimerInv ==
    f.timers = IF f.state \in Negotiating \cup Terminating THEN 1 ELSE 0

(* The state tells what the layer below and the user said last, whatever the
   peer and the timer did in between: no call of theirs is lost in a state
   that was waiting for something else, and no frame undoes it. *)
IntentInv ==
    /\ lower <=> f.state \notin {"INITIAL", "STARTING"}
    /\ open <=> f.state \notin {"INITIAL", "CLOSED", "CLOSING"}

(* The upper layer is up exactly while the fsm is in OPENED: up and down
   calls alternate, whatever way the fsm leaves and reenters OPENED. *)
UpperInv == f.upper = IF f.state = "OPENED" THEN 1 ELSE 0

(* A fsm that has its Configure-Request acknowledged accepts no second answer
   to it: the "extra valid Ack" branches of fsm_rconfack and fsm_rconfnakrej
   in ACKRCVD and OPENED are never taken. *)
AckInv == f.state \in {"ACKRCVD", "OPENED"} => f.seen_ack

(* In every state that waits, the number of retransmissions left is within
   the limit set for that state, so that waiting ends. *)
RetransmitInv ==
    /\ f.state \in Negotiating =>
         f.retransmits \in -1 .. MaxConfReq[f.unit]
    /\ f.state \in Terminating =>
         /\ f.retransmits >= 0
         /\ f.retransmits > 0 => f.retransmits < MaxTermReq[f.unit]
    /\ f.nakloops <= MaxNakLoops

(* A layer that was closing or stopping and is done says so, unless its user
   restarts it: its finished call is what lets link_terminated take the link
   down. *)
TerminationReported ==
    [][ /\ f.state \in Terminating
        /\ f'.state \in {"CLOSED", "STOPPED"}
        => f'.calls = <<"finished">> \/ UserOpens ]_vars

(* Whatever the peer sends and however often the user changes his mind, a
   layer that closes does not stay in CLOSING or STOPPING. *)
TerminationEnds ==
    f.state \in Terminating ~> f.state \notin Terminating

(* A peer that has fallen silent, at whatever point of the exchange, does not
   keep us negotiating for ever. *)
NegotiationGivesUp ==
    <>[][~ \E m \in PeerFrames : Receive(m)]_vars
      => (f.state \in Negotiating ~> f.state \notin Negotiating)

\* The contract with the upper layer
Contract == INSTANCE LayerContract WITH upper <- f.upper = 1

(* Every run of the fsm is one the contract allows: the upper layer is only
   told up while the layer below is up and the user wants it, and is told
   down in the very event that ends either. *)
ContractSpec == Contract!Spec
=============================================================================
