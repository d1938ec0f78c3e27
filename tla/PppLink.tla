------------------------------- MODULE PppLink -------------------------------
(***************************************************************************)
(* Two fsms of pppd (fsm.c) at the two ends of a point-to-point line.      *)
(*                                                                         *)
(* Each end is an fsm of FsmOps.  The line is a FIFO in each direction     *)
(* that may lose frames.  The users of the ends open and close them, and   *)
(* the lower layers go up and down, at most Moves times in all.            *)
(***************************************************************************)
EXTENDS FsmOps, SequencesExt

CONSTANTS
    Moves,      \* bound on the calls of the users and the lower layers
    Faults      \* bound on the frames lost and the answers that come late

\* A line has two ends; an identifier is not its own successor.
ASSUME LineAssumption ==
    /\ Moves \in Nat /\ Faults \in Nat
    /\ \E x, y \in Units : x # y /\ Units = {x, y}
    /\ IdMod > 1

Ends == Units
Peer(e) == CHOOSE p \in Ends : p # e

VARIABLES
    end,    \* end[e]: the fsm at e, between two events
    wire,   \* wire[e]: the frames on the way to e
    moves,  \* calls of users and lower layers so far
    faults  \* frames lost and answers overtaken by a timeout so far

vars == <<end, wire, moves, faults>>

\* main() calls lcp_open before start_link reports the lower layer up.
Init ==
    /\ end = [e \in Ends |-> [Open(FsmInit(e)) EXCEPT !.calls = <<>>]]
    /\ wire = [e \in Ends |-> <<>>]
    /\ moves = 0
    /\ faults = 0

\* Put frames on the line behind the ones that are there
Carry(line, e, frames) == [line EXCEPT ![Peer(e)] = @ \o frames]

\* The event that turns the fsm at e into f has run
Settle(e, f) == end' = [end EXCEPT ![e] = [f EXCEPT !.out = <<>>, !.calls = <<>>]]

\* A call from outside: fsm_lowerup, fsm_lowerdown, fsm_open, fsm_close
Call(e, f) ==
    /\ moves < Moves
    /\ moves' = moves + 1
    /\ Settle(e, f)
    /\ UNCHANGED faults

LowerUp(e) ==
    /\ end[e].state \in {"INITIAL", "STARTING"}
    /\ Call(e, Lowerup(end[e]))
    /\ wire' = Carry(wire, e, Lowerup(end[e]).out)

\* What was on its way to e is lost with its lower layer.
LowerDown(e) ==
    /\ end[e].state \notin {"INITIAL", "STARTING"}
    /\ Call(e, Lowerdown(end[e]))
    /\ wire' = [wire EXCEPT ![e] = <<>>]

UserOpens(e) ==
    /\ Call(e, Open(end[e]))
    /\ wire' = Carry(wire, e, Open(end[e]).out)

UserCloses(e) ==
    /\ Call(e, Close(end[e]))
    /\ wire' = Carry(wire, e, Close(end[e]).out)

Silence == \A e \in Ends : wire[e] = <<>>

\* Mutant: the timer is started for the first transmission only
TimerFiresOnce(e) ==
    /\ end[e].timers > 0
    /\ faults' = IF Silence THEN faults ELSE faults + 1
    /\ faults' <= Faults
    /\ LET f == Expire(Untimeout(end[e]))
       IN  Settle(e, [f EXCEPT !.timers = 0]) /\ wire' = Carry(wire, e, f.out)
    /\ UNCHANGED moves

\* A timeout while nothing is on the line is one that had to come; while
\* something is, an answer may still be on its way.
TimerFires(e) ==
    /\ end[e].timers > 0
    /\ faults' = IF Silence THEN faults ELSE faults + 1
    /\ faults' <= Faults
    /\ LET f == Expire(Untimeout(end[e]))
       IN  Settle(e, f) /\ wire' = Carry(wire, e, f.out)
    /\ UNCHANGED moves

Receive(e) ==
    /\ wire[e] # <<>>
    /\ LET f == Input(end[e], Head(wire[e]))
       IN  /\ Settle(e, f)
           /\ wire' = Carry([wire EXCEPT ![e] = Tail(@)], e, f.out)
    /\ UNCHANGED <<moves, faults>>

Lose(e) ==
    /\ faults < Faults
    /\ faults' = faults + 1
    /\ \E i \in DOMAIN wire[e] : wire' = [wire EXCEPT ![e] = RemoveAt(@, i)]
    /\ UNCHANGED <<end, moves>>

Next ==
    \E e \in Ends :
        \/ LowerUp(e) \/ LowerDown(e)
        \/ UserOpens(e) \/ UserCloses(e)
        \/ TimerFires(e)
        \/ Receive(e)
        \/ Lose(e)

\* Both ends run the main loop of pppd: they read what arrives (get_input) and
\* run the timeouts that are due (calltimeout).
Fairness == \A e \in Ends : WF_vars(Receive(e)) /\ SF_vars(TimerFires(e))

Spec == Init /\ [][Next]_vars /\ Fairness
-----------------------------------------------------------------------------
TypeOK ==
    /\ end \in [Ends -> Fsm]
    /\ wire \in [Ends -> Seq(Frame)]
    /\ moves \in 0 .. Moves
    /\ faults \in 0 .. Faults

InFlight(code) == \E e \in Ends : \E m \in ToSet(wire[e]) : m.code = code

(* An end that is open uses what the other end acknowledged last, whatever was
   lost, retransmitted or renegotiated on the way, and also while the other end
   is closed or negotiates again. *)
Agreement ==
    \A e \in Ends : end[e].state = "OPENED" => end[e].go = end[Peer(e)].ho

(* An end sends the requests of one negotiation with one identifier per
   content: an acknowledgement that is accepted was given to the options that
   are in use, not to the ones of an earlier request. *)
AckOfCurrent ==
    \A e \in Ends : \A m \in ToSet(wire[e]) :
        /\ m.code = "ConfAck"
        /\ m.id = end[e].reqid
        /\ end[e].state \in Negotiating \cup {"OPENED"}
        => m.val = end[e].go

Carries(line, code, id) == \E m \in ToSet(line) : m.code = code /\ m.id = id

\* What a new request carries is not on the line yet.
FreshStep ==
    \A e \in Ends :
        end'[e].reqid # end[e].reqid =>
          /\ ~Carries(wire[Peer(e)], "ConfReq", end'[e].reqid)
          /\ ~Carries(wire[e], "ConfAck", end'[e].reqid)

(* The u_char that numbers the requests does not come round to an identifier
   that is still on the line, in a request or in its acknowledgement: a new
   request is not taken for an old one. *)
IdsFresh == [][FreshStep]_vars

\* No user or lower layer acts any more, both lower layers are up, both users
\* want the link, and an end that still negotiates has retransmissions left
\* for the faults that are left.  No request to terminate is on its way.
Wanting ==
    /\ moves = Moves
    /\ ~InFlight("TermReq")
    /\ \A e \in Ends : \/ end[e].state = "OPENED"
                       \/ /\ end[e].state \in Negotiating
                          /\ end[e].retransmits > Faults - faults

(* Two ends that negotiate over a line with fewer faults than they have
   retransmissions left both open, however their wishes differ, and stay
   open: neither gives up, none stays open alone, no exchange of naks goes on
   for ever. *)
Converges ==
    Wanting ~> [](\A e \in Ends : end[e].state = "OPENED")
=============================================================================
