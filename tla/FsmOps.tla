------------------------------- MODULE FsmOps -------------------------------
(***************************************************************************)
(* pppd/fsm.c: the option negotiation automaton of RFC 1661 that LCP,      *)
(* IPCP, CCP and the other control protocols of pppd share.                *)
(*                                                                         *)
(* A value of Fsm is one "fsm *f".  Every function of fsm.c is an operator *)
(* from the fsm it was called with to the fsm it leaves, so that a         *)
(* function that calls another one is written as that composition.  Two    *)
(* fields record what a call does to the rest of the program:              *)
(*   out     the frames handed to output(), in order;                      *)
(*   calls   the callbacks of the upper layer it made, in order.           *)
(* Two more are what those calls add up to: timers counts the fsm_timeout  *)
(* entries of this fsm in the callout list of main.c, upper the up calls   *)
(* minus the down calls made so far.                                       *)
(*                                                                         *)
(* The negotiated options are one value per direction, as a CI procedure   *)
(* treats an option: go is what we ask for, ho what we acknowledged.       *)
(***************************************************************************)
EXTENDS Integers, Sequences

CONSTANTS
    Units,        \* the PPP units; each has its own options, as in lcp.c
    Values,       \* the values an option can take
    NoOpt,        \* the option is absent
    Garbage,      \* the content of a well-formed frame with bad options
    IdMod,        \* identifiers are u_char: 256 in the program
    MaxNakLoops,  \* f->maxnakloops (DEFMAXNAKLOOPS)
    MaxConfReq,   \* per unit: f->maxconfreqtransmits
    MaxTermReq,   \* per unit: f->maxtermtransmits
    Flags,        \* per unit: f->flags
    Wanted,       \* per unit: the option value of wantoptions
    Accepts,      \* per unit: the values reqci acknowledges
    Refuses,      \* per unit: the values reqci rejects; it naks the others
    Hint,         \* per unit: the value reqci suggests in a nak
    Adopts,       \* per unit: the suggestions nakci takes over
    Drops,        \* the units whose nakci gives the option up when told to
    Ccp           \* the units whose rejci is ccp_rejci

ASSUME UnitsAssumption ==
    /\ NoOpt \notin Values
    /\ Garbage \notin Values \cup {NoOpt}
    /\ Wanted \in [Units -> Values \cup {NoOpt}]
    /\ Accepts \in [Units -> SUBSET Values]
    /\ Hint \in [Units -> Values]
    /\ Flags \in [Units -> SUBSET {"passive", "restart", "silent"}]
ASSUME BoundsAssumption ==
    /\ IdMod \in Nat \ {0}
    /\ MaxNakLoops \in Nat
    /\ MaxConfReq \in [Units -> Nat]
    /\ MaxTermReq \in [Units -> Nat]
-----------------------------------------------------------------------------
Negotiating == {"REQSENT", "ACKRCVD", "ACKSENT"}
Terminating == {"CLOSING", "STOPPING"}
States == {"INITIAL", "STARTING", "CLOSED", "STOPPED", "OPENED"}
            \cup Terminating \cup Negotiating

Ids == 0 .. IdMod - 1
Options == Values \cup {NoOpt}

\* The codes fsm_input dispatches on; "Other" stands for the ones it does not.
Codes == {"ConfReq", "ConfAck", "ConfNak", "ConfRej",
          "TermReq", "TermAck", "CodeRej", "Other"}
Frame == [code : Codes, id : Ids, val : Options \cup {Garbage}]

Callbacks == {"starting", "up", "down", "finished"}

\* typedef struct fsm, with the options of its unit
Fsm ==
    [unit : Units, state : States, id : Ids, reqid : Ids, seen_ack : BOOLEAN,
     retransmits : Int, nakloops : Nat, rnakloops : Nat,
     go : Options, ho : Options, all_rejected : BOOLEAN,
     timers : Nat, upper : Int, out : Seq(Frame), calls : Seq(Callbacks)]

\* fsm_init: the fsm before its lower layer or its user did anything
FsmInit(u) ==
    [unit |-> u, state |-> "INITIAL", id |-> 0, reqid |-> 0,
     seen_ack |-> FALSE, retransmits |-> 0, nakloops |-> 0, rnakloops |-> 0,
     go |-> NoOpt, ho |-> NoOpt, all_rejected |-> FALSE,
     timers |-> 0, upper |-> 0, out |-> <<>>, calls |-> <<>>]

Has(f, flag) == flag \in Flags[f.unit]
-----------------------------------------------------------------------------
(***************************************************************************)
(* What the functions of fsm.c call: the callout list, the sender and the  *)
(* callbacks of the protocol.                                              *)
(***************************************************************************)

\* TIMEOUT(fsm_timeout, f, ...) adds an entry even when one is pending;
\* UNTIMEOUT removes the first entry it finds, if there is one.
Timeout(f) == [f EXCEPT !.timers = @ + 1]
Untimeout(f) == [f EXCEPT !.timers = IF @ = 0 THEN 0 ELSE @ - 1]

\* fsm_sdata: one frame to the peer
SData(f, c, i, v) ==
    [f EXCEPT !.out = Append(@, [code |-> c, id |-> i, val |-> v])]

Goto(f, s) == [f EXCEPT !.state = s]

Up(f) == [f EXCEPT !.upper = @ + 1, !.calls = Append(@, "up")]
Down(f) == [f EXCEPT !.upper = @ - 1, !.calls = Append(@, "down")]
Starting(f) == [f EXCEPT !.calls = Append(@, "starting")]
Finished(f) == [f EXCEPT !.calls = Append(@, "finished")]

\* Mutant: f->id is an int
NextIdWide(f) == f.id + 1

\* The identifier of the next packet: ++f->id on a u_char
NextId(f) == (f.id + 1) % IdMod

\* Mutant: a new request keeps the identifier of the last one
NewRequestSameId(f) == [f EXCEPT !.reqid = @]

\* Mutant: a new negotiation numbers its requests from the beginning
NewRequestRestartsId(f) ==
    LET i == IF f.state \in Negotiating THEN NextId(f) ELSE 1
    IN  [f EXCEPT !.id = i, !.reqid = i]

\* f->reqid = ++f->id
NewRequest(f) == [f EXCEPT !.id = NextId(f), !.reqid = NextId(f)]

\* resetci: ask for what we want
ResetCI(f) == [f EXCEPT !.go = Wanted[f.unit], !.all_rejected = FALSE]

\* reqci: the verdict on the options the peer asks for ...
Verdict(f, v, rejectIfDisagree) ==
    IF v \in Accepts[f.unit] \cup {NoOpt}
      THEN "ConfAck"
      ELSE IF \/ v \in Refuses[f.unit] \cup {Garbage}
              \/ rejectIfDisagree
             THEN "ConfRej"
             ELSE "ConfNak"
\* ... what the reply carries ...
Reply(f, v, verdict) == IF verdict = "ConfNak" THEN Hint[f.unit] ELSE v
\* Mutant: reqci does not clear *ho
ReqCIKeepsOld(f, v, verdict) ==
    [f EXCEPT !.ho = IF verdict = "ConfAck" /\ v # NoOpt THEN v ELSE @,
              !.all_rejected = @ \/ (f.unit \in Ccp /\ verdict = "ConfRej")]

\* ... and what it remembers of them (*ho is cleared first).
ReqCI(f, v, verdict) ==
    [f EXCEPT !.ho = IF verdict = "ConfAck" THEN v ELSE NoOpt,
              !.all_rejected = @ \/ (f.unit \in Ccp /\ verdict = "ConfRej")]

\* ackci: the acknowledged options are exactly the requested ones
AckCI(f, v) == v = f.go

\* nakci: take over the suggestion, or give the option up; never when open
NakCI(f, v, treatAsReject) ==
    LET try == IF f.go = NoOpt \/ v = NoOpt THEN f.go
               ELSE IF treatAsReject /\ f.unit \in Drops THEN NoOpt
               ELSE IF v \in Adopts[f.unit] THEN v
               ELSE f.go
    IN  IF f.state = "OPENED" THEN f ELSE [f EXCEPT !.go = try]

\* rejci: the option must be the one we asked for; never when open
RejCI(f, v) ==
    IF f.state = "OPENED" \/ v = NoOpt THEN f ELSE [f EXCEPT !.go = NoOpt]

\* nakci and rejci return 0 for bad options; ccp_rejci returns -1 when the
\* peer rejects nothing at all and we rejected all it asked for.
GoodNak(f, v) == v # Garbage
GoodRej(f, v) == v \in {f.go, NoOpt}
CeaseRequests(f, v) == f.unit \in Ccp /\ f.all_rejected /\ v = NoOpt
-----------------------------------------------------------------------------
(***************************************************************************)
(* The functions of fsm.c.                                                 *)
(***************************************************************************)

\* fsm_sconfreq: send a Configure-Request and start the retransmit timer
SConfReq(f, retransmit) ==
    LET reset == IF f.state \in Negotiating
                   THEN f
                   ELSE [ResetCI(f) EXCEPT !.nakloops = 0, !.rnakloops = 0]
        req == IF retransmit
                 THEN reset
                 ELSE [NewRequest(reset) EXCEPT
                         !.retransmits = MaxConfReq[f.unit]]
    IN  Timeout(SData([req EXCEPT !.seen_ack = FALSE, !.retransmits = @ - 1],
                      "ConfReq", req.reqid, req.go))

\* The layer may send: wait for the peer if silent, else start to negotiate
Begin(f) ==
    IF Has(f, "silent") THEN Goto(f, "STOPPED")
                        ELSE Goto(SConfReq(f, FALSE), "REQSENT")

\* fsm_lowerup
Lowerup(f) ==
    CASE f.state = "INITIAL"  -> Goto(f, "CLOSED")
      [] f.state = "STARTING" -> Begin(f)
      [] OTHER                -> f

\* fsm_lowerdown
Lowerdown(f) ==
    CASE f.state = "CLOSED"  -> Goto(f, "INITIAL")
      [] f.state = "STOPPED" -> Starting(Goto(f, "STARTING"))
      [] f.state = "CLOSING" -> Untimeout(Goto(f, "INITIAL"))
      [] f.state \in Negotiating \cup {"STOPPING"} ->
                                Untimeout(Goto(f, "STARTING"))
      [] f.state = "OPENED"  -> Goto(Down(f), "STARTING")
      [] OTHER               -> f

\* fsm_open; a second open of a restartable layer takes it down and up
Open(f) ==
    LET again(g) == IF Has(g, "restart") THEN Lowerup(Lowerdown(g)) ELSE g
    IN  CASE f.state = "INITIAL" -> Starting(Goto(f, "STARTING"))
          [] f.state = "CLOSED"  -> Begin(f)
          [] f.state = "CLOSING" -> again(Goto(f, "STOPPING"))
          [] f.state \in {"STOPPED", "OPENED"} -> again(f)
          [] OTHER               -> f

\* terminate_layer: next is CLOSING or STOPPING
TerminateLayer(f, next) ==
    LET quiet == IF f.state = "OPENED" THEN Down(f) ELSE Untimeout(f)
        req == NewRequest([quiet EXCEPT !.retransmits = MaxTermReq[f.unit]])
        sent == SData(req, "TermReq", req.reqid, NoOpt)
    IN  IF sent.retransmits = 0
          THEN Finished(Goto(sent, IF next = "CLOSING" THEN "CLOSED"
                                                       ELSE "STOPPED"))
          ELSE Timeout([sent EXCEPT !.retransmits = @ - 1, !.state = next])

\* fsm_close
Close(f) ==
    CASE f.state = "STARTING" -> Goto(f, "INITIAL")
      [] f.state = "STOPPED"  -> Goto(f, "CLOSED")
      [] f.state = "STOPPING" -> Goto(f, "CLOSING")
      [] f.state \in Negotiating \cup {"OPENED"} -> TerminateLayer(f, "CLOSING")
      [] OTHER                -> f

\* fsm_timeout, called with its entry already off the callout list: give up,
\* or send the request once more
GiveUp(f) ==
    LET next == IF f.state = "CLOSING" THEN "CLOSED" ELSE "STOPPED"
    IN  IF f.state \in Negotiating /\ Has(f, "passive")
          THEN Goto(f, next)
          ELSE Finished(Goto(f, next))

ResendTermReq(f) ==
    LET req == NewRequest(f)
    IN  Timeout(SData([req EXCEPT !.retransmits = @ - 1],
                      "TermReq", req.reqid, NoOpt))

ResendConfReq(f) ==
    LET sent == SConfReq(f, TRUE)
    IN  IF sent.state = "ACKRCVD" THEN Goto(sent, "REQSENT") ELSE sent

Expire(f) ==
    IF f.state \notin Negotiating \cup Terminating THEN f
    ELSE IF f.retransmits <= 0 THEN GiveUp(f)
    ELSE IF f.state \in Terminating THEN ResendTermReq(f)
    ELSE ResendConfReq(f)

\* The way out of OPENED when the peer starts a new negotiation
Renegotiate(f) == Goto(SConfReq(Down(f), FALSE), "REQSENT")

\* The part of fsm_rconfreq that answers the request
Answer(f, i, v) ==
    LET verdict == Verdict(f, v, f.nakloops >= MaxNakLoops)
        sent == SData(ReqCI(f, v, verdict), verdict, i, Reply(f, v, verdict))
        agreed == IF f.state = "ACKRCVD"
                    THEN Up(Goto(Untimeout(sent), "OPENED"))
                    ELSE Goto(sent, "ACKSENT")
        differ == IF f.state = "ACKRCVD" THEN sent ELSE Goto(sent, "REQSENT")
    IN  CASE verdict = "ConfAck" -> [agreed EXCEPT !.nakloops = 0]
          [] verdict = "ConfNak" -> [differ EXCEPT !.nakloops = @ + 1]
          [] OTHER               -> differ

\* fsm_rconfreq
RConfReq(f, i, v) ==
    CASE f.state = "CLOSED"      -> SData(f, "TermAck", i, NoOpt)
      [] f.state \in Terminating -> f
      [] f.state = "OPENED"      -> Answer(Renegotiate(f), i, v)
      [] f.state = "STOPPED"     ->
           Answer(Goto(SConfReq(f, FALSE), "REQSENT"), i, v)
      [] OTHER                   -> Answer(f, i, v)

\* The part of fsm_rconfack that follows a valid acknowledgement
Acked(f, i) ==
    LET g == [f EXCEPT !.seen_ack = TRUE, !.rnakloops = 0]
        fresh == [g EXCEPT !.retransmits = MaxConfReq[f.unit]]
    IN  CASE f.state \in {"CLOSED", "STOPPED"} -> SData(g, "TermAck", i, NoOpt)
          [] f.state = "REQSENT" -> Goto(fresh, "ACKRCVD")
          [] f.state = "ACKRCVD" ->
               Goto(SConfReq(Untimeout(g), FALSE), "REQSENT")
          [] f.state = "ACKSENT" -> Up(Goto(Untimeout(fresh), "OPENED"))
          [] f.state = "OPENED"  -> Renegotiate(g)
          [] OTHER               -> g

\* The identifier is the one of our request, which has no answer yet.
Expected(f, i) == i = f.reqid /\ ~f.seen_ack

\* fsm_rconfack
RConfAck(f, i, v) ==
    IF Expected(f, i) /\ AckCI(f, v) THEN Acked(f, i) ELSE f

\* The part of fsm_rconfnakrej that follows a good Nak or Reject
TryAgain(f, i, cease) ==
    LET g == [f EXCEPT !.seen_ack = TRUE]
    IN  CASE f.state \in {"CLOSED", "STOPPED"} -> SData(g, "TermAck", i, NoOpt)
          [] f.state \in {"REQSENT", "ACKSENT"} ->
               IF cease THEN Goto(Untimeout(g), "STOPPED")
                        ELSE SConfReq(Untimeout(g), FALSE)
          [] f.state = "ACKRCVD" ->
               Goto(SConfReq(Untimeout(g), FALSE), "REQSENT")
          [] f.state = "OPENED"  -> Renegotiate(g)
          [] OTHER               -> g

\* fsm_rconfnakrej.  rnakloops is only compared with maxnakloops, so that it
\* may stop there.
RConfNak(f, i, v) ==
    LET loops == IF f.rnakloops >= MaxNakLoops THEN MaxNakLoops
                                               ELSE f.rnakloops + 1
        g == [f EXCEPT !.rnakloops = loops]
    IN  IF ~Expected(f, i) THEN f
        ELSE IF ~GoodNak(g, v) THEN g
        ELSE TryAgain(NakCI(g, v, loops >= MaxNakLoops), i, FALSE)

RConfRej(f, i, v) ==
    LET g == [f EXCEPT !.rnakloops = 0]
    IN  IF ~Expected(f, i) THEN f
        ELSE IF ~GoodRej(g, v) THEN g
        ELSE TryAgain(RejCI(g, v), i, CeaseRequests(g, v))

\* fsm_rtermreq
RTermReq(f, i) ==
    LET g == CASE f.state \in {"ACKRCVD", "ACKSENT"} -> Goto(f, "REQSENT")
               [] f.state = "OPENED" ->
                    Timeout(Down([f EXCEPT !.retransmits = 0,
                                           !.state = "STOPPING"]))
               [] OTHER -> f
    IN  SData(g, "TermAck", i, NoOpt)

\* fsm_rtermack
RTermAck(f) ==
    CASE f.state = "CLOSING"  -> Finished(Goto(Untimeout(f), "CLOSED"))
      [] f.state = "STOPPING" -> Finished(Goto(Untimeout(f), "STOPPED"))
      [] f.state = "ACKRCVD"  -> Goto(f, "REQSENT")
      [] f.state = "OPENED"   -> Renegotiate(f)
      [] OTHER                -> f

\* fsm_rcoderej
RCodeRej(f) == IF f.state = "ACKRCVD" THEN Goto(f, "REQSENT") ELSE f

\* The default case of fsm_input: reject a code nobody knows
RUnknown(f) == SData([f EXCEPT !.id = NextId(f)], "CodeRej", NextId(f), NoOpt)

\* fsm_protreject
ProtReject(f) ==
    CASE f.state = "CLOSING" -> Finished(Goto(Untimeout(f), "CLOSED"))
      [] f.state = "CLOSED"  -> Finished(f)
      [] f.state \in Negotiating \cup {"STOPPING"} ->
           Finished(Goto(Untimeout(f), "STOPPED"))
      [] f.state = "STOPPED" -> Finished(f)
      [] f.state = "OPENED"  -> TerminateLayer(f, "STOPPING")
      [] OTHER               -> f

\* fsm_input: a frame is dropped while the lower layer is down
Input(f, m) ==
    CASE f.state \in {"INITIAL", "STARTING"} -> f
      [] OTHER ->
         CASE m.code = "ConfReq" -> RConfReq(f, m.id, m.val)
           [] m.code = "ConfAck" -> RConfAck(f, m.id, m.val)
           [] m.code = "ConfNak" -> RConfNak(f, m.id, m.val)
           [] m.code = "ConfRej" -> RConfRej(f, m.id, m.val)
           [] m.code = "TermReq" -> RTermReq(f, m.id)
           [] m.code = "TermAck" -> RTermAck(f)
           [] m.code = "CodeRej" -> RCodeRej(f)
           [] OTHER              -> RUnknown(f)
=============================================================================
