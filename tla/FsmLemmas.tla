----------------------------- MODULE FsmLemmas -----------------------------
(***************************************************************************)
(* What the functions of fsm.c do to a fsm, for every number of units,     *)
(* identifiers and values, and all limits, flags and option policies.      *)
(***************************************************************************)
EXTENDS FsmOps, TLAPS

-----------------------------------------------------------------------------
(* What the helpers return. *)

LEMMA Updates ==
    ASSUME NEW g \in Fsm
    PROVE  /\ \A n \in Nat : [g EXCEPT !.nakloops = n] \in Fsm
           /\ \A n \in Nat : [g EXCEPT !.rnakloops = n] \in Fsm
           /\ \A n \in Nat : [g EXCEPT !.timers = n] \in Fsm
           /\ \A n \in Int : [g EXCEPT !.retransmits = n] \in Fsm
           /\ \A b \in BOOLEAN : [g EXCEPT !.seen_ack = b] \in Fsm
           /\ \A v \in Options : [g EXCEPT !.go = v] \in Fsm
  BY DEF Fsm

LEMMA NextIdType == ASSUME NEW g \in Fsm PROVE NextId(g) \in Ids
  BY BoundsAssumption DEF NextId, Ids, Fsm

LEMMA GotoEffect ==
    ASSUME NEW g \in Fsm, NEW s \in States
    PROVE  LET h == Goto(g, s)
           IN  /\ h \in Fsm
               /\ h.state = s /\ h.unit = g.unit
               /\ h.timers = g.timers /\ h.upper = g.upper
               /\ h.seen_ack = g.seen_ack /\ h.retransmits = g.retransmits
               /\ h.nakloops = g.nakloops
  BY DEF Goto, Fsm

LEMMA TimeoutEffect ==
    ASSUME NEW g \in Fsm
    PROVE  LET h == Timeout(g)
           IN  /\ h \in Fsm
               /\ h.state = g.state /\ h.unit = g.unit
               /\ h.timers = g.timers + 1 /\ h.upper = g.upper
               /\ h.seen_ack = g.seen_ack /\ h.retransmits = g.retransmits
               /\ h.nakloops = g.nakloops
  <1>1. g.timers + 1 \in Nat
    BY DEF Fsm
  <1>2. Timeout(g) \in Fsm
    BY <1>1, Updates DEF Timeout
  <1>3. QED
    BY <1>2 DEF Timeout, Fsm

LEMMA UntimeoutEffect ==
    ASSUME NEW g \in Fsm
    PROVE  LET h == Untimeout(g)
           IN  /\ h \in Fsm
               /\ h.state = g.state /\ h.unit = g.unit
               /\ h.timers = (IF g.timers = 0 THEN 0 ELSE g.timers - 1)
               /\ h.upper = g.upper
               /\ h.seen_ack = g.seen_ack /\ h.retransmits = g.retransmits
               /\ h.nakloops = g.nakloops
  <1>1. (IF g.timers = 0 THEN 0 ELSE g.timers - 1) \in Nat
    BY DEF Fsm
  <1>2. Untimeout(g) \in Fsm
    BY <1>1, Updates DEF Untimeout
  <1>3. QED
    BY <1>2 DEF Untimeout, Fsm

LEMMA SDataEffect ==
    ASSUME NEW g \in Fsm, NEW c \in Codes, NEW i \in Ids,
           NEW v \in Options \cup {Garbage}
    PROVE  LET h == SData(g, c, i, v)
           IN  /\ h \in Fsm
               /\ h.state = g.state /\ h.unit = g.unit
               /\ h.timers = g.timers /\ h.upper = g.upper
               /\ h.seen_ack = g.seen_ack /\ h.retransmits = g.retransmits
               /\ h.nakloops = g.nakloops
  <1>1. [code |-> c, id |-> i, val |-> v] \in Frame
    BY DEF Frame
  <1>2. Append(g.out, [code |-> c, id |-> i, val |-> v]) \in Seq(Frame)
    BY <1>1 DEF Fsm
  <1>3. SData(g, c, i, v) \in Fsm
    BY <1>2 DEF SData, Fsm
  <1>4. QED
    BY <1>3 DEF SData, Fsm

LEMMA CallType ==
    ASSUME NEW g \in Fsm, NEW c \in Callbacks
    PROVE  Append(g.calls, c) \in Seq(Callbacks)
  BY DEF Fsm

LEMMA UpEffect ==
    ASSUME NEW g \in Fsm
    PROVE  LET h == Up(g)
           IN  /\ h \in Fsm
               /\ h.state = g.state /\ h.unit = g.unit
               /\ h.timers = g.timers /\ h.upper = g.upper + 1
               /\ h.seen_ack = g.seen_ack /\ h.retransmits = g.retransmits
               /\ h.nakloops = g.nakloops
  <1>1. Append(g.calls, "up") \in Seq(Callbacks) /\ g.upper + 1 \in Int
    BY CallType DEF Callbacks, Fsm
  <1>2. Up(g) \in Fsm
    BY <1>1 DEF Up, Fsm
  <1>3. QED
    BY <1>2 DEF Up, Fsm

LEMMA DownEffect ==
    ASSUME NEW g \in Fsm
    PROVE  LET h == Down(g)
           IN  /\ h \in Fsm
               /\ h.state = g.state /\ h.unit = g.unit
               /\ h.timers = g.timers /\ h.upper = g.upper - 1
               /\ h.seen_ack = g.seen_ack /\ h.retransmits = g.retransmits
               /\ h.nakloops = g.nakloops
  <1>1. Append(g.calls, "down") \in Seq(Callbacks) /\ g.upper - 1 \in Int
    BY CallType DEF Callbacks, Fsm
  <1>2. Down(g) \in Fsm
    BY <1>1 DEF Down, Fsm
  <1>3. QED
    BY <1>2 DEF Down, Fsm

LEMMA StartingEffect ==
    ASSUME NEW g \in Fsm
    PROVE  LET h == Starting(g)
           IN  /\ h \in Fsm
               /\ h.state = g.state /\ h.unit = g.unit
               /\ h.timers = g.timers /\ h.upper = g.upper
               /\ h.seen_ack = g.seen_ack /\ h.retransmits = g.retransmits
               /\ h.nakloops = g.nakloops
  <1>1. Append(g.calls, "starting") \in Seq(Callbacks)
    BY CallType DEF Callbacks
  <1>2. QED
    BY <1>1 DEF Starting, Fsm

LEMMA FinishedEffect ==
    ASSUME NEW g \in Fsm
    PROVE  LET h == Finished(g)
           IN  /\ h \in Fsm
               /\ h.state = g.state /\ h.unit = g.unit
               /\ h.timers = g.timers /\ h.upper = g.upper
               /\ h.seen_ack = g.seen_ack /\ h.retransmits = g.retransmits
               /\ h.nakloops = g.nakloops
  <1>1. Append(g.calls, "finished") \in Seq(Callbacks)
    BY CallType DEF Callbacks
  <1>2. QED
    BY <1>1 DEF Finished, Fsm

LEMMA ResetCIEffect ==
    ASSUME NEW g \in Fsm
    PROVE  ResetCI(g) \in Fsm
  <1>1. Wanted[g.unit] \in Options
    BY UnitsAssumption DEF Fsm, Options
  <1>2. QED
    BY <1>1 DEF ResetCI, Fsm

LEMMA NewRequestEffect ==
    ASSUME NEW g \in Fsm
    PROVE  NewRequest(g) \in Fsm
  <1>1. NextId(g) \in Ids
    BY NextIdType
  <1>2. QED
    BY <1>1 DEF NewRequest, Fsm

LEMMA SConfReqEffect ==
    ASSUME NEW g \in Fsm, NEW r \in BOOLEAN
    PROVE  LET h == SConfReq(g, r)
           IN  /\ h \in Fsm
               /\ h.unit = g.unit /\ h.state = g.state
               /\ h.timers = g.timers + 1 /\ h.upper = g.upper
               /\ h.seen_ack = FALSE
               /\ h.retransmits =
                    (IF r THEN g.retransmits ELSE MaxConfReq[g.unit]) - 1
               /\ h.nakloops <= g.nakloops
  <1> DEFINE again == g.state \in Negotiating
             clean == [ResetCI(g) EXCEPT !.nakloops = 0, !.rnakloops = 0]
             reset == IF again THEN g ELSE clean
             fresh == [NewRequest(reset) EXCEPT
                         !.retransmits = MaxConfReq[g.unit]]
             req == IF r THEN reset ELSE fresh
             bare == [req EXCEPT !.seen_ack = FALSE, !.retransmits = @ - 1]
  <1>1. /\ reset \in Fsm
        /\ reset.unit = g.unit /\ reset.state = g.state
        /\ reset.timers = g.timers /\ reset.upper = g.upper
        /\ reset.retransmits = g.retransmits
        /\ reset.nakloops <= g.nakloops
    <2>1. CASE again
      BY <2>1 DEF Fsm
    <2>2. CASE ~again
      <3>1. clean \in Fsm
        <4>1. [ResetCI(g) EXCEPT !.nakloops = 0] \in Fsm
          BY ResetCIEffect, Updates
        <4>2. [[ResetCI(g) EXCEPT !.nakloops = 0] EXCEPT !.rnakloops = 0]
                \in Fsm
          BY <4>1, Updates
        <4>3. QED
          BY <4>2
      <3>2. /\ clean.unit = g.unit /\ clean.state = g.state
            /\ clean.timers = g.timers /\ clean.upper = g.upper
            /\ clean.retransmits = g.retransmits /\ clean.nakloops = 0
        BY DEF Fsm, ResetCI
      <3>3. clean.nakloops <= g.nakloops
        BY <3>2 DEF Fsm
      <3>4. reset = clean
        BY <2>2
      <3>5. QED
        BY <3>1, <3>2, <3>3, <3>4
    <2>3. QED
      BY <2>1, <2>2
  <1> HIDE DEF again, reset, clean
  <1>2. MaxConfReq[g.unit] \in Int
    BY BoundsAssumption DEF Fsm
  <1>3. /\ req \in Fsm
        /\ req.unit = g.unit /\ req.state = g.state
        /\ req.timers = g.timers /\ req.upper = g.upper
        /\ req.retransmits = IF r THEN g.retransmits ELSE MaxConfReq[g.unit]
        /\ req.nakloops <= g.nakloops
    <2>1. CASE r
      BY <1>1, <2>1
    <2>2. CASE ~r
      <3>1. fresh \in Fsm
        BY <1>1, <1>2, NewRequestEffect, Updates
      <3>2. /\ fresh.unit = g.unit /\ fresh.state = g.state
            /\ fresh.timers = g.timers /\ fresh.upper = g.upper
            /\ fresh.retransmits = MaxConfReq[g.unit]
            /\ fresh.nakloops <= g.nakloops
        BY <1>1 DEF NewRequest, Fsm
      <3>3. req = fresh
        BY <2>2
      <3>4. QED
        BY <2>2, <3>1, <3>2, <3>3
    <2>3. QED
      BY <2>1, <2>2
  <1> HIDE DEF fresh, req
  <1>4. bare \in Fsm
    <2>1. req.retransmits - 1 \in Int
      BY <1>3 DEF Fsm
    <2>2. QED
      BY <1>3, <2>1 DEF Fsm
  <1>5. /\ bare.unit = g.unit /\ bare.state = g.state
        /\ bare.timers = g.timers /\ bare.upper = g.upper
        /\ bare.seen_ack = FALSE
        /\ bare.retransmits =
             (IF r THEN g.retransmits ELSE MaxConfReq[g.unit]) - 1
        /\ bare.nakloops <= g.nakloops
    BY <1>3 DEF Fsm
  <1>6. req.reqid \in Ids /\ req.go \in Options
    BY <1>3 DEF Fsm
  <1> DEFINE sent == SData(bare, "ConfReq", req.reqid, req.go)
  <1>7. SConfReq(g, r) = Timeout(sent)
    BY DEF SConfReq, reset, again, clean, fresh, req
  <1> HIDE DEF bare
  <1>8. sent \in Fsm
    BY <1>4, <1>6, SDataEffect DEF Codes
  <1>9. /\ sent.unit = g.unit /\ sent.state = g.state
        /\ sent.timers = g.timers /\ sent.upper = g.upper
        /\ sent.seen_ack = FALSE
        /\ sent.retransmits =
             (IF r THEN g.retransmits ELSE MaxConfReq[g.unit]) - 1
        /\ sent.nakloops <= g.nakloops
    BY <1>4, <1>5 DEF SData, Fsm
  <1> HIDE DEF sent
  <1>10. QED
    BY <1>7, <1>8, <1>9, TimeoutEffect
-----------------------------------------------------------------------------
(***************************************************************************)
(* The inductive invariant, as a predicate of a fsm, and what a function   *)
(* of fsm.c may do to a fsm that satisfies it: keep it, and move between   *)
(* the states the contract with the upper layer tells apart one at a time. *)
(***************************************************************************)
Waiting == Negotiating \cup Terminating

Inv(g) ==
    /\ g.timers = IF g.state \in Waiting THEN 1 ELSE 0
    /\ g.upper = IF g.state = "OPENED" THEN 1 ELSE 0
    /\ g.state \in {"ACKRCVD", "OPENED"} => g.seen_ack
    /\ g.state \in Negotiating =>
         g.retransmits \in -1 .. MaxConfReq[g.unit]
    /\ g.state \in Terminating =>
         /\ g.retransmits >= 0
         /\ g.retransmits > 0 => g.retransmits < MaxTermReq[g.unit]
    /\ g.nakloops <= MaxNakLoops

LowerIsUp(g) == g.state \notin {"INITIAL", "STARTING"}
IsOpen(g) == g.state \notin {"INITIAL", "CLOSED", "CLOSING"}

\* The state tells that the layer below is up (l) and the user wants the
\* layer (o); an fsm only enters OPENED while both hold, and held before.
Told(g, h, l, o) ==
    /\ LowerIsUp(h) = l /\ IsOpen(h) = o
    /\ h.state = "OPENED" /\ g.state # "OPENED"
         => l /\ o /\ LowerIsUp(g) /\ IsOpen(g)

Guided(g, h, l, o) ==
    h \in Fsm /\ h.unit = g.unit /\ Inv(h) /\ Told(g, h, l, o)

Allowed(g, h) == Told(g, h, LowerIsUp(g), IsOpen(g))

Fine(g, h) == h \in Fsm /\ h.unit = g.unit /\ Inv(h) /\ Allowed(g, h)

USE DEF States, Negotiating, Terminating, Waiting

LEMMA UnitBounds ==
    ASSUME NEW g \in Fsm
    PROVE  /\ MaxConfReq[g.unit] \in Nat /\ MaxTermReq[g.unit] \in Nat
           /\ g.state \in States /\ g.nakloops \in Nat /\ g.timers \in Nat
           /\ g.retransmits \in Int /\ g.upper \in Int
           /\ g.seen_ack \in BOOLEAN /\ g.id \in Ids /\ g.reqid \in Ids
           /\ g.go \in Options /\ g.ho \in Options
  BY BoundsAssumption DEF Fsm

\* "No option" is a possible content of a frame and of a set of options.
LEMMA Nothing == NoOpt \in Options \cup {Garbage} /\ NoOpt \in Options
  BY DEF Options

\* A first Configure-Request leads to REQSENT.
LEMMA RequestEffect ==
    ASSUME NEW g \in Fsm
    PROVE  LET h == Goto(SConfReq(g, FALSE), "REQSENT")
           IN  /\ h \in Fsm
               /\ h.state = "REQSENT" /\ h.unit = g.unit
               /\ h.timers = g.timers + 1 /\ h.upper = g.upper
               /\ h.retransmits = MaxConfReq[g.unit] - 1
               /\ h.nakloops <= g.nakloops
  <1> DEFINE s == SConfReq(g, FALSE)
  <1>1. /\ s \in Fsm
        /\ s.unit = g.unit /\ s.state = g.state
        /\ s.timers = g.timers + 1 /\ s.upper = g.upper
        /\ s.retransmits = MaxConfReq[g.unit] - 1
        /\ s.nakloops <= g.nakloops
    BY SConfReqEffect
  <1> HIDE DEF s
  <1>2. LET h == Goto(s, "REQSENT")
        IN  /\ h \in Fsm
            /\ h.state = "REQSENT" /\ h.unit = s.unit
            /\ h.timers = s.timers /\ h.upper = s.upper
            /\ h.retransmits = s.retransmits /\ h.nakloops = s.nakloops
    BY <1>1, GotoEffect
  <1>3. QED
    BY <1>1, <1>2 DEF s

LEMMA RequestFine ==
    ASSUME NEW g \in Fsm, g.nakloops <= MaxNakLoops,
           g.timers = 0, g.upper = 0
    PROVE  LET h == Goto(SConfReq(g, FALSE), "REQSENT")
           IN  h \in Fsm /\ h.unit = g.unit /\ Inv(h) /\ h.state = "REQSENT"
  <1> DEFINE h == Goto(SConfReq(g, FALSE), "REQSENT")
  <1>0. /\ h \in Fsm
        /\ h.state = "REQSENT" /\ h.unit = g.unit
        /\ h.timers = g.timers + 1 /\ h.upper = g.upper
        /\ h.retransmits = MaxConfReq[g.unit] - 1
        /\ h.nakloops <= g.nakloops
    BY RequestEffect
  <1> HIDE DEF h
  <1>1. /\ h \in Fsm
        /\ h.state = "REQSENT" /\ h.unit = g.unit
        /\ h.timers = 1 /\ h.upper = 0
        /\ h.retransmits = MaxConfReq[h.unit] - 1
        /\ h.nakloops <= g.nakloops
    BY <1>0
  <1>2. h.nakloops <= MaxNakLoops
    BY <1>1, UnitBounds, BoundsAssumption
  <1>3. h.retransmits \in -1 .. MaxConfReq[h.unit]
    BY <1>1, UnitBounds
  <1>4. Inv(h)
    BY <1>1, <1>2, <1>3 DEF Inv
  <1>5. QED
    BY <1>1, <1>4 DEF h

LEMMA BeginFine ==
    ASSUME NEW g \in Fsm, g.nakloops <= MaxNakLoops,
           g.timers = 0, g.upper = 0
    PROVE  LET h == Begin(g)
           IN  /\ h \in Fsm /\ h.unit = g.unit /\ Inv(h)
               /\ h.state \in {"STOPPED", "REQSENT"}
  <1>1. CASE Has(g, "silent")
    BY <1>1, GotoEffect DEF Begin, Inv
  <1>2. CASE ~Has(g, "silent")
    BY <1>2, RequestFine DEF Begin
  <1>3. QED
    BY <1>1, <1>2

LEMMA LowerupFine ==
    ASSUME NEW g \in Fsm, Inv(g)
    PROVE  Guided(g, Lowerup(g), TRUE, IsOpen(g))
  <1>1. CASE g.state = "INITIAL"
    BY <1>1, GotoEffect, UnitBounds
    DEF Lowerup, Guided, Inv, Told, LowerIsUp, IsOpen
  <1>2. CASE g.state = "STARTING"
    <2>1. g.nakloops <= MaxNakLoops /\ g.timers = 0 /\ g.upper = 0
      BY <1>2 DEF Inv
    <2>2. QED
      BY <1>2, <2>1, BeginFine DEF Lowerup, Guided, Told, LowerIsUp, IsOpen
  <1>3. CASE g.state \notin {"INITIAL", "STARTING"}
    BY <1>3 DEF Lowerup, Guided, Told, LowerIsUp, IsOpen
  <1>4. QED
    BY <1>1, <1>2, <1>3

LEMMA LowerdownFine ==
    ASSUME NEW g \in Fsm, Inv(g)
    PROVE  Guided(g, Lowerdown(g), FALSE, IsOpen(g))
  <1>1. CASE g.state = "CLOSED"
    BY <1>1, GotoEffect, UnitBounds
    DEF Lowerdown, Guided, Inv, Told, LowerIsUp, IsOpen
  <1>2. CASE g.state = "STOPPED"
    BY <1>2, GotoEffect, StartingEffect, UnitBounds
    DEF Lowerdown, Guided, Inv, Told, LowerIsUp, IsOpen
  <1>3. CASE g.state = "CLOSING"
    BY <1>3, GotoEffect, UntimeoutEffect, UnitBounds
    DEF Lowerdown, Guided, Inv, Told, LowerIsUp, IsOpen
  <1>4. CASE g.state \in Negotiating \cup {"STOPPING"}
    BY <1>4, GotoEffect, UntimeoutEffect, UnitBounds
    DEF Lowerdown, Guided, Inv, Told, LowerIsUp, IsOpen
  <1>5. CASE g.state = "OPENED"
    BY <1>5, GotoEffect, DownEffect, UnitBounds
    DEF Lowerdown, Guided, Inv, Told, LowerIsUp, IsOpen
  <1>6. CASE g.state \in {"INITIAL", "STARTING"}
    BY <1>6 DEF Lowerdown, Guided, Told, LowerIsUp, IsOpen
  <1>7. QED
    BY <1>1, <1>2, <1>3, <1>4, <1>5, <1>6, UnitBounds

LEMMA RestartFine ==
    ASSUME NEW g \in Fsm, Inv(g), g.state \in {"STOPPED", "OPENED", "STOPPING"}
    PROVE  LET h == Lowerup(Lowerdown(g))
           IN  /\ h \in Fsm /\ h.unit = g.unit /\ Inv(h)
               /\ h.state \in {"STOPPED", "REQSENT"}
  <1> DEFINE d == Lowerdown(g)
  <1>1. d \in Fsm /\ d.unit = g.unit /\ Inv(d)
    BY LowerdownFine DEF Guided
  <1>2. d.state = "STARTING"
    BY GotoEffect, StartingEffect, UntimeoutEffect, DownEffect DEF Lowerdown
  <1> HIDE DEF d
  <1>3. d.nakloops <= MaxNakLoops /\ d.timers = 0 /\ d.upper = 0
    BY <1>1, <1>2 DEF Inv
  <1>4. Lowerup(d) = Begin(d)
    BY <1>2 DEF Lowerup
  <1>5. /\ Begin(d) \in Fsm /\ Begin(d).unit = d.unit /\ Inv(Begin(d))
        /\ Begin(d).state \in {"STOPPED", "REQSENT"}
    BY <1>1, <1>3, BeginFine
  <1>6. QED
    BY <1>1, <1>4, <1>5 DEF d

LEMMA OpenFine ==
    ASSUME NEW g \in Fsm, Inv(g)
    PROVE  Guided(g, Open(g), LowerIsUp(g), TRUE)
  <1>1. CASE g.state = "INITIAL"
    BY <1>1, GotoEffect, StartingEffect, UnitBounds
    DEF Open, Guided, Inv, Told, LowerIsUp, IsOpen
  <1>2. CASE g.state = "CLOSED"
    <2>1. g.nakloops <= MaxNakLoops /\ g.timers = 0 /\ g.upper = 0
      BY <1>2 DEF Inv
    <2>2. QED
      BY <1>2, <2>1, BeginFine DEF Open, Guided, Told, LowerIsUp, IsOpen
  <1>3. CASE g.state = "CLOSING"
    <2> DEFINE s == Goto(g, "STOPPING")
    <2>1. s \in Fsm /\ s.unit = g.unit /\ Inv(s) /\ s.state = "STOPPING"
      BY <1>3, GotoEffect DEF Inv
    <2>2. Open(g) = IF Has(s, "restart") THEN Lowerup(Lowerdown(s)) ELSE s
      BY <1>3 DEF Open
    <2> HIDE DEF s
    <2>3. CASE Has(s, "restart")
      BY <1>3, <2>1, <2>2, <2>3, RestartFine
      DEF Guided, Told, LowerIsUp, IsOpen
    <2>4. CASE ~Has(s, "restart")
      BY <1>3, <2>1, <2>2, <2>4 DEF Guided, Told, LowerIsUp, IsOpen
    <2>5. QED
      BY <2>3, <2>4
  <1>4. CASE g.state \in {"STOPPED", "OPENED"}
    <2>1. Open(g) = IF Has(g, "restart") THEN Lowerup(Lowerdown(g)) ELSE g
      BY <1>4 DEF Open
    <2>2. CASE Has(g, "restart")
      BY <1>4, <2>1, <2>2, RestartFine DEF Guided, Told, LowerIsUp, IsOpen
    <2>3. CASE ~Has(g, "restart")
      BY <1>4, <2>1, <2>3 DEF Guided, Told, LowerIsUp, IsOpen
    <2>4. QED
      BY <2>2, <2>3
  <1>5. CASE g.state \in Negotiating \cup {"STARTING", "STOPPING"}
    BY <1>5 DEF Open, Guided, Told, LowerIsUp, IsOpen
  <1>6. QED
    BY <1>1, <1>2, <1>3, <1>4, <1>5, UnitBounds

LEMMA TerminateLayerFine ==
    ASSUME NEW g \in Fsm, Inv(g), g.state \in Negotiating \cup {"OPENED"},
           NEW next \in {"CLOSING", "STOPPING"}
    PROVE  LET h == TerminateLayer(g, next)
           IN  /\ h \in Fsm /\ h.unit = g.unit /\ Inv(h)
               /\ h.state \in IF next = "CLOSING" THEN {"CLOSING", "CLOSED"}
                                                  ELSE {"STOPPING", "STOPPED"}
  <1> DEFINE quiet == IF g.state = "OPENED" THEN Down(g) ELSE Untimeout(g)
             loaded == [quiet EXCEPT !.retransmits = MaxTermReq[g.unit]]
             req == NewRequest(loaded)
             sent == SData(req, "TermReq", req.reqid, NoOpt)
             done == IF next = "CLOSING" THEN "CLOSED" ELSE "STOPPED"
  <1>1. /\ quiet \in Fsm /\ quiet.unit = g.unit
        /\ quiet.timers = 0 /\ quiet.upper = 0
        /\ quiet.nakloops <= MaxNakLoops
    BY DownEffect, UntimeoutEffect DEF Inv
  <1> HIDE DEF quiet
  <1>2. /\ loaded \in Fsm /\ loaded.unit = g.unit
        /\ loaded.timers = 0 /\ loaded.upper = 0
        /\ loaded.nakloops <= MaxNakLoops
        /\ loaded.retransmits = MaxTermReq[g.unit]
    <2>1. loaded \in Fsm
      BY <1>1, Updates, UnitBounds
    <2>2. QED
      BY <1>1, <2>1 DEF Fsm
  <1> HIDE DEF loaded
  <1>3. /\ req \in Fsm /\ req.unit = g.unit
        /\ req.timers = 0 /\ req.upper = 0
        /\ req.nakloops <= MaxNakLoops
        /\ req.retransmits = MaxTermReq[g.unit]
    <2>1. req \in Fsm
      BY <1>2, NewRequestEffect
    <2>2. QED
      BY <1>2, <2>1 DEF NewRequest, Fsm
  <1> HIDE DEF req
  <1>4. req.reqid \in Ids
    BY <1>3, UnitBounds
  <1>5. /\ sent \in Fsm /\ sent.unit = g.unit
        /\ sent.timers = 0 /\ sent.upper = 0
        /\ sent.nakloops <= MaxNakLoops
        /\ sent.retransmits = MaxTermReq[g.unit]
    BY <1>3, <1>4, SDataEffect DEF Codes, Options
  <1>6. TerminateLayer(g, next) =
          IF sent.retransmits = 0
            THEN Finished(Goto(sent, done))
            ELSE Timeout([sent EXCEPT !.retransmits = @ - 1, !.state = next])
    BY <1>2 DEF TerminateLayer, quiet, loaded, req
  <1> HIDE DEF sent
  <1>7. CASE sent.retransmits = 0
    <2>1. LET h == Finished(Goto(sent, done))
          IN  /\ h \in Fsm /\ h.unit = g.unit /\ h.state = done
              /\ h.timers = 0 /\ h.upper = 0 /\ h.nakloops <= MaxNakLoops
      BY <1>5, GotoEffect, FinishedEffect
    <2>2. QED
      BY <1>6, <1>7, <2>1 DEF Inv
  <1>8. CASE sent.retransmits # 0
    <2> DEFINE less == [sent EXCEPT !.retransmits = @ - 1]
               moved == Goto(less, next)
    <2>1. /\ less \in Fsm /\ less.unit = g.unit
          /\ less.timers = 0 /\ less.upper = 0
          /\ less.nakloops <= MaxNakLoops
          /\ less.retransmits = MaxTermReq[g.unit] - 1
      <3>1. sent.retransmits - 1 \in Int
        BY <1>5, UnitBounds
      <3>2. less \in Fsm
        BY <1>5, <3>1, Updates
      <3>3. QED
        BY <1>5, <3>2 DEF Fsm
    <2>2. Timeout([sent EXCEPT !.retransmits = @ - 1, !.state = next])
            = Timeout(moved)
      BY DEF Goto
    <2> HIDE DEF less
    <2>3. /\ moved \in Fsm /\ moved.unit = g.unit /\ moved.state = next
          /\ moved.timers = 0 /\ moved.upper = 0
          /\ moved.nakloops <= MaxNakLoops
          /\ moved.retransmits = MaxTermReq[g.unit] - 1
      BY <2>1, GotoEffect
    <2> HIDE DEF moved
    <2>4. LET h == Timeout(moved)
          IN  /\ h \in Fsm /\ h.unit = g.unit /\ h.state = next
              /\ h.timers = 1 /\ h.upper = 0
              /\ h.nakloops <= MaxNakLoops
              /\ h.retransmits = MaxTermReq[g.unit] - 1
      BY <2>3, TimeoutEffect
    <2>5. MaxTermReq[g.unit] - 1 >= 0
      BY <1>5, <1>8, UnitBounds
    <2>6. Inv(Timeout(moved))
      BY <2>4, <2>5, UnitBounds DEF Inv
    <2>7. QED
      BY <1>6, <1>8, <2>2, <2>4, <2>6
  <1>9. QED
    BY <1>7, <1>8

LEMMA CloseFine ==
    ASSUME NEW g \in Fsm, Inv(g)
    PROVE  Guided(g, Close(g), LowerIsUp(g), FALSE)
  <1>1. CASE g.state \in {"STARTING", "STOPPED", "STOPPING"}
    BY <1>1, GotoEffect, UnitBounds
    DEF Close, Guided, Inv, Told, LowerIsUp, IsOpen
  <1>2. CASE g.state \in Negotiating \cup {"OPENED"}
    <2>1. Close(g) = TerminateLayer(g, "CLOSING")
      BY <1>2 DEF Close
    <2>2. QED
      BY <1>2, <2>1, TerminateLayerFine DEF Guided, Told, LowerIsUp, IsOpen
  <1>3. CASE g.state \in {"INITIAL", "CLOSED", "CLOSING"}
    BY <1>3 DEF Close, Guided, Told, LowerIsUp, IsOpen
  <1>4. QED
    BY <1>1, <1>2, <1>3, UnitBounds

LEMMA ProtRejectFine ==
    ASSUME NEW g \in Fsm, Inv(g)
    PROVE  Fine(g, ProtReject(g))
  <1>1. CASE g.state = "CLOSING"
    BY <1>1, GotoEffect, UntimeoutEffect, FinishedEffect, UnitBounds
    DEF ProtReject, Fine, Inv, Allowed, Told, LowerIsUp, IsOpen
  <1>2. CASE g.state \in {"CLOSED", "STOPPED"}
    BY <1>2, FinishedEffect, UnitBounds
    DEF ProtReject, Fine, Inv, Allowed, Told, LowerIsUp, IsOpen
  <1>3. CASE g.state \in Negotiating \cup {"STOPPING"}
    BY <1>3, GotoEffect, UntimeoutEffect, FinishedEffect, UnitBounds
    DEF ProtReject, Fine, Inv, Allowed, Told, LowerIsUp, IsOpen
  <1>4. CASE g.state = "OPENED"
    <2>1. ProtReject(g) = TerminateLayer(g, "STOPPING")
      BY <1>4 DEF ProtReject
    <2>2. QED
      BY <1>4, <2>1, TerminateLayerFine DEF Fine, Allowed, Told, LowerIsUp, IsOpen
  <1>5. CASE g.state \in {"INITIAL", "STARTING"}
    BY <1>5 DEF ProtReject, Fine, Allowed, Told
  <1>6. QED
    BY <1>1, <1>2, <1>3, <1>4, <1>5, UnitBounds

\* The callout entry is taken off the list before fsm_timeout runs.
LEMMA ExpireFine ==
    ASSUME NEW g \in Fsm, Inv(g), g.timers > 0
    PROVE  Fine(g, Expire(Untimeout(g)))
  <1> DEFINE u == Untimeout(g)
  <1>1. /\ u \in Fsm /\ u.unit = g.unit /\ u.state = g.state
        /\ u.timers = 0 /\ u.upper = 0 /\ u.nakloops = g.nakloops
        /\ u.seen_ack = g.seen_ack /\ u.retransmits = g.retransmits
        /\ g.state \in Waiting
    BY UntimeoutEffect, UnitBounds DEF Inv
  <1> SUFFICES Fine(g, Expire(u))
    OBVIOUS
  <1> HIDE DEF u
  <1>2. u.nakloops <= MaxNakLoops
    BY <1>1 DEF Inv
  <1>3. CASE g.state \in Terminating /\ g.retransmits <= 0
    <2> DEFINE done == IF g.state = "CLOSING" THEN "CLOSED" ELSE "STOPPED"
    <2>1. Expire(u) = Finished(Goto(u, done))
      BY <1>1, <1>3 DEF Expire, GiveUp
    <2>2. LET h == Finished(Goto(u, done))
          IN  /\ h \in Fsm /\ h.unit = g.unit /\ h.state = done
              /\ h.timers = 0 /\ h.upper = 0 /\ h.nakloops <= MaxNakLoops
      BY <1>1, <1>2, GotoEffect, FinishedEffect
    <2>3. QED
      BY <1>3, <2>1, <2>2 DEF Fine, Inv, Allowed, Told, LowerIsUp, IsOpen
  <1>4. CASE g.state \in Terminating /\ g.retransmits > 0
    <2> DEFINE req == NewRequest(u)
               less == [req EXCEPT !.retransmits = @ - 1]
               sent == SData(less, "TermReq", req.reqid, NoOpt)
    <2>1. /\ req \in Fsm /\ req.unit = g.unit /\ req.state = g.state
          /\ req.timers = 0 /\ req.upper = 0 /\ req.nakloops <= MaxNakLoops
          /\ req.retransmits = g.retransmits
      <3>1. req \in Fsm
        BY <1>1, NewRequestEffect
      <3>2. QED
        BY <1>1, <1>2, <3>1 DEF NewRequest, Fsm
    <2>2. Expire(u) = Timeout(sent)
      BY <1>1, <1>4, UnitBounds DEF Expire, ResendTermReq
    <2> HIDE DEF req
    <2>3. /\ less \in Fsm /\ less.unit = g.unit /\ less.state = g.state
          /\ less.timers = 0 /\ less.upper = 0 /\ less.nakloops <= MaxNakLoops
          /\ less.retransmits = g.retransmits - 1
      <3>1. req.retransmits - 1 \in Int
        BY <2>1, UnitBounds
      <3>2. less \in Fsm
        BY <2>1, <3>1, Updates
      <3>3. QED
        BY <2>1, <3>2 DEF Fsm
    <2>4. req.reqid \in Ids
      BY <2>1, UnitBounds
    <2> HIDE DEF less
    <2>5. /\ sent \in Fsm /\ sent.unit = g.unit /\ sent.state = g.state
          /\ sent.timers = 0 /\ sent.upper = 0 /\ sent.nakloops <= MaxNakLoops
          /\ sent.retransmits = g.retransmits - 1
      BY <2>3, <2>4, SDataEffect DEF Codes, Options
    <2> HIDE DEF sent
    <2>6. LET h == Timeout(sent)
          IN  /\ h \in Fsm /\ h.unit = g.unit /\ h.state = g.state
              /\ h.timers = 1 /\ h.upper = 0 /\ h.nakloops <= MaxNakLoops
              /\ h.retransmits = g.retransmits - 1
      BY <2>5, TimeoutEffect
    <2>7. Inv(Timeout(sent))
      BY <1>4, <2>6, UnitBounds DEF Inv
    <2>8. QED
      BY <1>4, <2>2, <2>6, <2>7 DEF Fine, Allowed, Told, LowerIsUp, IsOpen
  <1>5. CASE g.state \in Negotiating /\ g.retransmits <= 0
    <2>1. Expire(u) = IF Has(u, "passive") THEN Goto(u, "STOPPED")
                                           ELSE Finished(Goto(u, "STOPPED"))
      BY <1>1, <1>5 DEF Expire, GiveUp
    <2>2. /\ Expire(u) \in Fsm /\ Expire(u).unit = g.unit
          /\ Expire(u).state = "STOPPED"
          /\ Expire(u).timers = 0 /\ Expire(u).upper = 0
          /\ Expire(u).nakloops <= MaxNakLoops
      BY <1>1, <1>2, <2>1, GotoEffect, FinishedEffect
    <2>3. QED
      BY <1>5, <2>2 DEF Fine, Inv, Allowed, Told, LowerIsUp, IsOpen
  <1>6. CASE g.state \in Negotiating /\ g.retransmits > 0
    <2> DEFINE sent == SConfReq(u, TRUE)
               h == IF sent.state = "ACKRCVD" THEN Goto(sent, "REQSENT")
                                              ELSE sent
    <2>1. Expire(u) = h
      <3>1. Expire(u) = ResendConfReq(u)
        BY <1>1, <1>6, UnitBounds DEF Expire
      <3>2. QED
        BY <3>1 DEF ResendConfReq
    <2>2. /\ sent \in Fsm /\ sent.unit = g.unit /\ sent.state = g.state
          /\ sent.timers = 1 /\ sent.upper = 0
          /\ sent.nakloops <= u.nakloops
          /\ sent.retransmits = g.retransmits - 1
      <3>1. /\ sent \in Fsm /\ sent.unit = u.unit /\ sent.state = u.state
            /\ sent.timers = u.timers + 1 /\ sent.upper = u.upper
            /\ sent.nakloops <= u.nakloops
            /\ sent.retransmits = u.retransmits - 1
        BY <1>1, SConfReqEffect
      <3> HIDE DEF sent
      <3>2. QED
        BY <1>1, <3>1
    <2> HIDE DEF sent
    <2>3. /\ h \in Fsm /\ h.unit = g.unit
          /\ h.state \in {"REQSENT", "ACKSENT"}
          /\ h.timers = 1 /\ h.upper = 0
          /\ h.nakloops <= u.nakloops
          /\ h.retransmits = g.retransmits - 1
      BY <1>6, <2>2, GotoEffect
    <2> HIDE DEF h
    <2>4. h.nakloops <= MaxNakLoops
      BY <1>1, <1>2, <2>3, UnitBounds, BoundsAssumption
    <2>5. h.retransmits \in -1 .. MaxConfReq[h.unit]
      BY <1>6, <2>3, UnitBounds DEF Inv
    <2>6. Inv(h)
      BY <2>3, <2>4, <2>5 DEF Inv
    <2>7. QED
      BY <1>6, <2>1, <2>3, <2>6 DEF Fine, Allowed, Told, LowerIsUp, IsOpen
  <1>7. QED
    BY <1>1, <1>3, <1>4, <1>5, <1>6, UnitBounds

\* Leaving OPENED for a new negotiation
LEMMA RenegotiateFine ==
    ASSUME NEW g \in Fsm, g.timers = 0, g.upper = 1,
           g.nakloops <= MaxNakLoops
    PROVE  LET h == Renegotiate(g)
           IN  h \in Fsm /\ h.unit = g.unit /\ Inv(h) /\ h.state = "REQSENT"
  <1> DEFINE d == Down(g)
  <1>1. /\ d \in Fsm /\ d.unit = g.unit /\ d.timers = 0 /\ d.upper = 0
        /\ d.nakloops <= MaxNakLoops
    BY DownEffect
  <1>2. Renegotiate(g) = Goto(SConfReq(d, FALSE), "REQSENT")
    BY DEF Renegotiate
  <1> HIDE DEF d
  <1>3. QED
    BY <1>1, <1>2, RequestFine

LEMMA ReqCIEffect ==
    ASSUME NEW g \in Fsm, NEW v \in Options \cup {Garbage},
           NEW verdict \in Codes, verdict = "ConfAck" => v \in Options
    PROVE  LET h == ReqCI(g, v, verdict)
           IN  /\ h \in Fsm
               /\ h.state = g.state /\ h.unit = g.unit
               /\ h.timers = g.timers /\ h.upper = g.upper
               /\ h.seen_ack = g.seen_ack /\ h.retransmits = g.retransmits
               /\ h.nakloops = g.nakloops
  <1> DEFINE his == IF verdict = "ConfAck" THEN v ELSE NoOpt
             all == g.all_rejected \/ (g.unit \in Ccp /\ verdict = "ConfRej")
  <1>1. his \in Options /\ all \in BOOLEAN
    BY DEF Options, Fsm
  <1>2. ReqCI(g, v, verdict) = [g EXCEPT !.ho = his, !.all_rejected = all]
    BY DEF ReqCI
  <1> HIDE DEF his, all
  <1>3. [g EXCEPT !.ho = his, !.all_rejected = all] \in Fsm
    BY <1>1 DEF Fsm
  <1>4. QED
    BY <1>2, <1>3 DEF Fsm

LEMMA VerdictType ==
    ASSUME NEW g \in Fsm, NEW v \in Options \cup {Garbage},
           NEW r \in BOOLEAN
    PROVE  /\ Verdict(g, v, r) \in {"ConfAck", "ConfNak", "ConfRej"}
           /\ Verdict(g, v, r) = "ConfAck" => v \in Options
           /\ Verdict(g, v, r) = "ConfNak" => ~r
           /\ Reply(g, v, Verdict(g, v, r)) \in Options \cup {Garbage}
  <1>1. g.unit \in Units /\ Accepts[g.unit] \subseteq Values
        /\ Hint[g.unit] \in Values
    BY UnitsAssumption DEF Fsm
  <1>2. QED
    BY <1>1 DEF Verdict, Reply, Options

LEMMA AnswerFine ==
    ASSUME NEW g \in Fsm, Inv(g), g.state \in Negotiating,
           NEW i \in Ids, NEW v \in Options \cup {Garbage}
    PROVE  LET h == Answer(g, i, v)
           IN  /\ h \in Fsm /\ h.unit = g.unit /\ Inv(h)
               /\ h.state \in Negotiating \cup {"OPENED"}
  <1> DEFINE fedUp == g.nakloops >= MaxNakLoops
             verdict == Verdict(g, v, fedUp)
             noted == ReqCI(g, v, verdict)
             sent == SData(noted, verdict, i, Reply(g, v, verdict))
             agreed == IF g.state = "ACKRCVD"
                         THEN Up(Goto(Untimeout(sent), "OPENED"))
                         ELSE Goto(sent, "ACKSENT")
             differ == IF g.state = "ACKRCVD" THEN sent
                                              ELSE Goto(sent, "REQSENT")
             h == CASE verdict = "ConfAck" -> [agreed EXCEPT !.nakloops = 0]
                    [] verdict = "ConfNak" -> [differ EXCEPT !.nakloops = @ + 1]
                    [] OTHER               -> differ
  <1>1. Answer(g, i, v) = h
    BY DEF Answer
  <1>2. fedUp \in BOOLEAN /\ (~fedUp => g.nakloops < MaxNakLoops)
    BY UnitBounds, BoundsAssumption
  <1> HIDE DEF fedUp
  <1>3. /\ verdict \in {"ConfAck", "ConfNak", "ConfRej"}
        /\ verdict = "ConfAck" => v \in Options
        /\ verdict = "ConfNak" => ~fedUp
        /\ Reply(g, v, verdict) \in Options \cup {Garbage}
    BY <1>2, VerdictType
  <1> HIDE DEF verdict
  <1>4. noted \in Fsm /\ noted.unit = g.unit /\ noted.state = g.state
        /\ noted.timers = 1 /\ noted.upper = 0
        /\ noted.seen_ack = g.seen_ack /\ noted.retransmits = g.retransmits
        /\ noted.nakloops = g.nakloops
    <2>1. verdict \in Codes
      BY <1>3 DEF Codes
    <2>2. /\ noted \in Fsm
          /\ noted.state = g.state /\ noted.unit = g.unit
          /\ noted.timers = g.timers /\ noted.upper = g.upper
          /\ noted.seen_ack = g.seen_ack /\ noted.retransmits = g.retransmits
          /\ noted.nakloops = g.nakloops
      BY <1>3, <2>1, ReqCIEffect
    <2> HIDE DEF noted
    <2>3. QED
      BY <2>2 DEF Inv
  <1> HIDE DEF noted
  <1>5. sent \in Fsm /\ sent.unit = g.unit /\ sent.state = g.state
        /\ sent.timers = 1 /\ sent.upper = 0
        /\ sent.seen_ack = g.seen_ack /\ sent.retransmits = g.retransmits
        /\ sent.nakloops = g.nakloops
    <2>1. verdict \in Codes
      BY <1>3 DEF Codes
    <2>2. /\ sent \in Fsm
          /\ sent.state = noted.state /\ sent.unit = noted.unit
          /\ sent.timers = noted.timers /\ sent.upper = noted.upper
          /\ sent.seen_ack = noted.seen_ack
          /\ sent.retransmits = noted.retransmits
          /\ sent.nakloops = noted.nakloops
      BY <1>3, <1>4, <2>1, SDataEffect
    <2> HIDE DEF sent
    <2>3. QED
      BY <1>4, <2>2
  <1> HIDE DEF sent
  <1>6. g.nakloops <= MaxNakLoops /\ g.nakloops \in Nat
    BY UnitBounds DEF Inv
  <1>7. CASE verdict = "ConfAck"
    <2>1. /\ agreed \in Fsm /\ agreed.unit = g.unit
          /\ agreed.retransmits = g.retransmits
          /\ agreed.nakloops = g.nakloops
          /\ \/ /\ agreed.state = "OPENED" /\ agreed.seen_ack
                /\ agreed.timers = 0 /\ agreed.upper = 1
             \/ /\ agreed.state = "ACKSENT"
                /\ agreed.timers = 1 /\ agreed.upper = 0
      <3>1. CASE g.state = "ACKRCVD"
        BY <1>5, <3>1, UntimeoutEffect, GotoEffect, UpEffect DEF Inv
      <3>2. CASE g.state # "ACKRCVD"
        BY <1>5, <3>2, GotoEffect
      <3>3. QED
        BY <3>1, <3>2
    <2>2. h = [agreed EXCEPT !.nakloops = 0]
      BY <1>7
    <2> HIDE DEF agreed, h
    <2>3. h \in Fsm
      BY <2>1, <2>2, Updates
    <2>4. /\ h.unit = agreed.unit /\ h.state = agreed.state
          /\ h.retransmits = agreed.retransmits /\ h.timers = agreed.timers
          /\ h.upper = agreed.upper /\ h.seen_ack = agreed.seen_ack
          /\ h.nakloops = 0
      BY <2>1, <2>2 DEF Fsm
    <2>5. Inv(h)
      BY <2>1, <2>4, BoundsAssumption DEF Inv
    <2>6. QED
      BY <1>1, <2>1, <2>3, <2>4, <2>5
  <1>8. CASE verdict # "ConfAck"
    <2>1. /\ differ \in Fsm /\ differ.unit = g.unit
          /\ differ.retransmits = g.retransmits
          /\ differ.nakloops = g.nakloops
          /\ differ.timers = 1 /\ differ.upper = 0
          /\ differ.state \in {"REQSENT", "ACKRCVD"}
          /\ differ.state = "ACKRCVD" => differ.seen_ack
      BY <1>5, GotoEffect DEF Inv
    <2>2. h = IF verdict = "ConfNak" THEN [differ EXCEPT !.nakloops = @ + 1]
                                     ELSE differ
      BY <1>3, <1>8
    <2> HIDE DEF differ, h
    <2>3. /\ h \in Fsm /\ h.unit = g.unit
          /\ h.retransmits = g.retransmits
          /\ h.nakloops = (IF verdict = "ConfNak" THEN g.nakloops + 1
                                                  ELSE g.nakloops)
          /\ h.timers = 1 /\ h.upper = 0
          /\ h.state \in {"REQSENT", "ACKRCVD"}
          /\ h.state = "ACKRCVD" => h.seen_ack
      <3>1. CASE verdict = "ConfNak"
        <4>1. differ.nakloops + 1 \in Nat
          BY <1>6, <2>1
        <4>2. h \in Fsm
          BY <2>1, <2>2, <3>1, <4>1, Updates
        <4>3. QED
          BY <2>1, <2>2, <3>1, <4>2 DEF Fsm
      <3>2. CASE verdict # "ConfNak"
        BY <2>1, <2>2, <3>2
      <3>3. QED
        BY <3>1, <3>2
    <2>4. h.nakloops <= MaxNakLoops
      BY <1>2, <1>3, <1>6, <2>3, BoundsAssumption
    <2>5. Inv(h)
      BY <2>3, <2>4 DEF Inv
    <2>6. QED
      BY <1>1, <2>3, <2>5
  <1>9. QED
    BY <1>7, <1>8

\* An acknowledgement is only taken while it is the first answer, so that the
\* branches of ACKRCVD and OPENED need no consideration.
LEMMA AckedFine ==
    ASSUME NEW g \in Fsm, Inv(g), LowerIsUp(g), ~g.seen_ack, NEW i \in Ids
    PROVE  Fine(g, Acked(g, i))
  <1> DEFINE a == [g EXCEPT !.seen_ack = TRUE, !.rnakloops = 0]
             fresh == [a EXCEPT !.retransmits = MaxConfReq[g.unit]]
  <1>1. /\ a \in Fsm /\ a.unit = g.unit /\ a.state = g.state
        /\ a.timers = g.timers /\ a.upper = g.upper
        /\ a.retransmits = g.retransmits /\ a.nakloops = g.nakloops
        /\ a.seen_ack
    <2>1. [g EXCEPT !.seen_ack = TRUE] \in Fsm
      BY Updates
    <2>2. [[g EXCEPT !.seen_ack = TRUE] EXCEPT !.rnakloops = 0] \in Fsm
      BY <2>1, Updates
    <2>3. a \in Fsm
      BY <2>2
    <2>4. QED
      BY <2>3 DEF Fsm
  <1>2. g.state \notin {"ACKRCVD", "OPENED"}
    BY DEF Inv
  <1>3. Acked(g, i) =
          CASE g.state \in {"CLOSED", "STOPPED"} -> SData(a, "TermAck", i, NoOpt)
            [] g.state = "REQSENT" -> Goto(fresh, "ACKRCVD")
            [] g.state = "ACKSENT" -> Up(Goto(Untimeout(fresh), "OPENED"))
            [] OTHER -> a
    BY <1>2 DEF Acked
  <1> HIDE DEF a
  <1>4. /\ fresh \in Fsm /\ fresh.unit = g.unit /\ fresh.state = g.state
        /\ fresh.timers = g.timers /\ fresh.upper = g.upper
        /\ fresh.retransmits = MaxConfReq[g.unit]
        /\ fresh.nakloops = g.nakloops /\ fresh.seen_ack
    <2>1. fresh \in Fsm
      BY <1>1, UnitBounds, Updates
    <2>2. QED
      BY <1>1, <2>1 DEF Fsm
  <1> HIDE DEF fresh
  <1>5. CASE g.state \in {"CLOSED", "STOPPED"}
    <2>1. "TermAck" \in Codes /\ NoOpt \in Options \cup {Garbage}
      BY DEF Codes, Options
    <2>2. LET h == SData(a, "TermAck", i, NoOpt)
          IN  /\ h \in Fsm /\ h.state = a.state /\ h.unit = a.unit
              /\ h.timers = a.timers /\ h.upper = a.upper
              /\ h.nakloops = a.nakloops
      BY <1>1, <2>1, SDataEffect
    <2>3. Acked(g, i) = SData(a, "TermAck", i, NoOpt)
      BY <1>3, <1>5
    <2>4. QED
      BY <1>1, <1>5, <2>2, <2>3 DEF Fine, Inv, Allowed, Told, LowerIsUp, IsOpen
  <1>6. CASE g.state = "REQSENT"
    <2>1. LET h == Goto(fresh, "ACKRCVD")
          IN  /\ h \in Fsm /\ h.state = "ACKRCVD" /\ h.unit = g.unit
              /\ h.timers = 1 /\ h.upper = 0 /\ h.seen_ack
              /\ h.retransmits = MaxConfReq[g.unit]
              /\ h.nakloops = g.nakloops
      BY <1>4, <1>6, GotoEffect DEF Inv
    <2>2. Acked(g, i) = Goto(fresh, "ACKRCVD")
      BY <1>3, <1>6
    <2>3. QED
      BY <1>6, <2>1, <2>2, UnitBounds
      DEF Fine, Inv, Allowed, Told, LowerIsUp, IsOpen
  <1>7. CASE g.state = "ACKSENT"
    <2>1. LET h == Up(Goto(Untimeout(fresh), "OPENED"))
          IN  /\ h \in Fsm /\ h.state = "OPENED" /\ h.unit = g.unit
              /\ h.timers = 0 /\ h.upper = 1 /\ h.seen_ack
              /\ h.nakloops = g.nakloops
      BY <1>4, <1>7, UntimeoutEffect, GotoEffect, UpEffect DEF Inv
    <2>2. Acked(g, i) = Up(Goto(Untimeout(fresh), "OPENED"))
      BY <1>3, <1>7
    <2>3. QED
      BY <1>7, <2>1, <2>2 DEF Fine, Inv, Allowed, Told, LowerIsUp, IsOpen
  <1>8. CASE g.state \in Terminating
    <2>1. Acked(g, i) = a
      BY <1>3, <1>8
    <2>2. Inv(a)
      BY <1>1, <1>8 DEF Inv
    <2>3. QED
      BY <1>1, <1>8, <2>1, <2>2 DEF Fine, Allowed, Told, LowerIsUp, IsOpen
  <1>9. QED
    BY <1>2, <1>5, <1>6, <1>7, <1>8, UnitBounds DEF LowerIsUp

\* fsm_rconfnakrej after nakci or rejci changed the request
LEMMA TryAgainFine ==
    ASSUME NEW g \in Fsm, Inv(g), LowerIsUp(g), ~g.seen_ack,
           NEW i \in Ids, NEW cease \in BOOLEAN
    PROVE  Fine(g, TryAgain(g, i, cease))
  <1> DEFINE a == [g EXCEPT !.seen_ack = TRUE]
  <1>1. /\ a \in Fsm /\ a.unit = g.unit /\ a.state = g.state
        /\ a.timers = g.timers /\ a.upper = g.upper
        /\ a.retransmits = g.retransmits /\ a.nakloops = g.nakloops
        /\ a.seen_ack
    <2>1. a \in Fsm
      BY Updates
    <2>2. QED
      BY <2>1 DEF Fsm
  <1>2. g.state \notin {"ACKRCVD", "OPENED"}
    BY DEF Inv
  <1>3. TryAgain(g, i, cease) =
          CASE g.state \in {"CLOSED", "STOPPED"} -> SData(a, "TermAck", i, NoOpt)
            [] g.state \in {"REQSENT", "ACKSENT"} ->
                 IF cease THEN Goto(Untimeout(a), "STOPPED")
                          ELSE SConfReq(Untimeout(a), FALSE)
            [] OTHER -> a
    BY <1>2 DEF TryAgain
  <1> HIDE DEF a
  <1>4. CASE g.state \in {"CLOSED", "STOPPED"}
    <2>1. "TermAck" \in Codes /\ NoOpt \in Options \cup {Garbage}
      BY DEF Codes, Options
    <2>2. LET h == SData(a, "TermAck", i, NoOpt)
          IN  /\ h \in Fsm /\ h.state = a.state /\ h.unit = a.unit
              /\ h.timers = a.timers /\ h.upper = a.upper
              /\ h.nakloops = a.nakloops
      BY <1>1, <2>1, SDataEffect
    <2>3. TryAgain(g, i, cease) = SData(a, "TermAck", i, NoOpt)
      BY <1>3, <1>4
    <2>4. QED
      BY <1>1, <1>4, <2>2, <2>3 DEF Fine, Inv, Allowed, Told, LowerIsUp, IsOpen
  <1>5. CASE g.state \in {"REQSENT", "ACKSENT"}
    <2> DEFINE u == Untimeout(a)
    <2>1. /\ u \in Fsm /\ u.unit = g.unit /\ u.state = g.state
          /\ u.timers = 0 /\ u.upper = 0
          /\ u.nakloops = g.nakloops
      BY <1>1, <1>5, UntimeoutEffect DEF Inv
    <2>2. TryAgain(g, i, cease) = IF cease THEN Goto(u, "STOPPED")
                                           ELSE SConfReq(u, FALSE)
      BY <1>3, <1>5
    <2> HIDE DEF u
    <2>3. CASE cease
      <3>1. LET h == Goto(u, "STOPPED")
            IN  /\ h \in Fsm /\ h.unit = g.unit /\ h.state = "STOPPED"
                /\ h.timers = 0 /\ h.upper = 0 /\ h.nakloops = g.nakloops
        BY <2>1, GotoEffect
      <3>2. QED
        BY <1>5, <2>2, <2>3, <3>1
        DEF Fine, Inv, Allowed, Told, LowerIsUp, IsOpen
    <2>4. CASE ~cease
      <3> DEFINE h == SConfReq(u, FALSE)
      <3>1. /\ h \in Fsm /\ h.unit = u.unit /\ h.state = u.state
            /\ h.timers = u.timers + 1 /\ h.upper = u.upper
            /\ h.retransmits = MaxConfReq[u.unit] - 1
            /\ h.nakloops <= u.nakloops
        BY <2>1, SConfReqEffect
      <3>2. TryAgain(g, i, cease) = h
        BY <2>2, <2>4
      <3> HIDE DEF h
      <3>3. /\ h \in Fsm /\ h.unit = g.unit /\ h.state = g.state
            /\ h.timers = 1 /\ h.upper = 0
            /\ h.retransmits = MaxConfReq[h.unit] - 1
            /\ h.nakloops <= g.nakloops
        BY <2>1, <3>1
      <3>4. h.nakloops <= MaxNakLoops
        BY <3>3, UnitBounds, BoundsAssumption DEF Inv
      <3>5. h.retransmits \in -1 .. MaxConfReq[h.unit]
        BY <3>3, UnitBounds
      <3>6. Inv(h)
        BY <1>5, <3>3, <3>4, <3>5 DEF Inv
      <3>7. QED
        BY <1>5, <3>2, <3>3, <3>6 DEF Fine, Allowed, Told, LowerIsUp, IsOpen
    <2>5. QED
      BY <2>3, <2>4
  <1>6. CASE g.state \in Terminating
    <2>1. TryAgain(g, i, cease) = a
      BY <1>3, <1>6
    <2>2. Inv(a)
      BY <1>1, <1>6 DEF Inv
    <2>3. QED
      BY <1>1, <1>6, <2>1, <2>2 DEF Fine, Allowed, Told, LowerIsUp, IsOpen
  <1>7. QED
    BY <1>2, <1>4, <1>5, <1>6, UnitBounds DEF LowerIsUp

\* Counting the naks and changing the request touch nothing the invariant
\* speaks of.
LEMMA OptionsChange ==
    ASSUME NEW g \in Fsm, NEW n \in Nat, NEW v \in Options,
           NEW h \in {[g EXCEPT !.rnakloops = n], [g EXCEPT !.go = v]}
    PROVE  /\ h \in Fsm
           /\ h.state = g.state /\ h.unit = g.unit
           /\ h.seen_ack = g.seen_ack
           /\ Inv(g) => Inv(h)
  <1>1. h \in Fsm
    BY Updates
  <1>2. /\ h.state = g.state /\ h.unit = g.unit
        /\ h.timers = g.timers /\ h.upper = g.upper
        /\ h.seen_ack = g.seen_ack /\ h.retransmits = g.retransmits
        /\ h.nakloops = g.nakloops
    BY DEF Fsm
  <1>3. Inv(g) => Inv(h)
    BY <1>2 DEF Inv
  <1>4. QED
    BY <1>1, <1>2, <1>3

\* What is fine after such a change is fine before it.
LEMMA FineBefore ==
    ASSUME NEW g \in Fsm, NEW h \in Fsm, NEW k,
           h.state = g.state, h.unit = g.unit, Fine(h, k)
    PROVE  Fine(g, k)
  BY DEF Fine, Allowed, Told, LowerIsUp, IsOpen

\* nakci, and rejci when its option is one we asked for
LEMMA NakCIEffect ==
    ASSUME NEW g \in Fsm, Inv(g), NEW v \in Options, NEW r \in BOOLEAN
    PROVE  LET h == NakCI(g, v, r)
           IN  /\ h \in Fsm /\ h.state = g.state /\ h.unit = g.unit
               /\ h.seen_ack = g.seen_ack /\ Inv(h)
  <1> DEFINE try == IF g.go = NoOpt \/ v = NoOpt THEN g.go
                    ELSE IF r /\ g.unit \in Drops THEN NoOpt
                    ELSE IF v \in Adopts[g.unit] THEN v
                    ELSE g.go
  <1>1. NakCI(g, v, r) = IF g.state = "OPENED" THEN g
                                               ELSE [g EXCEPT !.go = try]
    BY DEF NakCI
  <1>2. try \in Options
    BY UnitBounds DEF Options
  <1> HIDE DEF try
  <1>3. QED
    BY <1>1, <1>2, OptionsChange

LEMMA RejCIEffect ==
    ASSUME NEW g \in Fsm, Inv(g), NEW v
    PROVE  LET h == RejCI(g, v)
           IN  /\ h \in Fsm /\ h.state = g.state /\ h.unit = g.unit
               /\ h.seen_ack = g.seen_ack /\ Inv(h)
  <1>1. NoOpt \in Options
    BY DEF Options
  <1>2. QED
    BY <1>1, OptionsChange DEF RejCI

LEMMA RConfNakFine ==
    ASSUME NEW g \in Fsm, Inv(g), LowerIsUp(g),
           NEW i \in Ids, NEW v \in Options \cup {Garbage}
    PROVE  Fine(g, RConfNak(g, i, v))
  <1> DEFINE loops == IF g.rnakloops >= MaxNakLoops THEN MaxNakLoops
                                                    ELSE g.rnakloops + 1
             c == [g EXCEPT !.rnakloops = loops]
             reject == loops >= MaxNakLoops
             k == NakCI(c, v, reject)
  <1>1. loops \in Nat
    BY BoundsAssumption DEF Fsm
  <1>2. RConfNak(g, i, v) =
          IF ~Expected(g, i) THEN g
          ELSE IF ~GoodNak(c, v) THEN c
          ELSE TryAgain(k, i, FALSE)
    BY DEF RConfNak
  <1> HIDE DEF loops, reject
  <1>3. /\ c \in Fsm /\ c.state = g.state /\ c.unit = g.unit
        /\ c.seen_ack = g.seen_ack /\ Inv(c)
    BY <1>1, Nothing, OptionsChange
  <1> HIDE DEF c
  <1>4. CASE ~Expected(g, i)
    BY <1>2, <1>4 DEF Fine, Allowed, Told
  <1>5. CASE Expected(g, i) /\ ~GoodNak(c, v)
    BY <1>2, <1>3, <1>5 DEF Fine, Allowed, Told, LowerIsUp, IsOpen
  <1>6. CASE Expected(g, i) /\ GoodNak(c, v)
    <2>1. /\ k \in Fsm /\ k.state = g.state /\ k.unit = g.unit
          /\ k.seen_ack = g.seen_ack /\ Inv(k)
      <3>1. v \in Options
        BY <1>6 DEF GoodNak
      <3>2. reject \in BOOLEAN
        BY DEF reject
      <3>3. /\ k \in Fsm /\ k.state = c.state /\ k.unit = c.unit
            /\ k.seen_ack = c.seen_ack /\ Inv(k)
        BY <1>3, <3>1, <3>2, NakCIEffect
      <3> HIDE DEF k
      <3>4. QED
        BY <1>3, <3>3
    <2> HIDE DEF k
    <2>2. ~k.seen_ack /\ LowerIsUp(k)
      BY <1>6, <2>1 DEF Expected, LowerIsUp
    <2>3. Fine(k, TryAgain(k, i, FALSE))
      BY <2>1, <2>2, TryAgainFine
    <2>4. QED
      BY <1>2, <1>6, <2>1, <2>3, FineBefore
  <1>7. QED
    BY <1>4, <1>5, <1>6

LEMMA RConfRejFine ==
    ASSUME NEW g \in Fsm, Inv(g), LowerIsUp(g),
           NEW i \in Ids, NEW v \in Options \cup {Garbage}
    PROVE  Fine(g, RConfRej(g, i, v))
  <1> DEFINE c == [g EXCEPT !.rnakloops = 0]
             cease == CeaseRequests(c, v)
             k == RejCI(c, v)
  <1>1. RConfRej(g, i, v) =
          IF ~Expected(g, i) THEN g
          ELSE IF ~GoodRej(c, v) THEN c
          ELSE TryAgain(k, i, cease)
    BY DEF RConfRej
  <1>2. /\ c \in Fsm /\ c.state = g.state /\ c.unit = g.unit
        /\ c.seen_ack = g.seen_ack /\ Inv(c)
    BY Nothing, OptionsChange
  <1>3. cease \in BOOLEAN
    BY <1>2 DEF CeaseRequests, Fsm
  <1> HIDE DEF c, cease
  <1>4. CASE ~Expected(g, i)
    BY <1>1, <1>4 DEF Fine, Allowed, Told
  <1>5. CASE Expected(g, i) /\ ~GoodRej(c, v)
    BY <1>1, <1>2, <1>5 DEF Fine, Allowed, Told, LowerIsUp, IsOpen
  <1>6. CASE Expected(g, i) /\ GoodRej(c, v)
    <2>1. /\ k \in Fsm /\ k.state = c.state /\ k.unit = c.unit
          /\ k.seen_ack = c.seen_ack /\ Inv(k)
      BY <1>2, RejCIEffect
    <2> HIDE DEF k
    <2>2. ~k.seen_ack /\ LowerIsUp(k)
      BY <1>2, <1>6, <2>1 DEF Expected, LowerIsUp
    <2>3. Fine(k, TryAgain(k, i, cease))
      BY <1>3, <2>1, <2>2, TryAgainFine
    <2>4. QED
      BY <1>1, <1>2, <1>6, <2>1, <2>3, FineBefore
  <1>7. QED
    BY <1>4, <1>5, <1>6

LEMMA RConfAckFine ==
    ASSUME NEW g \in Fsm, Inv(g), LowerIsUp(g),
           NEW i \in Ids, NEW v \in Options \cup {Garbage}
    PROVE  Fine(g, RConfAck(g, i, v))
  <1>1. CASE Expected(g, i) /\ AckCI(g, v)
    BY <1>1, AckedFine DEF RConfAck, Expected
  <1>2. CASE ~(Expected(g, i) /\ AckCI(g, v))
    BY <1>2 DEF RConfAck, Fine, Allowed, Told
  <1>3. QED
    BY <1>1, <1>2

\* Sending a frame changes nothing the invariant or the contract speaks of.
LEMMA SendFine ==
    ASSUME NEW g \in Fsm, NEW h \in Fsm, Fine(g, h), NEW c \in Codes,
           NEW i \in Ids, NEW v \in Options \cup {Garbage}
    PROVE  Fine(g, SData(h, c, i, v))
  <1> DEFINE k == SData(h, c, i, v)
  <1>1. /\ k \in Fsm
        /\ k.state = h.state /\ k.unit = h.unit
        /\ k.timers = h.timers /\ k.upper = h.upper
        /\ k.seen_ack = h.seen_ack /\ k.retransmits = h.retransmits
        /\ k.nakloops = h.nakloops
    BY SDataEffect
  <1> HIDE DEF k
  <1>2. Inv(k)
    BY <1>1 DEF Fine, Inv
  <1>3. Allowed(g, k)
    BY <1>1 DEF Fine, Allowed, Told, LowerIsUp, IsOpen
  <1>4. QED
    BY <1>1, <1>2, <1>3 DEF Fine, k

\* A function that does nothing is fine.
LEMMA Stays == ASSUME NEW g \in Fsm, Inv(g) PROVE Fine(g, g)
  BY DEF Fine, Allowed, Told

LEMMA RConfReqFine ==
    ASSUME NEW g \in Fsm, Inv(g), LowerIsUp(g),
           NEW i \in Ids, NEW v \in Options \cup {Garbage}
    PROVE  Fine(g, RConfReq(g, i, v))
  <1>1. CASE g.state = "CLOSED"
    <2>1. RConfReq(g, i, v) = SData(g, "TermAck", i, NoOpt)
      BY <1>1 DEF RConfReq
    <2>2. "TermAck" \in Codes
      BY DEF Codes
    <2>3. QED
      BY <2>1, <2>2, Stays, Nothing, SendFine
  <1>2. CASE g.state \in Terminating
    BY <1>2, Stays DEF RConfReq
  <1>3. CASE g.state = "OPENED"
    <2> DEFINE r == Renegotiate(g)
    <2>1. r \in Fsm /\ r.unit = g.unit /\ Inv(r) /\ r.state = "REQSENT"
      BY <1>3, RenegotiateFine DEF Inv
    <2>2. RConfReq(g, i, v) = Answer(r, i, v)
      BY <1>3 DEF RConfReq
    <2> HIDE DEF r
    <2>3. LET h == Answer(r, i, v)
          IN  /\ h \in Fsm /\ h.unit = r.unit /\ Inv(h)
              /\ h.state \in Negotiating \cup {"OPENED"}
      BY <2>1, AnswerFine
    <2>4. QED
      BY <1>3, <2>1, <2>2, <2>3 DEF Fine, Allowed, Told, LowerIsUp, IsOpen
  <1>4. CASE g.state = "STOPPED"
    <2> DEFINE r == Goto(SConfReq(g, FALSE), "REQSENT")
    <2>1. r \in Fsm /\ r.unit = g.unit /\ Inv(r) /\ r.state = "REQSENT"
      BY <1>4, RequestFine DEF Inv
    <2>2. RConfReq(g, i, v) = Answer(r, i, v)
      BY <1>4 DEF RConfReq
    <2> HIDE DEF r
    <2>3. LET h == Answer(r, i, v)
          IN  /\ h \in Fsm /\ h.unit = r.unit /\ Inv(h)
              /\ h.state \in Negotiating \cup {"OPENED"}
      BY <2>1, AnswerFine
    <2>4. QED
      BY <1>4, <2>1, <2>2, <2>3 DEF Fine, Allowed, Told, LowerIsUp, IsOpen
  <1>5. CASE g.state \in Negotiating
    <2>1. RConfReq(g, i, v) = Answer(g, i, v)
      BY <1>5 DEF RConfReq
    <2>2. LET h == Answer(g, i, v)
          IN  /\ h \in Fsm /\ h.unit = g.unit /\ Inv(h)
              /\ h.state \in Negotiating \cup {"OPENED"}
      BY <1>5, AnswerFine
    <2>3. QED
      BY <1>5, <2>1, <2>2 DEF Fine, Allowed, Told, LowerIsUp, IsOpen
  <1>6. QED
    BY <1>1, <1>2, <1>3, <1>4, <1>5, UnitBounds DEF LowerIsUp

LEMMA RTermReqFine ==
    ASSUME NEW g \in Fsm, Inv(g), LowerIsUp(g), NEW i \in Ids
    PROVE  Fine(g, RTermReq(g, i))
  <1> DEFINE last == [g EXCEPT !.retransmits = 0]
             stop == Goto(last, "STOPPING")
             k == IF g.state \in {"ACKRCVD", "ACKSENT"} THEN Goto(g, "REQSENT")
                  ELSE IF g.state = "OPENED" THEN Timeout(Down(stop))
                  ELSE g
  <1>1. RTermReq(g, i) = SData(k, "TermAck", i, NoOpt)
    <2>1. stop = [g EXCEPT !.retransmits = 0, !.state = "STOPPING"]
      BY DEF Goto
    <2> HIDE DEF stop
    <2>2. CASE g.state \in {"ACKRCVD", "ACKSENT"}
      BY <2>2 DEF RTermReq
    <2>3. CASE g.state = "OPENED"
      BY <2>1, <2>3 DEF RTermReq
    <2>4. CASE g.state \notin {"ACKRCVD", "ACKSENT", "OPENED"}
      BY <2>4 DEF RTermReq
    <2>5. QED
      BY <2>2, <2>3, <2>4
  <1>2. Fine(g, k)
    <2>1. CASE g.state \in {"ACKRCVD", "ACKSENT"}
      BY <2>1, GotoEffect, UnitBounds
      DEF Fine, Inv, Allowed, Told, LowerIsUp, IsOpen
    <2>2. CASE g.state = "OPENED"
      <3>1. /\ last \in Fsm /\ last.unit = g.unit
            /\ last.timers = 0 /\ last.upper = 1
            /\ last.nakloops = g.nakloops /\ last.retransmits = 0
        <4>1. last \in Fsm
          BY Updates
        <4>2. QED
          BY <2>2, <4>1 DEF Fsm, Inv
      <3> HIDE DEF last
      <3>2. LET h == Timeout(Down(stop))
            IN  /\ h \in Fsm /\ h.unit = g.unit /\ h.state = "STOPPING"
                /\ h.timers = 1 /\ h.upper = 0
                /\ h.nakloops = g.nakloops /\ h.retransmits = 0
        BY <3>1, GotoEffect, DownEffect, TimeoutEffect
      <3>3. k = Timeout(Down(stop))
        BY <2>2
      <3> HIDE DEF k, stop
      <3>4. QED
        BY <2>2, <3>2, <3>3 DEF Fine, Inv, Allowed, Told, LowerIsUp, IsOpen
    <2>3. CASE g.state \notin {"ACKRCVD", "ACKSENT", "OPENED"}
      BY <2>3, Stays
    <2>4. QED
      BY <2>1, <2>2, <2>3
  <1> HIDE DEF k
  <1>3. k \in Fsm /\ "TermAck" \in Codes
    BY <1>2 DEF Fine, Codes
  <1>4. QED
    BY <1>1, <1>2, <1>3, Nothing, SendFine

LEMMA RTermAckFine ==
    ASSUME NEW g \in Fsm, Inv(g), LowerIsUp(g)
    PROVE  Fine(g, RTermAck(g))
  <1>1. CASE g.state = "CLOSING"
    BY <1>1, GotoEffect, UntimeoutEffect, FinishedEffect, UnitBounds
    DEF RTermAck, Fine, Inv, Allowed, Told, LowerIsUp, IsOpen
  <1>2. CASE g.state = "STOPPING"
    BY <1>2, GotoEffect, UntimeoutEffect, FinishedEffect, UnitBounds
    DEF RTermAck, Fine, Inv, Allowed, Told, LowerIsUp, IsOpen
  <1>3. CASE g.state = "ACKRCVD"
    BY <1>3, GotoEffect, UnitBounds
    DEF RTermAck, Fine, Inv, Allowed, Told, LowerIsUp, IsOpen
  <1>4. CASE g.state = "OPENED"
    <2>1. RTermAck(g) = Renegotiate(g)
      BY <1>4 DEF RTermAck
    <2>2. LET h == Renegotiate(g)
          IN  h \in Fsm /\ h.unit = g.unit /\ Inv(h) /\ h.state = "REQSENT"
      BY <1>4, RenegotiateFine DEF Inv
    <2>3. QED
      BY <1>4, <2>1, <2>2 DEF Fine, Allowed, Told, LowerIsUp, IsOpen
  <1>5. CASE g.state \in {"CLOSED", "STOPPED", "REQSENT", "ACKSENT"}
    BY <1>5, Stays DEF RTermAck
  <1>6. QED
    BY <1>1, <1>2, <1>3, <1>4, <1>5, UnitBounds DEF LowerIsUp

LEMMA RCodeRejFine ==
    ASSUME NEW g \in Fsm, Inv(g), LowerIsUp(g)
    PROVE  Fine(g, RCodeRej(g))
  <1>1. CASE g.state = "ACKRCVD"
    BY <1>1, GotoEffect, UnitBounds
    DEF RCodeRej, Fine, Inv, Allowed, Told, LowerIsUp, IsOpen
  <1>2. CASE g.state # "ACKRCVD"
    BY <1>2, Stays DEF RCodeRej
  <1>3. QED
    BY <1>1, <1>2

LEMMA RUnknownFine ==
    ASSUME NEW g \in Fsm, Inv(g), LowerIsUp(g)
    PROVE  Fine(g, RUnknown(g))
  <1> DEFINE k == [g EXCEPT !.id = NextId(g)]
  <1>1. NextId(g) \in Ids
    BY NextIdType
  <1>2. k \in Fsm
    BY <1>1 DEF Fsm
  <1>3. /\ k.state = g.state /\ k.unit = g.unit
        /\ k.timers = g.timers /\ k.upper = g.upper
        /\ k.seen_ack = g.seen_ack /\ k.retransmits = g.retransmits
        /\ k.nakloops = g.nakloops
    BY DEF Fsm
  <1>4. RUnknown(g) = SData(k, "CodeRej", NextId(g), NoOpt)
    BY DEF RUnknown
  <1> HIDE DEF k
  <1>5. Fine(g, k)
    BY <1>2, <1>3 DEF Fine, Inv, Allowed, Told, LowerIsUp, IsOpen
  <1>6. "CodeRej" \in Codes
    BY DEF Codes
  <1>7. QED
    BY <1>1, <1>2, <1>4, <1>5, <1>6, Nothing, SendFine

LEMMA InputFine ==
    ASSUME NEW g \in Fsm, Inv(g), NEW m \in Frame
    PROVE  Fine(g, Input(g, m))
  <1>1. m.code \in Codes /\ m.id \in Ids /\ m.val \in Options \cup {Garbage}
    BY DEF Frame
  <1>2. CASE ~LowerIsUp(g)
    BY <1>2, Stays DEF Input, LowerIsUp
  <1>3. CASE LowerIsUp(g)
    <2>1. Input(g, m) =
            CASE m.code = "ConfReq" -> RConfReq(g, m.id, m.val)
              [] m.code = "ConfAck" -> RConfAck(g, m.id, m.val)
              [] m.code = "ConfNak" -> RConfNak(g, m.id, m.val)
              [] m.code = "ConfRej" -> RConfRej(g, m.id, m.val)
              [] m.code = "TermReq" -> RTermReq(g, m.id)
              [] m.code = "TermAck" -> RTermAck(g)
              [] m.code = "CodeRej" -> RCodeRej(g)
              [] OTHER              -> RUnknown(g)
      BY <1>3 DEF Input, LowerIsUp
    <2>2. /\ Fine(g, RConfReq(g, m.id, m.val))
          /\ Fine(g, RConfAck(g, m.id, m.val))
          /\ Fine(g, RConfNak(g, m.id, m.val))
          /\ Fine(g, RConfRej(g, m.id, m.val))
          /\ Fine(g, RTermReq(g, m.id))
          /\ Fine(g, RTermAck(g))
          /\ Fine(g, RCodeRej(g))
          /\ Fine(g, RUnknown(g))
      BY <1>1, <1>3, RConfReqFine, RConfAckFine, RConfNakFine, RConfRejFine,
         RTermReqFine, RTermAckFine, RCodeRejFine, RUnknownFine
    <2>3. QED
      BY <1>1, <2>1, <2>2 DEF Codes
  <1>4. QED
    BY <1>2, <1>3
-----------------------------------------------------------------------------
(***************************************************************************)
(* The finished call of a layer that comes to rest.                        *)
(***************************************************************************)

\* g comes to rest, if at all, with a finished call and no other.
Reported(g) == g.state \in {"CLOSED", "STOPPED"} => g.calls = <<"finished">>

LEMMA FinishedReports ==
    ASSUME NEW g \in Fsm, g.calls = <<>>, NEW s \in States
    PROVE  /\ Reported(Finished(Goto(Untimeout(g), s)))
           /\ Reported(Finished(Goto(g, s)))
  <1>1. Append(<<>>, "finished") = <<"finished">>
    OBVIOUS
  <1>2. /\ Finished(Goto(Untimeout(g), s)).calls = Append(g.calls, "finished")
        /\ Finished(Goto(g, s)).calls = Append(g.calls, "finished")
    BY DEF Finished, Goto, Untimeout, Fsm
  <1>3. QED
    BY <1>1, <1>2 DEF Reported

LEMMA TerminatingReports ==
    ASSUME NEW g, g.state \in Terminating PROVE Reported(g)
  BY DEF Terminating, Reported

\* The timer: nothing but giving up leaves the state.
LEMMA ExpireReports ==
    ASSUME NEW g \in Fsm, g.state \in Terminating, g.calls = <<>>
    PROVE  Reported(Expire(g))
  <1>1. g.state \notin Negotiating /\ {"CLOSED", "STOPPED"} \subseteq States
    BY DEF Terminating, Negotiating, States
  <1>2. CASE g.retransmits <= 0
    <2>1. Expire(g) = GiveUp(g)
      BY <1>2 DEF Expire
    <2>2. GiveUp(g) = Finished(Goto(g, IF g.state = "CLOSING" THEN "CLOSED"
                                                              ELSE "STOPPED"))
      BY <1>1 DEF GiveUp
    <2>3. QED
      BY <1>1, <2>1, <2>2, FinishedReports
  <1>3. CASE ~(g.retransmits <= 0)
    <2>1. Expire(g) = ResendTermReq(g)
      BY <1>1, <1>3 DEF Expire
    <2>2. ResendTermReq(g).state = g.state
      BY DEF ResendTermReq, NewRequest, SData, Timeout, Fsm
    <2>3. QED
      BY <2>1, <2>2, TerminatingReports
  <1>4. QED
    BY <1>2, <1>3

LEMMA ProtRejectReports ==
    ASSUME NEW g \in Fsm, g.state \in Terminating, g.calls = <<>>
    PROVE  Reported(ProtReject(g))
  <1>1. ProtReject(g) =
          Finished(Goto(Untimeout(g), IF g.state = "CLOSING" THEN "CLOSED"
                                                             ELSE "STOPPED"))
    BY DEF ProtReject, Terminating
  <1>2. {"CLOSED", "STOPPED"} \subseteq States
    BY DEF States
  <1>3. QED
    BY <1>1, <1>2, FinishedReports

\* A frame: nothing but a Terminate-Ack leaves the state.
LEMMA InputReports ==
    ASSUME NEW g \in Fsm, Inv(g), g.state \in Terminating, g.calls = <<>>,
           NEW m \in Frame
    PROVE  Reported(Input(g, m))
  <1>1. {"CLOSED", "STOPPED"} \subseteq States
    BY DEF States
  <1>2. RConfReq(g, m.id, m.val).state = g.state
    BY DEF RConfReq, Terminating
  <1>3. \A h \in Fsm : h.state = g.state =>
          /\ Acked(h, m.id).state = g.state
          /\ \A c \in BOOLEAN : TryAgain(h, m.id, c).state = g.state
    BY DEF Acked, TryAgain, Terminating, Negotiating, Fsm
  <1>4. RConfAck(g, m.id, m.val).state = g.state
    BY <1>3 DEF RConfAck
  <1>5. RTermReq(g, m.id).state = g.state
    BY DEF RTermReq, SData, Terminating, Fsm
  <1>6. Reported(RTermAck(g))
    <2>1. RTermAck(g) =
            Finished(Goto(Untimeout(g), IF g.state = "CLOSING" THEN "CLOSED"
                                                               ELSE "STOPPED"))
      BY DEF RTermAck, Terminating
    <2>2. QED
      BY <1>1, <2>1, FinishedReports
  <1>7. RCodeRej(g).state = g.state
    BY DEF RCodeRej, Terminating
  <1>8. RUnknown(g).state = g.state
    BY DEF RUnknown, SData, Fsm
  <1>9. RConfNak(g, m.id, m.val).state = g.state
    <2> DEFINE loops == IF g.rnakloops >= MaxNakLoops THEN MaxNakLoops
                                                      ELSE g.rnakloops + 1
               c == [g EXCEPT !.rnakloops = loops]
               reject == loops >= MaxNakLoops
               k == NakCI(c, m.val, reject)
    <2>1. RConfNak(g, m.id, m.val) =
            IF ~Expected(g, m.id) THEN g
            ELSE IF ~GoodNak(c, m.val) THEN c
            ELSE TryAgain(k, m.id, FALSE)
      BY DEF RConfNak
    <2>2. loops \in Nat
      BY BoundsAssumption DEF Fsm
    <2> HIDE DEF loops, reject
    <2>3. c \in Fsm /\ c.state = g.state /\ Inv(c)
      BY <2>2, Nothing, OptionsChange
    <2> HIDE DEF c
    <2>4. ASSUME GoodNak(c, m.val) PROVE k \in Fsm /\ k.state = g.state
      <3>1. m.val \in Options
        BY <2>4 DEF GoodNak, Frame
      <3>2. reject \in BOOLEAN
        BY DEF reject
      <3>3. k \in Fsm /\ k.state = c.state
        BY <2>3, <3>1, <3>2, NakCIEffect
      <3> HIDE DEF k
      <3>4. QED
        BY <2>3, <3>3
    <2> HIDE DEF k
    <2>5. QED
      BY <1>3, <2>1, <2>3, <2>4
  <1>10. RConfRej(g, m.id, m.val).state = g.state
    <2> DEFINE c == [g EXCEPT !.rnakloops = 0]
               k == RejCI(c, m.val)
    <2>1. RConfRej(g, m.id, m.val) =
            IF ~Expected(g, m.id) THEN g
            ELSE IF ~GoodRej(c, m.val) THEN c
            ELSE TryAgain(k, m.id, CeaseRequests(c, m.val))
      BY DEF RConfRej
    <2>2. c \in Fsm /\ c.state = g.state /\ Inv(c)
      BY Nothing, OptionsChange
    <2>3. CeaseRequests(c, m.val) \in BOOLEAN
      BY <2>2 DEF CeaseRequests, Fsm
    <2> HIDE DEF c
    <2>4. k \in Fsm /\ k.state = g.state
      BY <2>2, RejCIEffect
    <2> HIDE DEF k
    <2>5. QED
      BY <1>3, <2>1, <2>2, <2>3, <2>4
  <1>11. g.state \notin {"INITIAL", "STARTING"}
    BY DEF Terminating
  <1>12. QED
    BY <1>2, <1>4, <1>5, <1>6, <1>7, <1>8, <1>9, <1>10, <1>11, TerminatingReports
    DEF Input

-----------------------------------------------------------------------------
(***************************************************************************)
(* The up and down calls.  A function that enters OPENED calls up, one     *)
(* that leaves it calls down, and no other function calls either; the      *)
(* options stay what they are while the fsm stays open.                    *)
(***************************************************************************)
Calls(g) == {g.calls[i] : i \in DOMAIN g.calls}

Candid(g, h) ==
    /\ "up" \in Calls(h) <=> g.state # "OPENED" /\ h.state = "OPENED"
    /\ "down" \in Calls(h) <=> g.state = "OPENED" /\ h.state # "OPENED"
    /\ g.state = "OPENED" /\ h.state = "OPENED" => h.go = g.go /\ h.ho = g.ho

LEMMA NoCalls == ASSUME NEW g, g.calls = <<>> PROVE Calls(g) = {}
  BY DEF Calls

LEMMA OneMoreCall ==
    ASSUME NEW g \in Fsm, NEW h, NEW c \in Callbacks, h.calls = Append(g.calls, c)
    PROVE  Calls(h) = Calls(g) \cup {c}
  <1>1. g.calls \in Seq(Callbacks)
    BY DEF Fsm
  <1>2. Append(g.calls, c) \in Seq(Callbacks)
    BY <1>1
  <1>3. /\ DOMAIN g.calls = 1 .. Len(g.calls) /\ Len(g.calls) \in Nat
        /\ DOMAIN Append(g.calls, c) = 1 .. Len(g.calls) + 1
    BY <1>1, <1>2
  <1>4. \A i \in 1 .. Len(g.calls) : Append(g.calls, c)[i] = g.calls[i]
    BY <1>1
  <1>5. Append(g.calls, c)[Len(g.calls) + 1] = c
    BY <1>1
  <1>6. QED
    BY <1>3, <1>4, <1>5 DEF Calls

\* The functions that call nobody
LEMMA Mute ==
    ASSUME NEW g \in Fsm
    PROVE  /\ \A q \in States : Goto(g, q).calls = g.calls
           /\ Timeout(g).calls = g.calls
           /\ Untimeout(g).calls = g.calls
           /\ \A c, i, v : SData(g, c, i, v).calls = g.calls
           /\ NewRequest(g).calls = g.calls
           /\ Begin(g).calls = g.calls
           /\ \A r \in BOOLEAN : SConfReq(g, r).calls = g.calls
  <1>1. \A r \in BOOLEAN : SConfReq(g, r).calls = g.calls
    BY DEF SConfReq, Timeout, SData, NewRequest, ResetCI, Fsm
  <1>2. SConfReq(g, FALSE) \in Fsm
    BY SConfReqEffect
  <1>3. Begin(g).calls = g.calls
    BY <1>1, <1>2 DEF Begin, Goto, Fsm
  <1>4. QED
    BY <1>1, <1>3 DEF Goto, Timeout, Untimeout, SData, NewRequest, Fsm

LEMMA CallsOfPrimitives ==
    ASSUME NEW g \in Fsm
    PROVE  /\ Calls(Up(g)) = Calls(g) \cup {"up"}
           /\ Calls(Down(g)) = Calls(g) \cup {"down"}
           /\ Calls(Starting(g)) = Calls(g) \cup {"starting"}
           /\ Calls(Finished(g)) = Calls(g) \cup {"finished"}
  <1>1. {"up", "down", "starting", "finished"} \subseteq Callbacks
    BY DEF Callbacks
  <1>2. /\ Up(g).calls = Append(g.calls, "up")
        /\ Down(g).calls = Append(g.calls, "down")
        /\ Starting(g).calls = Append(g.calls, "starting")
        /\ Finished(g).calls = Append(g.calls, "finished")
    BY DEF Up, Down, Starting, Finished, Fsm
  <1>3. QED
    BY <1>1, <1>2, OneMoreCall

LEMMA LowerupCandid ==
    ASSUME NEW g \in Fsm, g.calls = <<>>
    PROVE  LET h == Lowerup(g)
           IN  /\ Calls(h) = {} /\ Candid(g, h)
               /\ h.state = "OPENED" <=> g.state = "OPENED"
  <1>1. CASE g.state \in {"INITIAL", "STARTING"}
    <2>1. Lowerup(g).calls = <<>>
      BY <1>1, Mute DEF Lowerup
    <2>2. Begin(g).state # "OPENED"
      <3>1. Goto(g, "STOPPED").state = "STOPPED"
        BY GotoEffect
      <3>2. Goto(SConfReq(g, FALSE), "REQSENT").state = "REQSENT"
        BY RequestEffect
      <3>3. QED
        BY <3>1, <3>2 DEF Begin
    <2>3. Lowerup(g).state # "OPENED"
      BY <1>1, <2>2, GotoEffect DEF Lowerup
    <2>4. QED
      BY <1>1, <2>1, <2>3, NoCalls DEF Candid
  <1>2. CASE g.state \notin {"INITIAL", "STARTING"}
    <2>1. Lowerup(g) = g
      BY <1>2 DEF Lowerup
    <2>2. QED
      BY <2>1, NoCalls DEF Candid
  <1>3. QED
    BY <1>1, <1>2

LEMMA LowerdownCandid ==
    ASSUME NEW g \in Fsm, g.calls = <<>>
    PROVE  LET h == Lowerdown(g)
           IN  /\ Candid(g, h) /\ "finished" \notin Calls(h)
               /\ h.state \in {"INITIAL", "STARTING"}
  <1>1. Calls(g) = {}
    BY NoCalls
  <1>2. CASE g.state = "CLOSED"
    <2>1. Lowerdown(g) = Goto(g, "INITIAL")
      BY <1>2 DEF Lowerdown
    <2>2. Goto(g, "INITIAL").calls = <<>> /\ Goto(g, "INITIAL").state = "INITIAL"
      BY GotoEffect, Mute
    <2>3. Calls(Goto(g, "INITIAL")) = {}
      BY <2>2, NoCalls
    <2>4. QED
      BY <1>2, <2>1, <2>2, <2>3 DEF Candid
  <1>3. CASE g.state = "STOPPED"
    <2>1. Lowerdown(g) = Starting(Goto(g, "STARTING"))
      BY <1>3 DEF Lowerdown
    <2> DEFINE k == Goto(g, "STARTING")
    <2>2. k \in Fsm /\ k.state = "STARTING" /\ k.calls = <<>>
      BY GotoEffect, Mute
    <2> HIDE DEF k
    <2>3. Calls(Starting(k)) = {"starting"} /\ Starting(k).state = "STARTING"
      BY <2>2, NoCalls, StartingEffect, CallsOfPrimitives
    <2>4. QED
      BY <1>3, <2>1, <2>3 DEF Candid, k
  <1>4. CASE g.state \in Negotiating \cup Terminating
    <2>1. PICK q \in {"INITIAL", "STARTING"} : Lowerdown(g) = Untimeout(Goto(g, q))
      BY <1>4 DEF Lowerdown
    <2> DEFINE k == Goto(g, q)
    <2>2. k \in Fsm /\ k.state = q /\ k.calls = <<>>
      BY GotoEffect, Mute
    <2> HIDE DEF k
    <2>3. Calls(Untimeout(k)) = {} /\ Untimeout(k).state = q
      BY <2>2, NoCalls, UntimeoutEffect, Mute
    <2>4. QED
      BY <1>4, <2>1, <2>3 DEF Candid, k
  <1>5. CASE g.state = "OPENED"
    <2>1. Lowerdown(g) = Goto(Down(g), "STARTING")
      BY <1>5 DEF Lowerdown
    <2> DEFINE k == Down(g)
    <2>2. k \in Fsm /\ Calls(k) = {"down"}
      BY <1>1, DownEffect, CallsOfPrimitives
    <2> HIDE DEF k
    <2>3. Goto(k, "STARTING").calls = k.calls /\ Goto(k, "STARTING").state = "STARTING"
      BY <2>2, GotoEffect, Mute
    <2>4. Calls(Goto(k, "STARTING")) = {"down"}
      BY <2>2, <2>3 DEF Calls
    <2>5. QED
      BY <1>5, <2>1, <2>3, <2>4 DEF Candid, k
  <1>6. CASE g.state \in {"INITIAL", "STARTING"}
    BY <1>1, <1>6 DEF Lowerdown, Candid
  <1>7. QED
    BY <1>2, <1>3, <1>4, <1>5, <1>6, UnitBounds

\* State and calls after each of the functions fsm.c is made of
LEMMA Trace ==
    ASSUME NEW g \in Fsm
    PROVE  /\ \A q \in States : LET h == Goto(g, q)
                                IN  h \in Fsm /\ h.state = q /\ Calls(h) = Calls(g)
           /\ LET h == Untimeout(g)
              IN  h \in Fsm /\ h.state = g.state /\ Calls(h) = Calls(g)
           /\ LET h == Timeout(g)
              IN  h \in Fsm /\ h.state = g.state /\ Calls(h) = Calls(g)
           /\ LET h == NewRequest(g)
              IN  h \in Fsm /\ h.state = g.state /\ Calls(h) = Calls(g)
           /\ LET h == Down(g)
              IN  h \in Fsm /\ h.state = g.state /\ Calls(h) = Calls(g) \cup {"down"}
           /\ LET h == Up(g)
              IN  h \in Fsm /\ h.state = g.state /\ Calls(h) = Calls(g) \cup {"up"}
           /\ LET h == Starting(g)
              IN  h \in Fsm /\ h.state = g.state /\ Calls(h) = Calls(g) \cup {"starting"}
           /\ LET h == Finished(g)
              IN  h \in Fsm /\ h.state = g.state /\ Calls(h) = Calls(g) \cup {"finished"}
           /\ LET h == Begin(g)
              IN  /\ h \in Fsm /\ h.state \in {"STOPPED", "REQSENT"}
                  /\ Calls(h) = Calls(g)
           /\ \A r \in BOOLEAN : LET h == SConfReq(g, r)
                                 IN  h \in Fsm /\ h.state = g.state /\ Calls(h) = Calls(g)
           /\ \A c \in Codes, i \in Ids, v \in Options \cup {Garbage} :
                LET h == SData(g, c, i, v)
                IN  h \in Fsm /\ h.state = g.state /\ Calls(h) = Calls(g)
  <1>1. \A q \in States : LET h == Goto(g, q)
                          IN  h \in Fsm /\ h.state = q /\ Calls(h) = Calls(g)
    <2> TAKE q \in States
    <2>1. Goto(g, q) \in Fsm /\ Goto(g, q).state = q
      BY GotoEffect
    <2>2. Goto(g, q).calls = g.calls
      BY Mute
    <2>3. QED
      BY <2>1, <2>2 DEF Calls
  <1>2. /\ Untimeout(g) \in Fsm /\ Untimeout(g).state = g.state
        /\ Timeout(g) \in Fsm /\ Timeout(g).state = g.state
        /\ Down(g) \in Fsm /\ Down(g).state = g.state
        /\ Up(g) \in Fsm /\ Up(g).state = g.state
        /\ Starting(g) \in Fsm /\ Starting(g).state = g.state
        /\ Finished(g) \in Fsm /\ Finished(g).state = g.state
    BY TimeoutEffect, UntimeoutEffect, DownEffect, UpEffect, StartingEffect, FinishedEffect
  <1>3. Calls(Untimeout(g)) = Calls(g) /\ Calls(Timeout(g)) = Calls(g)
    BY Mute DEF Calls
  <1>4. LET h == NewRequest(g)
        IN  h \in Fsm /\ h.state = g.state /\ Calls(h) = Calls(g)
    <2>1. NewRequest(g) \in Fsm
      BY NewRequestEffect
    <2>2. NewRequest(g).state = g.state
      BY DEF NewRequest, Fsm
    <2>3. QED
      BY <2>1, <2>2, Mute DEF Calls
  <1>5. \A r \in BOOLEAN : LET h == SConfReq(g, r)
                           IN  h \in Fsm /\ h.state = g.state /\ Calls(h) = Calls(g)
    <2> TAKE r \in BOOLEAN
    <2>1. SConfReq(g, r) \in Fsm /\ SConfReq(g, r).state = g.state
      BY SConfReqEffect
    <2>2. SConfReq(g, r).calls = g.calls
      BY Mute
    <2>3. QED
      BY <2>1, <2>2 DEF Calls
  <1>6. LET h == Begin(g)
        IN  /\ h \in Fsm /\ h.state \in {"STOPPED", "REQSENT"}
            /\ Calls(h) = Calls(g)
    <2>1. Goto(g, "STOPPED") \in Fsm /\ Goto(g, "STOPPED").state = "STOPPED"
      BY GotoEffect
    <2>2. LET h == Goto(SConfReq(g, FALSE), "REQSENT")
          IN  h \in Fsm /\ h.state = "REQSENT"
      BY RequestEffect
    <2>3. Begin(g) \in Fsm /\ Begin(g).state \in {"STOPPED", "REQSENT"}
      BY <2>1, <2>2 DEF Begin
    <2>4. QED
      BY <2>3, Mute DEF Calls
  <1>7. \A c \in Codes, i \in Ids, v \in Options \cup {Garbage} :
          LET h == SData(g, c, i, v)
          IN  h \in Fsm /\ h.state = g.state /\ Calls(h) = Calls(g)
    BY SDataEffect, Mute DEF Calls
  <1>8. QED
    BY <1>1, <1>2, <1>3, <1>4, <1>5, <1>6, <1>7, CallsOfPrimitives

LEMMA RestartCandid ==
    ASSUME NEW g \in Fsm, g.calls = <<>>, g.state \in {"STOPPED", "OPENED", "STOPPING"}
    PROVE  LET h == Lowerup(Lowerdown(g))
           IN  /\ h.state \in {"STOPPED", "REQSENT"}
               /\ {"up", "finished"} \cap Calls(h) = {}
               /\ "down" \in Calls(h) <=> g.state = "OPENED"
  <1> DEFINE d == Lowerdown(g)
  <1>1. Candid(g, d) /\ "finished" \notin Calls(d) /\ d.state \in {"INITIAL", "STARTING"}
    BY LowerdownCandid
  <1>2. d \in Fsm /\ d.state = "STARTING"
    <2>1. CASE g.state = "STOPPED"
      BY <2>1, Trace DEF Lowerdown
    <2>2. CASE g.state = "STOPPING"
      BY <2>2, Trace DEF Lowerdown
    <2>3. CASE g.state = "OPENED"
      BY <2>3, Trace DEF Lowerdown
    <2>4. QED
      BY <2>1, <2>2, <2>3
  <1> HIDE DEF d
  <1>3. Lowerup(d) = Begin(d)
    BY <1>2 DEF Lowerup
  <1>4. Begin(d).state \in {"STOPPED", "REQSENT"} /\ Calls(Begin(d)) = Calls(d)
    BY <1>2, Trace
  <1>5. QED
    BY <1>1, <1>2, <1>3, <1>4 DEF Candid, d

LEMMA OpenCandid ==
    ASSUME NEW g \in Fsm, g.calls = <<>>
    PROVE  LET h == Open(g)
           IN  /\ Candid(g, h) /\ "finished" \notin Calls(h)
               /\ h.state = "OPENED" => g.state = "OPENED"
  <1>1. Calls(g) = {}
    BY NoCalls
  <1>2. CASE g.state = "INITIAL"
    <2> DEFINE k == Goto(g, "STARTING")
    <2>1. Open(g) = Starting(k)
      BY <1>2 DEF Open
    <2>2. k \in Fsm /\ k.state = "STARTING" /\ Calls(k) = {}
      BY <1>1, Trace
    <2> HIDE DEF k
    <2>3. Starting(k).state = "STARTING" /\ Calls(Starting(k)) = {"starting"}
      BY <2>2, Trace
    <2>4. QED
      BY <1>2, <2>1, <2>3 DEF Candid
  <1>3. CASE g.state = "CLOSED"
    <2>1. Open(g) = Begin(g)
      BY <1>3 DEF Open
    <2>2. QED
      BY <1>1, <1>3, <2>1, Trace DEF Candid
  <1>4. CASE g.state = "CLOSING"
    <2> DEFINE k == Goto(g, "STOPPING")
    <2>1. Open(g) = IF Has(k, "restart") THEN Lowerup(Lowerdown(k)) ELSE k
      BY <1>4 DEF Open
    <2>2. k \in Fsm /\ k.state = "STOPPING" /\ Calls(k) = {}
      BY <1>1, Trace
    <2>3. k.calls = <<>>
      BY Mute
    <2> HIDE DEF k
    <2>4. LET h == Lowerup(Lowerdown(k))
          IN  /\ h.state \in {"STOPPED", "REQSENT"}
              /\ {"up", "finished"} \cap Calls(h) = {}
              /\ "down" \notin Calls(h)
      BY <2>2, <2>3, RestartCandid
    <2>5. QED
      BY <1>4, <2>1, <2>2, <2>4 DEF Candid
  <1>5. CASE g.state \in {"STOPPED", "OPENED"}
    <2>1. Open(g) = IF Has(g, "restart") THEN Lowerup(Lowerdown(g)) ELSE g
      BY <1>5 DEF Open
    <2>2. QED
      BY <1>1, <1>5, <2>1, RestartCandid DEF Candid
  <1>6. CASE g.state \in Negotiating \cup {"STARTING", "STOPPING"}
    <2>1. Open(g) = g
      BY <1>6 DEF Open
    <2>2. QED
      BY <1>1, <2>1 DEF Candid
  <1>7. QED
    BY <1>2, <1>3, <1>4, <1>5, <1>6, UnitBounds

LEMMA TerminateLayerCandid ==
    ASSUME NEW g \in Fsm, Inv(g), g.calls = <<>>,
           g.state \in Negotiating \cup {"OPENED"},
           NEW next \in {"CLOSING", "STOPPING"}
    PROVE  Candid(g, TerminateLayer(g, next))
  <1> DEFINE quiet == IF g.state = "OPENED" THEN Down(g) ELSE Untimeout(g)
             loaded == [quiet EXCEPT !.retransmits = MaxTermReq[g.unit]]
             req == NewRequest(loaded)
             sent == SData(req, "TermReq", req.reqid, NoOpt)
             less == [sent EXCEPT !.retransmits = @ - 1, !.state = next]
             h == TerminateLayer(g, next)
  <1>1. quiet \in Fsm /\ Calls(quiet) = IF g.state = "OPENED" THEN {"down"} ELSE {}
    BY NoCalls, Trace
  <1>2. h = IF sent.retransmits = 0
              THEN Finished(Goto(sent, IF next = "CLOSING" THEN "CLOSED" ELSE "STOPPED"))
              ELSE Timeout(less)
    <2>1. quiet.unit = g.unit
      BY DownEffect, UntimeoutEffect
    <2>2. QED
      BY <2>1 DEF TerminateLayer
  <1> HIDE DEF quiet
  <1>3. loaded \in Fsm /\ Calls(loaded) = Calls(quiet)
    <2>1. loaded \in Fsm
      BY <1>1, Updates, UnitBounds
    <2>2. loaded.calls = quiet.calls
      BY <1>1 DEF Fsm
    <2>3. QED
      BY <2>1, <2>2 DEF Calls
  <1> HIDE DEF loaded
  <1>4. req \in Fsm /\ Calls(req) = Calls(quiet) /\ req.reqid \in Ids
    BY <1>3, Trace, UnitBounds
  <1> HIDE DEF req
  <1>5. sent \in Fsm /\ Calls(sent) = Calls(quiet)
    <2>1. sent \in Fsm
      BY <1>4, SDataEffect, Nothing DEF Codes
    <2>2. sent.calls = req.calls
      BY <1>4, Mute
    <2>3. QED
      BY <1>4, <2>1, <2>2 DEF Calls
  <1> HIDE DEF sent
  <1>6. less \in Fsm /\ Calls(less) = Calls(quiet)
    <2>1. sent.retransmits - 1 \in Int /\ next \in States
      BY <1>5, UnitBounds
    <2>2. less \in Fsm
      BY <1>5, <2>1 DEF Fsm
    <2>3. less.calls = sent.calls
      BY <1>5 DEF Fsm
    <2>4. QED
      BY <1>5, <2>2, <2>3 DEF Calls
  <1> HIDE DEF less
  <1>7. Calls(Timeout(less)) = Calls(quiet)
    BY <1>6, Trace
  <1>8. \A q \in States : Calls(Finished(Goto(sent, q))) = Calls(quiet) \cup {"finished"}
    <2> TAKE q \in States
    <2>1. Goto(sent, q) \in Fsm /\ Calls(Goto(sent, q)) = Calls(quiet)
      BY <1>5, Trace
    <2>2. QED
      BY <2>1, Trace
  <1>9. Calls(h) \in {Calls(quiet), Calls(quiet) \cup {"finished"}}
    BY <1>2, <1>7, <1>8
  <1>10. h.state \in {"CLOSING", "CLOSED", "STOPPING", "STOPPED"}
    BY TerminateLayerFine
  <1> HIDE DEF h
  <1>11. QED
    BY <1>1, <1>9, <1>10 DEF Candid, h

LEMMA CloseCandid ==
    ASSUME NEW g \in Fsm, Inv(g), g.calls = <<>>
    PROVE  Candid(g, Close(g)) /\ Close(g).state # "OPENED"
  <1>1. CASE g.state \in Negotiating \cup {"OPENED"}
    <2>1. Close(g) = TerminateLayer(g, "CLOSING")
      BY <1>1 DEF Close
    <2>2. TerminateLayer(g, "CLOSING").state \in {"CLOSING", "CLOSED"}
      BY <1>1, TerminateLayerFine
    <2>3. QED
      BY <1>1, <2>1, <2>2, TerminateLayerCandid
  <1>2. CASE g.state \in {"STARTING", "STOPPED", "STOPPING"}
    <2>1. PICK q \in {"INITIAL", "CLOSED", "CLOSING"} : Close(g) = Goto(g, q)
      BY <1>2 DEF Close
    <2>2. QED
      BY <1>2, <2>1, NoCalls, Trace DEF Candid
  <1>3. CASE g.state \in {"INITIAL", "CLOSED", "CLOSING"}
    BY <1>3, NoCalls DEF Close, Candid
  <1>4. QED
    BY <1>1, <1>2, <1>3, UnitBounds

\* What does not call and leaves the state and the options alone
LEMMA SameCandid ==
    ASSUME NEW g \in Fsm, NEW h, g.calls = <<>>, h.calls = <<>>,
           h.state = g.state, h.go = g.go, h.ho = g.ho
    PROVE  Candid(g, h)
  BY NoCalls DEF Candid

LEMMA ProtRejectCandid ==
    ASSUME NEW g \in Fsm, Inv(g), g.calls = <<>>
    PROVE  Candid(g, ProtReject(g))
  <1>1. Calls(g) = {}
    BY NoCalls
  <1>2. CASE g.state \in Negotiating \cup Terminating
    <2>1. PICK q \in {"CLOSED", "STOPPED"} :
            ProtReject(g) = Finished(Goto(Untimeout(g), q))
      BY <1>2 DEF ProtReject
    <2> DEFINE k == Untimeout(g)
    <2>2. k \in Fsm /\ Calls(k) = {}
      BY <1>1, Trace
    <2> HIDE DEF k
    <2> DEFINE l == Goto(k, q)
    <2>3. l \in Fsm /\ l.state = q /\ Calls(l) = {}
      BY <2>2, Trace
    <2> HIDE DEF l
    <2>4. Finished(l).state = q /\ Calls(Finished(l)) = {"finished"}
      BY <2>3, Trace
    <2>5. ProtReject(g) = Finished(l)
      BY <2>1 DEF k, l
    <2>6. QED
      BY <1>2, <2>4, <2>5 DEF Candid
  <1>3. CASE g.state \in {"CLOSED", "STOPPED"}
    <2>1. ProtReject(g) = Finished(g)
      BY <1>3 DEF ProtReject
    <2>2. QED
      BY <1>1, <1>3, <2>1, Trace DEF Candid
  <1>4. CASE g.state = "OPENED"
    <2>1. ProtReject(g) = TerminateLayer(g, "STOPPING")
      BY <1>4 DEF ProtReject
    <2>2. QED
      BY <1>4, <2>1, TerminateLayerCandid
  <1>5. CASE g.state \in {"INITIAL", "STARTING"}
    BY <1>1, <1>5 DEF ProtReject, Candid
  <1>6. QED
    BY <1>2, <1>3, <1>4, <1>5, UnitBounds

LEMMA ExpireCandid ==
    ASSUME NEW g \in Fsm, g.calls = <<>>
    PROVE  Candid(g, Expire(g)) /\ (Expire(g).state = "OPENED" => g.state = "OPENED")
  <1>1. Calls(g) = {}
    BY NoCalls
  <1>2. CASE g.state \notin Negotiating \cup Terminating
    <2>1. Expire(g) = g
      BY <1>2 DEF Expire
    <2>2. QED
      BY <1>1, <2>1 DEF Candid
  <1>3. CASE g.state \in Negotiating \cup Terminating /\ g.retransmits <= 0
    <2>1. Expire(g) = GiveUp(g)
      BY <1>3 DEF Expire
    <2>2. PICK q \in {"CLOSED", "STOPPED"} :
            GiveUp(g) \in {Goto(g, q), Finished(Goto(g, q))}
      BY DEF GiveUp
    <2> DEFINE k == Goto(g, q)
    <2>3. k \in Fsm /\ k.state = q /\ Calls(k) = {}
      BY <1>1, Trace
    <2> HIDE DEF k
    <2>4. Finished(k).state = q /\ Calls(Finished(k)) = {"finished"}
      BY <2>3, Trace
    <2>5. Expire(g) \in {k, Finished(k)}
      BY <2>1, <2>2 DEF k
    <2>6. QED
      BY <1>3, <2>3, <2>4, <2>5 DEF Candid
  <1>4. CASE g.state \in Terminating /\ ~(g.retransmits <= 0)
    <2>1. Expire(g) = ResendTermReq(g)
      BY <1>4 DEF Expire
    <2>2. /\ ResendTermReq(g).calls = g.calls /\ ResendTermReq(g).state = g.state
          /\ ResendTermReq(g).go = g.go /\ ResendTermReq(g).ho = g.ho
      BY DEF ResendTermReq, NewRequest, SData, Timeout, Fsm
    <2>3. QED
      BY <2>1, <2>2, SameCandid
  <1>5. CASE g.state \in Negotiating /\ ~(g.retransmits <= 0)
    <2>1. Expire(g) = ResendConfReq(g)
      BY <1>5 DEF Expire
    <2> DEFINE k == SConfReq(g, TRUE)
    <2>2. k \in Fsm /\ k.state = g.state /\ Calls(k) = {}
      BY <1>1, Trace
    <2> HIDE DEF k
    <2>3. Goto(k, "REQSENT").state = "REQSENT" /\ Calls(Goto(k, "REQSENT")) = {}
      BY <2>2, Trace
    <2>4. Expire(g) \in {k, Goto(k, "REQSENT")}
      BY <2>1 DEF ResendConfReq, k
    <2>5. QED
      BY <1>5, <2>2, <2>3, <2>4 DEF Candid
  <1>6. QED
    BY <1>2, <1>3, <1>4, <1>5

LEMMA RenegotiateTrace ==
    ASSUME NEW g \in Fsm
    PROVE  LET h == Renegotiate(g)
           IN  h \in Fsm /\ h.state = "REQSENT" /\ Calls(h) = Calls(g) \cup {"down"}
  <1> DEFINE d == Down(g)
             r == SConfReq(d, FALSE)
  <1>1. d \in Fsm /\ Calls(d) = Calls(g) \cup {"down"}
    BY Trace
  <1> HIDE DEF d
  <1>2. r \in Fsm /\ Calls(r) = Calls(d)
    BY <1>1, Trace
  <1>3. Renegotiate(g) = Goto(r, "REQSENT")
    BY DEF Renegotiate, d
  <1> HIDE DEF r
  <1>4. LET h == Goto(r, "REQSENT")
        IN  h \in Fsm /\ h.state = "REQSENT" /\ Calls(h) = Calls(r)
    BY <1>2, Trace
  <1>5. QED
    BY <1>1, <1>2, <1>3, <1>4

\* The answer to a Configure-Request opens the fsm in ACKRCVD only.
LEMMA AnswerTrace ==
    ASSUME NEW g \in Fsm, g.state \in Negotiating,
           NEW i \in Ids, NEW v \in Options \cup {Garbage}
    PROVE  LET h == Answer(g, i, v)
           IN  \/ h.state \in Negotiating /\ Calls(h) = Calls(g)
               \/ /\ g.state = "ACKRCVD" /\ h.state = "OPENED"
                  /\ Calls(h) = Calls(g) \cup {"up"}
  <1> DEFINE r == g.nakloops >= MaxNakLoops
             verdict == Verdict(g, v, r)
             noted == ReqCI(g, v, verdict)
             sent == SData(noted, verdict, i, Reply(g, v, verdict))
             opened == Up(Goto(Untimeout(sent), "OPENED"))
             agreed == IF g.state = "ACKRCVD" THEN opened ELSE Goto(sent, "ACKSENT")
             differ == IF g.state = "ACKRCVD" THEN sent ELSE Goto(sent, "REQSENT")
  <1>1. /\ verdict \in {"ConfAck", "ConfNak", "ConfRej"}
        /\ verdict = "ConfAck" => v \in Options
        /\ Reply(g, v, verdict) \in Options \cup {Garbage}
    <2>1. r \in BOOLEAN
      OBVIOUS
    <2> HIDE DEF r
    <2>2. QED
      BY <2>1, VerdictType
  <1>2. Answer(g, i, v) = CASE verdict = "ConfAck" -> [agreed EXCEPT !.nakloops = 0]
                            [] verdict = "ConfNak" -> [differ EXCEPT !.nakloops = @ + 1]
                            [] OTHER               -> differ
    BY DEF Answer
  <1> HIDE DEF verdict
  <1>3. noted \in Fsm /\ noted.state = g.state
    <2>1. verdict \in Codes
      BY <1>1 DEF Codes
    <2>2. QED
      BY <1>1, <2>1, ReqCIEffect
  <1>4. noted.calls = g.calls
    BY DEF ReqCI, Fsm
  <1> HIDE DEF noted
  <1>5. sent \in Fsm /\ sent.state = g.state
    <2>1. verdict \in Codes
      BY <1>1 DEF Codes
    <2>2. QED
      BY <1>1, <1>3, <2>1, SDataEffect
  <1>6. sent.calls = g.calls
    BY <1>3, <1>4, Mute
  <1>7. Calls(sent) = Calls(g)
    BY <1>6 DEF Calls
  <1> HIDE DEF sent
  <1>8. opened \in Fsm /\ opened.state = "OPENED" /\ Calls(opened) = Calls(g) \cup {"up"}
    <2> DEFINE k == Untimeout(sent)
               l == Goto(k, "OPENED")
    <2>1. k \in Fsm /\ Calls(k) = Calls(g)
      BY <1>5, <1>7, Trace
    <2> HIDE DEF k
    <2>2. l \in Fsm /\ l.state = "OPENED" /\ Calls(l) = Calls(g)
      BY <2>1, Trace
    <2> HIDE DEF l
    <2>3. Up(l) \in Fsm /\ Up(l).state = "OPENED" /\ Calls(Up(l)) = Calls(g) \cup {"up"}
      BY <2>2, Trace
    <2>4. QED
      BY <2>3 DEF k, l
  <1> HIDE DEF opened
  <1>9. \A q \in {"ACKSENT", "REQSENT"} :
          LET h == Goto(sent, q)
          IN  h \in Fsm /\ h.state = q /\ Calls(h) = Calls(g)
    BY <1>5, <1>7, Trace
  <1>10. \/ agreed.state = "ACKSENT" /\ Calls(agreed) = Calls(g)
         \/ /\ g.state = "ACKRCVD" /\ agreed.state = "OPENED"
            /\ Calls(agreed) = Calls(g) \cup {"up"}
    BY <1>8, <1>9
  <1>11. differ.state \in Negotiating /\ Calls(differ) = Calls(g)
    BY <1>5, <1>7, <1>9
  <1>12. agreed \in Fsm /\ differ \in Fsm
    BY <1>5, <1>8, <1>9
  <1> HIDE DEF agreed, differ
  <1>13. \A k \in Fsm, n \in Int :
           LET h == [k EXCEPT !.nakloops = n] IN h.state = k.state /\ Calls(h) = Calls(k)
    BY DEF Fsm, Calls
  <1>14. differ.nakloops + 1 \in Int
    BY <1>12, UnitBounds
  <1>15. QED
    BY <1>2, <1>10, <1>11, <1>12, <1>13, <1>14

LEMMA RConfReqCandid ==
    ASSUME NEW g \in Fsm, g.calls = <<>>, LowerIsUp(g),
           NEW i \in Ids, NEW v \in Options \cup {Garbage}
    PROVE  Candid(g, RConfReq(g, i, v))
  <1>1. Calls(g) = {}
    BY NoCalls
  <1>2. CASE g.state = "CLOSED"
    <2>1. RConfReq(g, i, v) = SData(g, "TermAck", i, NoOpt)
      BY <1>2 DEF RConfReq
    <2>2. "TermAck" \in Codes
      BY DEF Codes
    <2>3. LET h == SData(g, "TermAck", i, NoOpt) IN h.state = g.state /\ Calls(h) = {}
      BY <1>1, <2>2, Trace, Nothing
    <2>4. QED
      BY <1>2, <2>1, <2>3 DEF Candid
  <1>3. CASE g.state \in Terminating
    BY <1>1, <1>3 DEF RConfReq, Candid
  <1>4. CASE g.state = "OPENED"
    <2> DEFINE k == Renegotiate(g)
    <2>1. k \in Fsm /\ k.state = "REQSENT" /\ Calls(k) = {"down"}
      BY <1>1, RenegotiateTrace
    <2>2. RConfReq(g, i, v) = Answer(k, i, v)
      BY <1>4 DEF RConfReq
    <2> HIDE DEF k
    <2>3. Answer(k, i, v).state \in Negotiating /\ Calls(Answer(k, i, v)) = {"down"}
      BY <2>1, AnswerTrace
    <2>4. QED
      BY <1>4, <2>2, <2>3 DEF Candid
  <1>5. CASE g.state = "STOPPED"
    <2> DEFINE r == SConfReq(g, FALSE)
               k == Goto(r, "REQSENT")
    <2>1. r \in Fsm /\ Calls(r) = {}
      BY <1>1, Trace
    <2>2. RConfReq(g, i, v) = Answer(k, i, v)
      BY <1>5 DEF RConfReq
    <2> HIDE DEF r
    <2>3. k \in Fsm /\ k.state = "REQSENT" /\ Calls(k) = {}
      BY <2>1, Trace
    <2> HIDE DEF k
    <2>4. Answer(k, i, v).state \in Negotiating /\ Calls(Answer(k, i, v)) = {}
      BY <2>3, AnswerTrace
    <2>5. QED
      BY <1>5, <2>2, <2>4 DEF Candid
  <1>6. CASE g.state \in Negotiating
    <2>1. RConfReq(g, i, v) = Answer(g, i, v)
      BY <1>6 DEF RConfReq
    <2>2. QED
      BY <1>1, <1>6, <2>1, AnswerTrace DEF Candid
  <1>7. QED
    BY <1>2, <1>3, <1>4, <1>5, <1>6, UnitBounds DEF LowerIsUp

\* The answers to our own request.  The fsm has not seen one yet, so that it
\* is neither in ACKRCVD nor in OPENED.
LEMMA ExpectedMeansAsking ==
    ASSUME NEW g \in Fsm, Inv(g), NEW i, Expected(g, i)
    PROVE  g.state \notin {"ACKRCVD", "OPENED"}
  BY DEF Inv, Expected

LEMMA AckedCandid ==
    ASSUME NEW g \in Fsm, g.calls = <<>>, LowerIsUp(g), NEW i \in Ids,
           g.state \notin {"ACKRCVD", "OPENED"}
    PROVE  Candid(g, Acked(g, i))
  <1> DEFINE a == [g EXCEPT !.seen_ack = TRUE, !.rnakloops = 0]
             fresh == [a EXCEPT !.retransmits = MaxConfReq[g.unit]]
  <1>1. a \in Fsm /\ a.state = g.state /\ a.calls = <<>>
    <2>1. [g EXCEPT !.seen_ack = TRUE] \in Fsm
      BY Updates
    <2>2. [[g EXCEPT !.seen_ack = TRUE] EXCEPT !.rnakloops = 0] \in Fsm
      BY <2>1, Updates
    <2>3. a \in Fsm
      BY <2>2
    <2>4. QED
      BY <2>3 DEF Fsm
  <1>2. fresh \in Fsm /\ fresh.calls = <<>>
    <2>1. MaxConfReq[g.unit] \in Int
      BY UnitBounds
    <2> HIDE DEF a
    <2>2. fresh \in Fsm
      BY <1>1, <2>1, Updates
    <2>3. fresh.calls = a.calls
      BY <1>1 DEF Fsm
    <2>4. QED
      BY <1>1, <2>2, <2>3
  <1>3. Acked(g, i) =
          CASE g.state \in {"CLOSED", "STOPPED"} -> SData(a, "TermAck", i, NoOpt)
            [] g.state = "REQSENT" -> Goto(fresh, "ACKRCVD")
            [] g.state = "ACKRCVD" -> Goto(SConfReq(Untimeout(a), FALSE), "REQSENT")
            [] g.state = "ACKSENT" -> Up(Goto(Untimeout(fresh), "OPENED"))
            [] g.state = "OPENED"  -> Renegotiate(a)
            [] OTHER               -> a
    BY DEF Acked
  <1>4. Calls(a) = {} /\ Calls(fresh) = {}
    BY <1>1, <1>2, NoCalls
  <1> HIDE DEF a, fresh
  <1>5. CASE g.state \in {"CLOSED", "STOPPED"}
    <2>1. "TermAck" \in Codes
      BY DEF Codes
    <2>2. LET h == SData(a, "TermAck", i, NoOpt)
          IN  h.state = a.state /\ Calls(h) = Calls(a)
      <3>1. SData(a, "TermAck", i, NoOpt).state = a.state
        BY <1>1, <2>1, SDataEffect, Nothing
      <3>2. SData(a, "TermAck", i, NoOpt).calls = a.calls
        BY <1>1, Mute
      <3>3. QED
        BY <3>1, <3>2 DEF Calls
    <2>3. QED
      BY <1>1, <1>3, <1>4, <1>5, <2>2 DEF Candid
  <1>6. CASE g.state = "REQSENT"
    <2>1. LET h == Goto(fresh, "ACKRCVD") IN h.state = "ACKRCVD" /\ Calls(h) = {}
      BY <1>2, <1>4, Trace
    <2>2. QED
      BY <1>3, <1>6, <2>1 DEF Candid
  <1>7. CASE g.state = "ACKSENT"
    <2> DEFINE k == Untimeout(fresh)
               l == Goto(k, "OPENED")
    <2>1. k \in Fsm /\ Calls(k) = {}
      BY <1>2, <1>4, Trace
    <2> HIDE DEF k
    <2>2. l \in Fsm /\ l.state = "OPENED" /\ Calls(l) = {}
      BY <2>1, Trace
    <2> HIDE DEF l
    <2>3. Up(l).state = "OPENED" /\ Calls(Up(l)) = {"up"}
      BY <2>2, Trace
    <2>4. Acked(g, i) = Up(l)
      BY <1>3, <1>7 DEF k, l
    <2>5. QED
      BY <1>7, <2>3, <2>4 DEF Candid
  <1>8. CASE g.state \in Terminating
    <2>1. Acked(g, i) = a
      BY <1>3, <1>8
    <2>2. QED
      BY <1>1, <1>4, <1>8, <2>1 DEF Candid
  <1>9. QED
    BY <1>5, <1>6, <1>7, <1>8, UnitBounds DEF LowerIsUp

LEMMA TryAgainCandid ==
    ASSUME NEW g \in Fsm, g.calls = <<>>, LowerIsUp(g), NEW i \in Ids,
           g.state \notin {"ACKRCVD", "OPENED"}, NEW cease \in BOOLEAN
    PROVE  Candid(g, TryAgain(g, i, cease))
  <1> DEFINE a == [g EXCEPT !.seen_ack = TRUE]
             u == Untimeout(a)
  <1>1. a \in Fsm /\ a.state = g.state /\ a.calls = <<>>
    <2>1. a \in Fsm
      BY Updates, TRUE \in BOOLEAN
    <2>2. a.state = g.state /\ a.calls = <<>>
      BY DEF Fsm
    <2>3. QED
      BY <2>1, <2>2
  <1>2. TryAgain(g, i, cease) =
          CASE g.state \in {"CLOSED", "STOPPED"} -> SData(a, "TermAck", i, NoOpt)
            [] g.state \in {"REQSENT", "ACKSENT"} ->
                 IF cease THEN Goto(u, "STOPPED") ELSE SConfReq(u, FALSE)
            [] g.state = "ACKRCVD" -> Goto(SConfReq(u, FALSE), "REQSENT")
            [] g.state = "OPENED"  -> Renegotiate(a)
            [] OTHER               -> a
    BY DEF TryAgain
  <1>3. Calls(a) = {}
    BY <1>1, NoCalls
  <1> HIDE DEF a
  <1>4. u \in Fsm /\ u.state = g.state /\ Calls(u) = {}
    BY <1>1, <1>3, Trace
  <1> HIDE DEF u
  <1>5. CASE g.state \in {"CLOSED", "STOPPED"}
    <2>1. "TermAck" \in Codes
      BY DEF Codes
    <2>2. LET h == SData(a, "TermAck", i, NoOpt)
          IN  h.state = a.state /\ Calls(h) = Calls(a)
      BY <1>1, <2>1, Trace, Nothing
    <2>3. QED
      BY <1>1, <1>2, <1>3, <1>5, <2>2 DEF Candid
  <1>6. CASE g.state \in {"REQSENT", "ACKSENT"}
    <2>1. LET h == Goto(u, "STOPPED") IN h.state = "STOPPED" /\ Calls(h) = {}
      BY <1>4, Trace
    <2>2. LET h == SConfReq(u, FALSE) IN h.state = g.state /\ Calls(h) = {}
      BY <1>4, Trace
    <2>3. TryAgain(g, i, cease) \in {Goto(u, "STOPPED"), SConfReq(u, FALSE)}
      BY <1>2, <1>6
    <2>4. QED
      BY <1>6, <2>1, <2>2, <2>3 DEF Candid
  <1>7. CASE g.state \in Terminating
    <2>1. TryAgain(g, i, cease) = a
      BY <1>2, <1>7
    <2>2. QED
      BY <1>1, <1>3, <1>7, <2>1 DEF Candid
  <1>8. QED
    BY <1>5, <1>6, <1>7, UnitBounds DEF LowerIsUp

\* What is candid after a change of the options is candid before it.
LEMMA CandidBefore ==
    ASSUME NEW g, NEW h, NEW k, h.state = g.state, g.state # "OPENED", Candid(h, k)
    PROVE  Candid(g, k)
  BY DEF Candid

LEMMA RConfAckCandid ==
    ASSUME NEW g \in Fsm, Inv(g), g.calls = <<>>, LowerIsUp(g), NEW i \in Ids, NEW v
    PROVE  Candid(g, RConfAck(g, i, v))
  <1>1. Candid(g, g)
    BY SameCandid
  <1>2. Expected(g, i) => Candid(g, Acked(g, i))
    BY ExpectedMeansAsking, AckedCandid
  <1>3. QED
    BY <1>1, <1>2 DEF RConfAck

LEMMA RConfNakCandid ==
    ASSUME NEW g \in Fsm, Inv(g), g.calls = <<>>, LowerIsUp(g),
           NEW i \in Ids, NEW v \in Options \cup {Garbage}
    PROVE  Candid(g, RConfNak(g, i, v))
  <1> DEFINE loops == IF g.rnakloops >= MaxNakLoops THEN MaxNakLoops
                                                    ELSE g.rnakloops + 1
             c == [g EXCEPT !.rnakloops = loops]
             reject == loops >= MaxNakLoops
             k == NakCI(c, v, reject)
  <1>1. RConfNak(g, i, v) =
          IF ~Expected(g, i) THEN g
          ELSE IF ~GoodNak(c, v) THEN c
          ELSE TryAgain(k, i, FALSE)
    BY DEF RConfNak
  <1>2. loops \in Nat
    BY BoundsAssumption DEF Fsm
  <1>3. reject \in BOOLEAN
    OBVIOUS
  <1> HIDE DEF loops, reject
  <1>4. c \in Fsm /\ c.state = g.state /\ Inv(c)
    BY <1>2, Nothing, OptionsChange
  <1>5. c.calls = <<>> /\ c.go = g.go /\ c.ho = g.ho
    BY DEF Fsm
  <1> HIDE DEF c
  <1>6. ASSUME Expected(g, i), GoodNak(c, v) PROVE Candid(g, TryAgain(k, i, FALSE))
    <2>1. v \in Options
      BY <1>6 DEF GoodNak
    <2>2. k \in Fsm /\ k.state = c.state
      BY <1>3, <1>4, <2>1, NakCIEffect
    <2>3. k.calls = <<>>
      BY <1>4, <1>5 DEF NakCI, Fsm
    <2> HIDE DEF k
    <2>4. g.state \notin {"ACKRCVD", "OPENED"} /\ LowerIsUp(k)
      BY <1>4, <1>6, <2>2, ExpectedMeansAsking DEF LowerIsUp
    <2>5. Candid(k, TryAgain(k, i, FALSE))
      BY <1>4, <2>2, <2>3, <2>4, TryAgainCandid
    <2>6. QED
      BY <1>4, <2>2, <2>4, <2>5, CandidBefore
  <1>7. Candid(g, g) /\ Candid(g, c)
    BY <1>4, <1>5, SameCandid
  <1>8. QED
    BY <1>1, <1>6, <1>7

LEMMA RConfRejCandid ==
    ASSUME NEW g \in Fsm, Inv(g), g.calls = <<>>, LowerIsUp(g),
           NEW i \in Ids, NEW v
    PROVE  Candid(g, RConfRej(g, i, v))
  <1> DEFINE c == [g EXCEPT !.rnakloops = 0]
             k == RejCI(c, v)
             cease == CeaseRequests(c, v)
  <1>1. RConfRej(g, i, v) =
          IF ~Expected(g, i) THEN g
          ELSE IF ~GoodRej(c, v) THEN c
          ELSE TryAgain(k, i, cease)
    BY DEF RConfRej
  <1>2. c \in Fsm /\ c.state = g.state /\ Inv(c)
    BY Nothing, OptionsChange
  <1>3. c.calls = <<>> /\ c.go = g.go /\ c.ho = g.ho
    BY DEF Fsm
  <1>4. cease \in BOOLEAN
    BY <1>2 DEF CeaseRequests, Fsm
  <1> HIDE DEF c, cease
  <1>5. ASSUME Expected(g, i) PROVE Candid(g, TryAgain(k, i, cease))
    <2>1. k \in Fsm /\ k.state = c.state
      BY <1>2, RejCIEffect
    <2>2. k.calls = <<>>
      BY <1>2, <1>3 DEF RejCI, Fsm
    <2> HIDE DEF k
    <2>3. g.state \notin {"ACKRCVD", "OPENED"} /\ LowerIsUp(k)
      BY <1>2, <1>5, <2>1, ExpectedMeansAsking DEF LowerIsUp
    <2>4. Candid(k, TryAgain(k, i, cease))
      BY <1>2, <1>4, <2>1, <2>2, <2>3, TryAgainCandid
    <2>5. QED
      BY <1>2, <2>1, <2>3, <2>4, CandidBefore
  <1>6. Candid(g, g) /\ Candid(g, c)
    BY <1>2, <1>3, SameCandid
  <1>7. QED
    BY <1>1, <1>5, <1>6

LEMMA RTermReqCandid ==
    ASSUME NEW g \in Fsm, g.calls = <<>>, LowerIsUp(g), NEW i \in Ids
    PROVE  Candid(g, RTermReq(g, i))
  <1> DEFINE s == [g EXCEPT !.retransmits = 0, !.state = "STOPPING"]
             t == Timeout(Down(s))
             k == CASE g.state \in {"ACKRCVD", "ACKSENT"} -> Goto(g, "REQSENT")
                    [] g.state = "OPENED" -> t
                    [] OTHER -> g
  <1>1. RTermReq(g, i) = SData(k, "TermAck", i, NoOpt)
    BY DEF RTermReq
  <1>2. Calls(g) = {} /\ "TermAck" \in Codes
    BY NoCalls DEF Codes
  <1>3. t \in Fsm /\ t.state = "STOPPING" /\ Calls(t) = {"down"}
    <2> DEFINE d == Down(s)
    <2>1. s \in Fsm /\ s.state = "STOPPING" /\ s.calls = <<>>
      <3>1. [g EXCEPT !.retransmits = 0] \in Fsm
        BY Updates, 0 \in Int
      <3>2. s = Goto([g EXCEPT !.retransmits = 0], "STOPPING")
        BY DEF Goto
      <3>3. s \in Fsm /\ s.state = "STOPPING"
        BY <3>1, <3>2, GotoEffect
      <3>4. s.calls = <<>>
        BY DEF Fsm
      <3>5. QED
        BY <3>3, <3>4
    <2> HIDE DEF s
    <2>2. d \in Fsm /\ d.state = "STOPPING" /\ Calls(d) = {"down"}
      BY <2>1, NoCalls, Trace
    <2> HIDE DEF d
    <2>3. Timeout(d) \in Fsm /\ Timeout(d).state = "STOPPING" /\ Calls(Timeout(d)) = {"down"}
      BY <2>2, Trace
    <2>4. QED
      BY <2>3 DEF d
  <1> HIDE DEF t
  <1>4. LET h == Goto(g, "REQSENT") IN h \in Fsm /\ h.state = "REQSENT" /\ Calls(h) = {}
    BY <1>2, Trace
  <1>5. /\ k \in Fsm
        /\ k.state = "OPENED" <=> FALSE
        /\ Calls(k) = IF g.state = "OPENED" THEN {"down"} ELSE {}
    BY <1>2, <1>3, <1>4
  <1> HIDE DEF k
  <1>6. LET h == SData(k, "TermAck", i, NoOpt) IN h.state = k.state /\ Calls(h) = Calls(k)
    <2>1. SData(k, "TermAck", i, NoOpt).state = k.state
      BY <1>2, <1>5, SDataEffect, Nothing
    <2>2. SData(k, "TermAck", i, NoOpt).calls = k.calls
      BY <1>5, Mute
    <2>3. QED
      BY <2>1, <2>2 DEF Calls
  <1>7. QED
    BY <1>1, <1>5, <1>6 DEF Candid

LEMMA RTermAckCandid ==
    ASSUME NEW g \in Fsm, g.calls = <<>>
    PROVE  Candid(g, RTermAck(g))
  <1>1. Calls(g) = {}
    BY NoCalls
  <1>2. CASE g.state \in Terminating
    <2>1. PICK q \in {"CLOSED", "STOPPED"} :
            RTermAck(g) = Finished(Goto(Untimeout(g), q))
      BY <1>2 DEF RTermAck
    <2> DEFINE k == Untimeout(g)
               l == Goto(k, q)
    <2>2. k \in Fsm /\ Calls(k) = {}
      BY <1>1, Trace
    <2> HIDE DEF k
    <2>3. l \in Fsm /\ l.state = q /\ Calls(l) = {}
      BY <2>2, Trace
    <2> HIDE DEF l
    <2>4. Finished(l).state = q /\ Calls(Finished(l)) = {"finished"}
      BY <2>3, Trace
    <2>5. RTermAck(g) = Finished(l)
      BY <2>1 DEF k, l
    <2>6. QED
      BY <1>2, <2>4, <2>5 DEF Candid
  <1>3. CASE g.state = "ACKRCVD"
    <2>1. RTermAck(g) = Goto(g, "REQSENT")
      BY <1>3 DEF RTermAck
    <2>2. Goto(g, "REQSENT").state = "REQSENT" /\ Calls(Goto(g, "REQSENT")) = {}
      BY <1>1, Trace
    <2>3. QED
      BY <1>3, <2>1, <2>2 DEF Candid
  <1>4. CASE g.state = "OPENED"
    <2>1. RTermAck(g) = Renegotiate(g)
      BY <1>4 DEF RTermAck
    <2>2. QED
      BY <1>1, <1>4, <2>1, RenegotiateTrace DEF Candid
  <1>5. CASE g.state \notin Terminating \cup {"ACKRCVD", "OPENED"}
    BY <1>1, <1>5 DEF RTermAck, Candid
  <1>6. QED
    BY <1>2, <1>3, <1>4, <1>5

LEMMA InputCandid ==
    ASSUME NEW g \in Fsm, Inv(g), g.calls = <<>>, NEW m \in Frame
    PROVE  Candid(g, Input(g, m))
  <1>1. CASE ~LowerIsUp(g)
    BY <1>1, SameCandid DEF Input, LowerIsUp
  <1>2. CASE LowerIsUp(g)
    <2>1. m.id \in Ids /\ m.val \in Options \cup {Garbage} /\ m.code \in Codes
      BY DEF Frame
    <2>2. Candid(g, RConfReq(g, m.id, m.val))
      BY <1>2, <2>1, RConfReqCandid
    <2>3. Candid(g, RConfAck(g, m.id, m.val))
      BY <1>2, <2>1, RConfAckCandid
    <2>4. Candid(g, RConfNak(g, m.id, m.val))
      BY <1>2, <2>1, RConfNakCandid
    <2>5. Candid(g, RConfRej(g, m.id, m.val))
      BY <1>2, <2>1, RConfRejCandid
    <2>6. Candid(g, RTermReq(g, m.id))
      BY <1>2, <2>1, RTermReqCandid
    <2>7. Candid(g, RTermAck(g))
      BY RTermAckCandid
    <2>8. Candid(g, RCodeRej(g))
      <3>1. Goto(g, "REQSENT").state = "REQSENT" /\ Goto(g, "REQSENT").calls = <<>>
        BY GotoEffect, Mute
      <3>2. Calls(g) = {} /\ Calls(Goto(g, "REQSENT")) = {}
        BY <3>1, NoCalls
      <3>3. QED
        BY <3>1, <3>2 DEF RCodeRej, Candid
    <2>9. Candid(g, RUnknown(g))
      <3>1. /\ RUnknown(g).calls = <<>> /\ RUnknown(g).state = g.state
            /\ RUnknown(g).go = g.go /\ RUnknown(g).ho = g.ho
        BY DEF RUnknown, SData, Fsm
      <3>2. QED
        BY <3>1, SameCandid
    <2>10. g.state \notin {"INITIAL", "STARTING"}
      BY <1>2 DEF LowerIsUp
    <2>11. QED
      BY <2>2, <2>3, <2>4, <2>5, <2>6, <2>7, <2>8, <2>9, <2>10 DEF Input
  <1>3. QED
    BY <1>1, <1>2

-----------------------------------------------------------------------------
(***************************************************************************)
(* The finished call of a fsm that opens, and the lower layer of one.      *)
(***************************************************************************)

\* The answer to a Configure-Request does not end the layer.
LEMMA RConfReqGoesOn ==
    ASSUME NEW g \in Fsm, g.calls = <<>>, LowerIsUp(g),
           NEW i \in Ids, NEW v \in Options \cup {Garbage}
    PROVE  "finished" \notin Calls(RConfReq(g, i, v))
  <1>1. Calls(g) = {}
    BY NoCalls
  <1>2. CASE g.state = "CLOSED"
    <2>1. RConfReq(g, i, v) = SData(g, "TermAck", i, NoOpt)
      BY <1>2 DEF RConfReq
    <2>2. RConfReq(g, i, v).calls = g.calls
      BY <2>1, Mute
    <2>3. QED
      BY <1>1, <2>2 DEF Calls
  <1>3. CASE g.state \in Terminating
    BY <1>1, <1>3 DEF RConfReq
  <1>4. CASE g.state = "OPENED"
    <2> DEFINE k == Renegotiate(g)
    <2>1. k \in Fsm /\ k.state = "REQSENT" /\ Calls(k) = {"down"}
      BY <1>1, RenegotiateTrace
    <2>2. RConfReq(g, i, v) = Answer(k, i, v)
      BY <1>4 DEF RConfReq
    <2> HIDE DEF k
    <2>3. Calls(Answer(k, i, v)) \subseteq {"down", "up"}
      BY <2>1, AnswerTrace
    <2>4. QED
      BY <2>2, <2>3
  <1>5. CASE g.state = "STOPPED"
    <2> DEFINE r == SConfReq(g, FALSE)
               k == Goto(r, "REQSENT")
    <2>1. r \in Fsm /\ Calls(r) = {}
      BY <1>1, Trace
    <2>2. RConfReq(g, i, v) = Answer(k, i, v)
      BY <1>5 DEF RConfReq
    <2> HIDE DEF r
    <2>3. k \in Fsm /\ k.state = "REQSENT" /\ Calls(k) = {}
      BY <2>1, Trace
    <2> HIDE DEF k
    <2>4. Calls(Answer(k, i, v)) \subseteq {"up"}
      BY <2>3, AnswerTrace
    <2>5. QED
      BY <2>2, <2>4
  <1>6. CASE g.state \in Negotiating
    <2>1. RConfReq(g, i, v) = Answer(g, i, v)
      BY <1>6 DEF RConfReq
    <2>2. Calls(Answer(g, i, v)) \subseteq {"up"}
      BY <1>1, <1>6, AnswerTrace
    <2>3. QED
      BY <2>1, <2>2
  <1>7. QED
    BY <1>2, <1>3, <1>4, <1>5, <1>6, UnitBounds DEF LowerIsUp

\* Neither does the answer to our own request, nor a new one.
LEMMA RConfAckGoesOn ==
    ASSUME NEW g \in Fsm, Inv(g), g.calls = <<>>, LowerIsUp(g), NEW i \in Ids, NEW v
    PROVE  "finished" \notin Calls(RConfAck(g, i, v))
  <1>1. Calls(g) = {}
    BY NoCalls
  <1>2. CASE Expected(g, i) /\ AckCI(g, v)
    <2> DEFINE a == [g EXCEPT !.seen_ack = TRUE, !.rnakloops = 0]
               fresh == [a EXCEPT !.retransmits = MaxConfReq[g.unit]]
    <2>1. g.state \notin {"ACKRCVD", "OPENED"}
      BY <1>2, ExpectedMeansAsking
    <2>2. a.calls = <<>> /\ fresh.calls = <<>> /\ fresh \in Fsm
      <3>1. [g EXCEPT !.seen_ack = TRUE] \in Fsm
        BY Updates
      <3>2. [[g EXCEPT !.seen_ack = TRUE] EXCEPT !.rnakloops = 0] \in Fsm
        BY <3>1, Updates
      <3>3. a \in Fsm /\ a.calls = <<>> /\ MaxConfReq[g.unit] \in Int
        BY <3>2, UnitBounds DEF Fsm
      <3> HIDE DEF a
      <3>4. fresh \in Fsm
        BY <3>3, Updates
      <3>5. fresh.calls = a.calls
        BY <3>3 DEF Fsm
      <3>6. QED
        BY <3>3, <3>4, <3>5
    <2>3. RConfAck(g, i, v) \in {SData(a, "TermAck", i, NoOpt), Goto(fresh, "ACKRCVD"),
                                 Up(Goto(Untimeout(fresh), "OPENED")), a}
      BY <1>2, <2>1 DEF RConfAck, Acked
    <2>4. Calls(a) = {} /\ Calls(fresh) = {}
      BY <2>2, NoCalls
    <2>5. SData(a, "TermAck", i, NoOpt).calls = <<>>
      BY <2>2 DEF SData, Fsm
    <2> HIDE DEF a, fresh
    <2>6. Calls(SData(a, "TermAck", i, NoOpt)) = {} /\ Calls(Goto(fresh, "ACKRCVD")) = {}
      BY <2>2, <2>4, <2>5, Trace, NoCalls
    <2>7. Untimeout(fresh) \in Fsm /\ Calls(Untimeout(fresh)) = {}
      BY <2>2, <2>4, Trace
    <2>8. Goto(Untimeout(fresh), "OPENED") \in Fsm /\ Calls(Goto(Untimeout(fresh), "OPENED")) = {}
      BY <2>7, Trace
    <2>9. Calls(Up(Goto(Untimeout(fresh), "OPENED"))) = {"up"}
      BY <2>8, Trace
    <2>10. QED
      BY <2>3, <2>4, <2>6, <2>9
  <1>3. QED
    BY <1>1, <1>2 DEF RConfAck

\* A frame that opens the fsm does not end the layer as well.
LEMMA InputOpens ==
    ASSUME NEW g \in Fsm, Inv(g), g.calls = <<>>, NEW m \in Frame,
           g.state # "OPENED", Input(g, m).state = "OPENED"
    PROVE  "finished" \notin Calls(Input(g, m))
  <1>1. LowerIsUp(g)
    BY DEF Input, LowerIsUp
  <1>2. /\ m.id \in Ids /\ m.val \in Options \cup {Garbage} /\ m.code \in Codes
        /\ g.state \notin {"INITIAL", "STARTING"} /\ g.state \in States
    BY <1>1, UnitBounds DEF Frame, LowerIsUp
  <1>3. CASE m.code = "ConfReq"
    BY <1>1, <1>2, <1>3, RConfReqGoesOn DEF Input
  <1>4. CASE m.code = "ConfAck"
    BY <1>1, <1>2, <1>4, RConfAckGoesOn DEF Input
  <1>5. CASE m.code \in {"ConfNak", "ConfRej"}
    <2>1. ASSUME NEW k, k.state = g.state, "state" \in DOMAIN k, NEW cease,
                 g.state \notin {"ACKRCVD", "OPENED"}
          PROVE  TryAgain(k, m.id, cease).state # "OPENED"
      <3>1. CASE g.state \in {"CLOSED", "STOPPED"}
        BY <2>1, <3>1 DEF TryAgain, SData
      <3>2. CASE g.state \in {"REQSENT", "ACKSENT"}
        BY <2>1, <3>2 DEF TryAgain, Goto, SConfReq, Untimeout, Timeout, SData, NewRequest, ResetCI
      <3>3. CASE g.state \in Terminating
        BY <2>1, <3>3 DEF TryAgain
      <3>4. QED
        BY <1>2, <2>1, <3>1, <3>2, <3>3
    <2>2. Input(g, m).state = "OPENED" => Expected(g, m.id)
      BY <1>2, <1>5 DEF Input, RConfNak, RConfRej
    <2>3. g.state \notin {"ACKRCVD", "OPENED"}
      BY <2>2, ExpectedMeansAsking
    <2>4. \A x, c : LET k == NakCI([g EXCEPT !.rnakloops = x], m.val, c)
                    IN  k.state = g.state /\ "state" \in DOMAIN k
      BY DEF NakCI, Fsm
    <2>5. \A x : LET k == RejCI([g EXCEPT !.rnakloops = x], m.val)
                 IN  k.state = g.state /\ "state" \in DOMAIN k
      BY DEF RejCI, Fsm
    <2>6. Input(g, m).state # "OPENED"
      <3> DEFINE loops == IF g.rnakloops >= MaxNakLoops THEN MaxNakLoops
                                                        ELSE g.rnakloops + 1
                 c == [g EXCEPT !.rnakloops = loops]
                 k == NakCI(c, m.val, loops >= MaxNakLoops)
                 d == [g EXCEPT !.rnakloops = 0]
                 l == RejCI(d, m.val)
      <3>1. /\ c.state = g.state /\ d.state = g.state /\ k.state = g.state /\ l.state = g.state
            /\ "state" \in DOMAIN k /\ "state" \in DOMAIN l
        BY <2>4, <2>5, ZenonT(40) DEF Fsm
      <3>2. Input(g, m) \in {g, c, d, TryAgain(k, m.id, FALSE),
                             TryAgain(l, m.id, CeaseRequests(d, m.val))}
        BY <1>2, <1>5 DEF Input, RConfNak, RConfRej
      <3> HIDE DEF c, d, k, l
      <3>3. QED
        BY <2>1, <2>3, <3>1, <3>2
    <2>7. QED
      BY <2>6
  <1>6. CASE m.code = "TermReq"
    <2>1. g.state # "OPENED" => RTermReq(g, m.id).state # "OPENED"
      BY DEF RTermReq, SData, Goto, Fsm
    <2>2. QED
      BY <1>2, <1>6, <2>1 DEF Input
  <1>7. CASE m.code \in {"TermAck", "CodeRej", "Other"}
    <2>1. g.state # "OPENED" => RTermAck(g).state # "OPENED"
      BY DEF RTermAck, Goto, Finished, Untimeout, Fsm
    <2>2. g.state # "OPENED" => RCodeRej(g).state # "OPENED" /\ RUnknown(g).state # "OPENED"
      BY DEF RCodeRej, RUnknown, SData, Goto, Fsm
    <2>3. QED
      BY <1>2, <1>7, <2>1, <2>2 DEF Input
  <1>8. QED
    BY <1>2, <1>3, <1>4, <1>5, <1>6, <1>7 DEF Codes

\* The layer below is down.
Below(g) == g.state \in {"INITIAL", "STARTING"}

\* No function but fsm_lowerup takes an fsm from below; its timer does not run there.
LEMMA StaysBelow ==
    ASSUME NEW g \in Fsm, Inv(g), Below(g)
    PROVE  /\ Below(Open(g))
           /\ Close(g).state = "INITIAL" /\ ProtReject(g) = g
           /\ \A m : Input(g, m) = g
           /\ g.timers = 0
  <1>1. Below(Open(g)) /\ Close(g).state = "INITIAL"
    BY DEF Below, Open, Close, Starting, Goto, Fsm
  <1>2. ProtReject(g) = g /\ \A m : Input(g, m) = g
    BY DEF Below, ProtReject, Input
  <1>3. g.timers = 0
    BY DEF Below, Inv
  <1>4. QED
    BY <1>1, <1>2, <1>3
=============================================================================
