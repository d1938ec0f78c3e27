----------------------------- MODULE LinkProofs -----------------------------
(***************************************************************************)
(* Two fsms of pppd on a line: what an open end uses is what the other one *)
(* acknowledged, for every pair of units with any options, limits and      *)
(* flags, as long as no identifier comes round while it is on the line.    *)
(***************************************************************************)
EXTENDS PppLink, FsmLemmas

USE DEF States, Negotiating, Terminating, Waiting

-----------------------------------------------------------------------------
(***************************************************************************)
(* What a function of fsm.c does to the negotiation: the request in force  *)
(* (reqid and go), the options acknowledged to the peer (ho), the frames   *)
(* sent.                                                                   *)
(***************************************************************************)
Active(g) == g.state \in Negotiating \cup {"OPENED"}
Accepted(g) == g.state \in {"ACKRCVD", "OPENED"}

\* A fsm between two events
Ready(g) == g \in Fsm /\ Inv(g) /\ g.id = g.reqid /\ g.out = <<>>

\* What is sent as a request is the request in force.
Honest(g) ==
    /\ g.id = g.reqid
    /\ \A m \in ToSet(g.out) :
         /\ m.code # "Other"
         /\ m.code = "ConfReq" => Active(g) /\ m.id = g.reqid /\ m.val = g.go

NoAck(g) == \A m \in ToSet(g.out) : m.code # "ConfAck"

\* The request in force is the one of before, or a new one without an answer.
Follows(g, h) ==
    IF h.reqid = g.reqid THEN Active(h) => Active(g) /\ h.go = g.go
                         ELSE ~Accepted(h)

\* Nothing was acknowledged, on either side
Steady(g, h) ==
    /\ Honest(h) /\ Follows(g, h)
    /\ Accepted(h) => Accepted(g)
    /\ h.ho = g.ho /\ NoAck(h)

\* The fields of the negotiation are the same.
Same(g, h) ==
    /\ h.unit = g.unit
    /\ h.id = g.id /\ h.reqid = g.reqid
    /\ h.go = g.go /\ h.ho = g.ho /\ h.out = g.out

LEMMA SamePrimitives ==
    ASSUME NEW g \in Fsm
    PROVE  /\ \A q \in States : Same(g, Goto(g, q))
           /\ Same(g, Timeout(g)) /\ Same(g, Untimeout(g))
           /\ Same(g, Up(g)) /\ Same(g, Down(g))
           /\ Same(g, Starting(g)) /\ Same(g, Finished(g))
  BY DEF Same, Goto, Timeout, Untimeout, Up, Down, Starting, Finished, Fsm

LEMMA SetOfAppend ==
    ASSUME NEW S, NEW t \in Seq(S), NEW m \in S
    PROVE  ToSet(Append(t, m)) = ToSet(t) \cup {m}
  <1>1. /\ DOMAIN t = 1 .. Len(t) /\ Len(t) \in Nat
        /\ DOMAIN Append(t, m) = 1 .. Len(t) + 1
    OBVIOUS
  <1>2. \A i \in 1 .. Len(t) : Append(t, m)[i] = t[i]
    OBVIOUS
  <1>3. Append(t, m)[Len(t) + 1] = m
    OBVIOUS
  <1>4. QED
    BY <1>1, <1>2, <1>3 DEF ToSet

LEMMA SetOfNothing == ToSet(<<>>) = {}
  BY DEF ToSet

LEMMA SDataTalk ==
    ASSUME NEW g \in Fsm, NEW c \in Codes, NEW i \in Ids,
           NEW v \in Options \cup {Garbage}
    PROVE  LET h == SData(g, c, i, v)
           IN  /\ h.unit = g.unit /\ h.state = g.state
               /\ h.id = g.id /\ h.reqid = g.reqid
               /\ h.go = g.go /\ h.ho = g.ho
               /\ ToSet(h.out) = ToSet(g.out) \cup {[code |-> c, id |-> i, val |-> v]}
  <1> DEFINE m == [code |-> c, id |-> i, val |-> v]
  <1>1. m \in Frame
    BY DEF Frame
  <1>2. g.out \in Seq(Frame)
    BY DEF Fsm
  <1>3. ToSet(Append(g.out, m)) = ToSet(g.out) \cup {m}
    <2> HIDE DEF m
    <2>1. QED
      BY <1>1, <1>2, SetOfAppend
  <1>4. SData(g, c, i, v).out = Append(g.out, m)
    BY DEF SData, Fsm
  <1>5. QED
    BY <1>3, <1>4 DEF SData, Fsm

\* ++f->id is another identifier.
LEMMA NextIdDiffers == ASSUME NEW g \in Fsm PROVE NextId(g) # g.id /\ NextId(g) \in Ids
  <1>1. g.id \in 0 .. IdMod - 1 /\ IdMod \in Nat /\ IdMod > 1
    BY BoundsAssumption, LineAssumption DEF Fsm, Ids
  <1>2. CASE g.id + 1 < IdMod
    <2>1. (g.id + 1) % IdMod = g.id + 1
      BY <1>1, <1>2
    <2>2. QED
      BY <1>1, <1>2, <2>1 DEF NextId, Ids
  <1>3. CASE g.id + 1 = IdMod
    <2>1. (g.id + 1) % IdMod = 0
      BY <1>1, <1>3
    <2>2. QED
      BY <1>1, <1>3, <2>1 DEF NextId, Ids
  <1>4. QED
    BY <1>1, <1>2, <1>3

LEMMA WantedType == ASSUME NEW g \in Fsm PROVE Wanted[g.unit] \in Options
  BY UnitsAssumption DEF Fsm, Options

LEMMA SConfReqTalk ==
    ASSUME NEW g \in Fsm, NEW r \in BOOLEAN
    PROVE  LET h == SConfReq(g, r)
           IN  /\ h \in Fsm
               /\ h.unit = g.unit /\ h.state = g.state /\ h.ho = g.ho
               /\ h.id = (IF r THEN g.id ELSE NextId(g))
               /\ h.reqid = (IF r THEN g.reqid ELSE NextId(g))
               /\ h.go = (IF g.state \in Negotiating THEN g.go ELSE Wanted[g.unit])
               /\ ToSet(h.out) = ToSet(g.out)
                    \cup {[code |-> "ConfReq", id |-> h.reqid, val |-> h.go]}
  <1> DEFINE h == SConfReq(g, r)
             m == [code |-> "ConfReq", id |-> h.reqid, val |-> h.go]
  <1>1. h \in Fsm /\ h.unit = g.unit /\ h.state = g.state
    BY SConfReqEffect
  <1>2. /\ h.ho = g.ho
        /\ h.id = (IF r THEN g.id ELSE NextId(g))
        /\ h.reqid = (IF r THEN g.reqid ELSE NextId(g))
        /\ h.go = (IF g.state \in Negotiating THEN g.go ELSE Wanted[g.unit])
    <2>1. CASE r /\ g.state \in Negotiating
      BY <2>1 DEF SConfReq, Timeout, SData, NewRequest, ResetCI, NextId, Fsm
    <2>2. CASE ~r /\ g.state \in Negotiating
      BY <2>2 DEF SConfReq, Timeout, SData, NewRequest, ResetCI, NextId, Fsm
    <2>3. CASE r /\ g.state \notin Negotiating
      BY <2>3 DEF SConfReq, Timeout, SData, NewRequest, ResetCI, NextId, Fsm
    <2>4. CASE ~r /\ g.state \notin Negotiating
      BY <2>4 DEF SConfReq, Timeout, SData, NewRequest, ResetCI, NextId, Fsm
    <2>5. QED
      BY <2>1, <2>2, <2>3, <2>4
  <1>3. h.out = Append(g.out, m)
    <2>1. CASE r /\ g.state \in Negotiating
      BY <2>1, <1>2 DEF SConfReq, Timeout, SData, NewRequest, ResetCI, NextId, Fsm
    <2>2. CASE ~r /\ g.state \in Negotiating
      BY <2>2, <1>2 DEF SConfReq, Timeout, SData, NewRequest, ResetCI, NextId, Fsm
    <2>3. CASE r /\ g.state \notin Negotiating
      BY <2>3, <1>2 DEF SConfReq, Timeout, SData, NewRequest, ResetCI, NextId, Fsm
    <2>4. CASE ~r /\ g.state \notin Negotiating
      BY <2>4, <1>2 DEF SConfReq, Timeout, SData, NewRequest, ResetCI, NextId, Fsm
    <2>5. QED
      BY <2>1, <2>2, <2>3, <2>4
  <1>4. m \in Frame
    <2>1. h.reqid \in Ids /\ h.go \in Options
      BY <1>1 DEF Fsm
    <2>2. QED
      BY <2>1 DEF Frame, Codes
  <1>5. g.out \in Seq(Frame)
    BY DEF Fsm
  <1> HIDE DEF m
  <1>6. ToSet(h.out) = ToSet(g.out) \cup {m}
    BY <1>3, <1>4, <1>5, SetOfAppend
  <1>7. QED
    BY <1>1, <1>2, <1>6 DEF m
-----------------------------------------------------------------------------
(* The calls from below and above, and the timer *)

LEMMA NewRequestSteady ==
    ASSUME NEW b \in Fsm, b.id = b.reqid, b.out = <<>>,
           NEW g \in Fsm, Same(b, g), NEW h,
           \/ h = Goto(SConfReq(g, FALSE), "REQSENT")
           \/ h = SConfReq(g, FALSE) /\ g.state \in {"REQSENT", "ACKSENT"}
    PROVE  /\ Steady(b, h) /\ h \in Fsm
           /\ h.unit = b.unit /\ h.reqid # b.reqid
           /\ h.state \in {"REQSENT", "ACKSENT"}
           /\ h.state = "REQSENT" \/ h = SConfReq(g, FALSE)
  <1> DEFINE k == SConfReq(g, FALSE)
  <1>1. /\ k \in Fsm /\ k.unit = g.unit /\ k.state = g.state /\ k.ho = g.ho
        /\ k.id = NextId(g) /\ k.reqid = NextId(g)
        /\ ToSet(k.out) = ToSet(g.out)
             \cup {[code |-> "ConfReq", id |-> k.reqid, val |-> k.go]}
    BY SConfReqTalk
  <1>2. NextId(g) # b.reqid /\ ToSet(g.out) = {} /\ k.unit = b.unit /\ k.ho = b.ho
    BY <1>1, NextIdDiffers, SetOfNothing DEF Same
  <1>3. /\ h \in Fsm /\ h.state \in {"REQSENT", "ACKSENT"}
        /\ h.state = "REQSENT" \/ h = k
        /\ h.unit = k.unit /\ h.id = k.id /\ h.reqid = k.reqid
        /\ h.go = k.go /\ h.ho = k.ho /\ h.out = k.out
    <2>1. CASE h = Goto(k, "REQSENT")
      <3> HIDE DEF k
      <3>1. Same(k, Goto(k, "REQSENT"))
        BY <1>1, SamePrimitives
      <3>2. Goto(k, "REQSENT") \in Fsm /\ Goto(k, "REQSENT").state = "REQSENT"
        BY <1>1, GotoEffect
      <3>3. QED
        BY <2>1, <3>1, <3>2 DEF Same
    <2>2. CASE h = k /\ g.state \in {"REQSENT", "ACKSENT"}
      BY <2>2, <1>1
    <2>3. QED
      BY <2>1, <2>2
  <1> HIDE DEF k
  <1>4. Honest(h) /\ NoAck(h)
    BY <1>1, <1>2, <1>3 DEF Honest, NoAck, Active
  <1>5. QED
    BY <1>1, <1>2, <1>3, <1>4 DEF Steady, Follows, Accepted, k

LEMMA MoveSteady ==
    ASSUME NEW g, g.id = g.reqid, g.out = <<>>, NEW h, Same(g, h),
           Active(h) => Active(g), Accepted(h) => Accepted(g)
    PROVE  Steady(g, h)
  BY SetOfNothing DEF Steady, Honest, Follows, NoAck, Same

\* A frame that is neither a request nor an acknowledgement
LEMMA SendSteady ==
    ASSUME NEW g, NEW h \in Fsm, Steady(g, h),
           NEW c \in Codes \ {"ConfReq", "ConfAck", "Other"}, NEW i \in Ids,
           NEW v \in Options \cup {Garbage}
    PROVE  Steady(g, SData(h, c, i, v))
  <1> DEFINE k == SData(h, c, i, v)
             m == [code |-> c, id |-> i, val |-> v]
  <1>1. /\ k.state = h.state /\ k.id = h.id /\ k.reqid = h.reqid
        /\ k.go = h.go /\ k.ho = h.ho
        /\ ToSet(k.out) = ToSet(h.out) \cup {m}
    BY SDataTalk
  <1>2. m.code \notin {"ConfReq", "ConfAck", "Other"}
    OBVIOUS
  <1> HIDE DEF k, m
  <1>3. QED
    BY <1>1, <1>2 DEF Steady, Honest, Follows, NoAck, Active, Accepted, k

LEMMA BeginSteady ==
    ASSUME NEW b \in Fsm, b.id = b.reqid, b.out = <<>>,
           NEW g \in Fsm, Same(b, g)
    PROVE  Steady(b, Begin(g))
  <1>1. CASE Has(g, "silent")
    <2>1. Begin(g) = Goto(g, "STOPPED")
      BY <1>1 DEF Begin
    <2>2. Goto(g, "STOPPED").state = "STOPPED" /\ Same(g, Goto(g, "STOPPED"))
      BY GotoEffect, SamePrimitives
    <2>3. QED
      BY <2>1, <2>2, MoveSteady DEF Same, Active, Accepted
  <1>2. CASE ~Has(g, "silent")
    <2>1. Begin(g) = Goto(SConfReq(g, FALSE), "REQSENT")
      BY <1>2 DEF Begin
    <2>2. QED
      BY <2>1, NewRequestSteady
  <1>3. QED
    BY <1>1, <1>2

LEMMA LowerupSteady ==
    ASSUME NEW b \in Fsm, b.id = b.reqid, b.out = <<>>,
           NEW g \in Fsm, Same(b, g), g.state \in {"INITIAL", "STARTING"}
    PROVE  Steady(b, Lowerup(g))
  <1>1. CASE g.state = "INITIAL"
    <2>1. Lowerup(g) = Goto(g, "CLOSED")
      BY <1>1 DEF Lowerup
    <2>2. Goto(g, "CLOSED").state = "CLOSED" /\ Same(g, Goto(g, "CLOSED"))
      BY GotoEffect, SamePrimitives
    <2>3. QED
      BY <2>1, <2>2, MoveSteady DEF Same, Active, Accepted
  <1>2. CASE g.state = "STARTING"
    BY <1>2, BeginSteady DEF Lowerup
  <1>3. QED
    BY <1>1, <1>2

LEMMA LowerdownTalk ==
    ASSUME NEW g \in Fsm
    PROVE  /\ Same(g, Lowerdown(g))
           /\ Lowerdown(g) \in Fsm
           /\ Lowerdown(g).state \in {"INITIAL", "STARTING"}
  <1>1. CASE g.state \in {"INITIAL", "STARTING"}
    BY <1>1 DEF Lowerdown, Same
  <1>2. CASE g.state = "CLOSED"
    BY <1>2, GotoEffect, SamePrimitives DEF Lowerdown
  <1>3. CASE g.state = "STOPPED"
    <2> DEFINE k == Goto(g, "STARTING")
    <2>1. k \in Fsm /\ k.state = "STARTING" /\ Same(g, k)
      BY GotoEffect, SamePrimitives
    <2>2. Lowerdown(g) = Starting(k)
      BY <1>3 DEF Lowerdown
    <2> HIDE DEF k
    <2>3. QED
      BY <2>1, <2>2, StartingEffect, SamePrimitives DEF Same
  <1>4. CASE g.state \in Negotiating \cup Terminating
    <2>1. PICK q \in {"INITIAL", "STARTING"} : Lowerdown(g) = Untimeout(Goto(g, q))
      BY <1>4 DEF Lowerdown
    <2> DEFINE k == Goto(g, q)
    <2>2. k \in Fsm /\ k.state = q /\ Same(g, k)
      BY GotoEffect, SamePrimitives
    <2> HIDE DEF k
    <2>3. QED
      BY <2>1, <2>2, UntimeoutEffect, SamePrimitives DEF Same, k
  <1>5. CASE g.state = "OPENED"
    <2> DEFINE k == Down(g)
    <2>1. k \in Fsm /\ Same(g, k)
      BY DownEffect, SamePrimitives
    <2>2. Lowerdown(g) = Goto(k, "STARTING")
      BY <1>5 DEF Lowerdown
    <2> HIDE DEF k
    <2>3. Same(k, Goto(k, "STARTING"))
      BY <2>1, SamePrimitives
    <2>4. Goto(k, "STARTING") \in Fsm /\ Goto(k, "STARTING").state = "STARTING"
      BY <2>1, GotoEffect
    <2>5. QED
      BY <2>1, <2>2, <2>3, <2>4 DEF Same
  <1>6. g.state \in States
    BY UnitBounds
  <1>7. QED
    BY <1>1, <1>2, <1>3, <1>4, <1>5, <1>6

LEMMA LowerdownSteady ==
    ASSUME NEW g, Ready(g)
    PROVE  Steady(g, Lowerdown(g))
  BY LowerdownTalk, MoveSteady DEF Ready, Active, Accepted

\* A restartable layer that is opened again
LEMMA AgainSteady ==
    ASSUME NEW b \in Fsm, b.id = b.reqid, b.out = <<>>,
           NEW g \in Fsm, Same(b, g),
           g.state = b.state \/ ~Active(g)
    PROVE  Steady(b, IF Has(g, "restart") THEN Lowerup(Lowerdown(g)) ELSE g)
  <1>1. CASE Has(g, "restart")
    <2> DEFINE k == Lowerdown(g)
    <2>1. k \in Fsm /\ Same(b, k) /\ k.state \in {"INITIAL", "STARTING"}
      BY LowerdownTalk DEF Same
    <2> HIDE DEF k
    <2>2. QED
      BY <1>1, <2>1, LowerupSteady DEF k
  <1>2. CASE ~Has(g, "restart")
    BY <1>2, MoveSteady DEF Active, Accepted
  <1>3. QED
    BY <1>1, <1>2

LEMMA OpenSteady ==
    ASSUME NEW g, Ready(g)
    PROVE  Steady(g, Open(g))
  <1>1. g \in Fsm /\ g.id = g.reqid /\ g.out = <<>> /\ Same(g, g)
    BY DEF Ready, Same
  <1>2. CASE g.state = "INITIAL"
    <2> DEFINE k == Goto(g, "STARTING")
    <2>1. k \in Fsm /\ k.state = "STARTING" /\ Same(g, k)
      BY <1>1, GotoEffect, SamePrimitives
    <2>2. Open(g) = Starting(k)
      BY <1>2 DEF Open
    <2> HIDE DEF k
    <2>3. Same(g, Starting(k)) /\ Starting(k).state = "STARTING"
      BY <2>1, StartingEffect, SamePrimitives DEF Same
    <2>4. QED
      BY <1>1, <2>2, <2>3, MoveSteady DEF Active, Accepted
  <1>3. CASE g.state = "CLOSED"
    BY <1>1, <1>3, BeginSteady DEF Open
  <1>4. CASE g.state = "CLOSING"
    <2> DEFINE k == Goto(g, "STOPPING")
    <2>1. k \in Fsm /\ Same(g, k) /\ k.state = "STOPPING"
      BY <1>1, GotoEffect, SamePrimitives
    <2>2. Open(g) = IF Has(k, "restart") THEN Lowerup(Lowerdown(k)) ELSE k
      BY <1>4 DEF Open
    <2> HIDE DEF k
    <2>3. QED
      BY <1>1, <2>1, <2>2, AgainSteady DEF Active
  <1>5. CASE g.state \in {"STOPPED", "OPENED"}
    <2>1. Open(g) = IF Has(g, "restart") THEN Lowerup(Lowerdown(g)) ELSE g
      BY <1>5 DEF Open
    <2>2. QED
      BY <1>1, <2>1, AgainSteady
  <1>6. CASE g.state \notin {"INITIAL", "CLOSED", "CLOSING", "STOPPED", "OPENED"}
    <2>1. Open(g) = g
      BY <1>6 DEF Open
    <2>2. QED
      BY <1>1, <2>1, MoveSteady
  <1>7. QED
    BY <1>2, <1>3, <1>4, <1>5, <1>6

LEMMA TerminateLayerSteady ==
    ASSUME NEW g, Ready(g), Active(g), NEW next \in {"CLOSING", "STOPPING"}
    PROVE  Steady(g, TerminateLayer(g, next))
  <1> DEFINE quiet == IF g.state = "OPENED" THEN Down(g) ELSE Untimeout(g)
             loaded == [quiet EXCEPT !.retransmits = MaxTermReq[g.unit]]
             req == NewRequest(loaded)
             sent == SData(req, "TermReq", req.reqid, NoOpt)
             done == IF next = "CLOSING" THEN "CLOSED" ELSE "STOPPED"
             less == [sent EXCEPT !.retransmits = @ - 1, !.state = next]
  <1>1. g \in Fsm /\ g.id = g.reqid /\ g.out = <<>>
    BY DEF Ready
  <1>2. quiet \in Fsm /\ Same(g, quiet)
    BY <1>1, DownEffect, UntimeoutEffect, SamePrimitives
  <1> HIDE DEF quiet
  <1>3. loaded \in Fsm /\ Same(g, loaded)
    <2>1. MaxTermReq[g.unit] \in Int
      BY <1>1, UnitBounds
    <2>2. QED
      BY <1>2, <2>1, Updates DEF Same, Fsm
  <1>4. TerminateLayer(g, next) =
          IF sent.retransmits = 0 THEN Finished(Goto(sent, done)) ELSE Timeout(less)
    BY <1>2 DEF TerminateLayer, quiet, Same
  <1> HIDE DEF loaded
  <1>5. /\ req \in Fsm /\ req.ho = g.ho /\ req.out = <<>>
        /\ req.id = NextId(loaded) /\ req.reqid = NextId(loaded)
        /\ NextId(loaded) # g.reqid
    <2>1. req \in Fsm
      BY <1>3, NewRequestEffect
    <2>2. NextId(loaded) # loaded.id
      BY <1>3, NextIdDiffers
    <2>3. QED
      BY <1>1, <1>3, <2>1, <2>2 DEF NewRequest, Same, Fsm
  <1> HIDE DEF req
  <1>6. /\ sent \in Fsm /\ sent.ho = g.ho
        /\ sent.id = sent.reqid /\ sent.reqid # g.reqid
        /\ ToSet(sent.out) = {[code |-> "TermReq", id |-> req.reqid, val |-> NoOpt]}
    <2>1. req.reqid \in Ids
      BY <1>5, UnitBounds
    <2>2. "TermReq" \in Codes /\ NoOpt \in Options \cup {Garbage}
      BY Nothing DEF Codes
    <2>3. sent \in Fsm
      BY <1>5, <2>1, <2>2, SDataEffect
    <2>4. /\ sent.ho = req.ho /\ sent.id = req.id /\ sent.reqid = req.reqid
          /\ ToSet(sent.out) = ToSet(req.out)
               \cup {[code |-> "TermReq", id |-> req.reqid, val |-> NoOpt]}
      BY <1>5, <2>1, <2>2, SDataTalk
    <2>5. QED
      BY <1>5, <2>3, <2>4, SetOfNothing
  <1> HIDE DEF sent
  <1>7. \A k : Same(sent, k) /\ ~Active(k) => Steady(g, k)
    BY <1>6 DEF Steady, Honest, Follows, NoAck, Same, Active, Accepted
  <1>8. CASE sent.retransmits = 0
    <2> DEFINE k == Goto(sent, done)
    <2>1. k \in Fsm /\ k.state = done /\ Same(sent, k)
      BY <1>6, GotoEffect, SamePrimitives
    <2> HIDE DEF k
    <2>2. Same(sent, Finished(k)) /\ Finished(k).state = done
      BY <2>1, FinishedEffect, SamePrimitives DEF Same
    <2>3. QED
      BY <1>4, <1>7, <1>8, <2>2 DEF k, Active
  <1>9. CASE sent.retransmits # 0
    <2>1. less \in Fsm /\ Same(sent, less) /\ less.state = next
      <3>1. sent.retransmits - 1 \in Int
        BY <1>6 DEF Fsm
      <3>2. QED
        BY <1>6, <3>1 DEF Same, Fsm
    <2> HIDE DEF less
    <2>2. Same(sent, Timeout(less)) /\ Timeout(less).state = next
      BY <2>1, TimeoutEffect, SamePrimitives DEF Same
    <2>3. QED
      BY <1>4, <1>7, <1>9, <2>2 DEF Active
  <1>10. QED
    BY <1>8, <1>9

LEMMA CloseSteady ==
    ASSUME NEW g, Ready(g)
    PROVE  Steady(g, Close(g))
  <1>1. g \in Fsm /\ g.id = g.reqid /\ g.out = <<>>
    BY DEF Ready
  <1>2. CASE g.state \in Negotiating \cup {"OPENED"}
    BY <1>2, TerminateLayerSteady DEF Close, Active
  <1>3. CASE g.state \in {"STARTING", "STOPPED", "STOPPING"}
    <2>1. PICK q \in {"INITIAL", "CLOSED", "CLOSING"} : Close(g) = Goto(g, q)
      BY <1>3 DEF Close
    <2>2. Goto(g, q).state = q /\ Same(g, Goto(g, q))
      BY <1>1, GotoEffect, SamePrimitives
    <2>3. QED
      BY <1>1, <2>1, <2>2, MoveSteady DEF Active, Accepted
  <1>4. CASE g.state \in {"INITIAL", "CLOSED", "CLOSING"}
    <2>1. Close(g) = g
      BY <1>4 DEF Close
    <2>2. QED
      BY <1>1, <2>1, MoveSteady DEF Same
  <1>5. QED
    BY <1>1, <1>2, <1>3, <1>4, UnitBounds

\* fsm_timeout, its entry taken off the list
LEMMA ExpireSteady ==
    ASSUME NEW g, Ready(g)
    PROVE  Steady(g, Expire(Untimeout(g)))
  <1> DEFINE u == Untimeout(g)
  <1>1. /\ g \in Fsm /\ g.id = g.reqid /\ g.out = <<>>
        /\ u \in Fsm /\ Same(g, u) /\ u.state = g.state
    BY UntimeoutEffect, SamePrimitives DEF Ready
  <1> HIDE DEF u
  <1>2. CASE u.state \notin Negotiating \cup Terminating
    BY <1>1, <1>2, MoveSteady DEF Expire, Active, Accepted, u
  <1>3. CASE u.state \in Negotiating \cup Terminating /\ u.retransmits <= 0
    <2>1. Expire(u) = GiveUp(u)
      BY <1>3 DEF Expire
    <2>2. PICK q \in {"CLOSED", "STOPPED"} : GiveUp(u) \in {Goto(u, q), Finished(Goto(u, q))}
      BY DEF GiveUp
    <2> DEFINE k == Goto(u, q)
    <2>3. k \in Fsm /\ k.state = q /\ Same(u, k)
      BY <1>1, GotoEffect, SamePrimitives
    <2> HIDE DEF k
    <2>4. Same(u, Finished(k)) /\ Finished(k).state = q
      BY <2>3, FinishedEffect, SamePrimitives DEF Same
    <2>5. QED
      BY <1>1, <2>1, <2>2, <2>3, <2>4, MoveSteady DEF Same, Active, Accepted, k, u
  <1>4. CASE u.state \in Terminating /\ ~(u.retransmits <= 0)
    <2> DEFINE req == NewRequest(u)
               less == [req EXCEPT !.retransmits = @ - 1]
               sent == SData(less, "TermReq", req.reqid, NoOpt)
    <2>1. Expire(u) = Timeout(sent)
      BY <1>4 DEF Expire, ResendTermReq
    <2>2. /\ req \in Fsm /\ req.ho = g.ho /\ req.out = <<>> /\ req.state = u.state
          /\ req.id = NextId(u) /\ req.reqid = NextId(u)
          /\ NextId(u) # g.reqid
      <3>1. req \in Fsm
        BY <1>1, NewRequestEffect
      <3>2. NextId(u) # u.id
        BY <1>1, NextIdDiffers
      <3>3. QED
        BY <1>1, <3>1, <3>2 DEF NewRequest, Same, Fsm
    <2> HIDE DEF req
    <2>3. less \in Fsm /\ Same(req, less) /\ less.state = u.state
      <3>1. req.retransmits - 1 \in Int
        BY <2>2 DEF Fsm
      <3>2. QED
        BY <2>2, <3>1, Updates DEF Same, Fsm
    <2> HIDE DEF less
    <2>4. /\ sent \in Fsm /\ sent.ho = g.ho /\ sent.state = u.state
          /\ sent.id = sent.reqid /\ sent.reqid # g.reqid
          /\ ToSet(sent.out) = {[code |-> "TermReq", id |-> req.reqid, val |-> NoOpt]}
      <3>1. req.reqid \in Ids
        BY <2>2, UnitBounds
      <3>2. "TermReq" \in Codes /\ NoOpt \in Options \cup {Garbage}
        BY Nothing DEF Codes
      <3>3. sent \in Fsm
        BY <2>3, <3>1, <3>2, SDataEffect
      <3>4. /\ sent.ho = less.ho /\ sent.id = less.id /\ sent.reqid = less.reqid
            /\ sent.state = less.state
            /\ ToSet(sent.out) = ToSet(less.out)
                 \cup {[code |-> "TermReq", id |-> req.reqid, val |-> NoOpt]}
        BY <2>3, <3>1, <3>2, SDataTalk
      <3>5. QED
        BY <2>2, <2>3, <3>3, <3>4, SetOfNothing DEF Same
    <2> HIDE DEF sent
    <2>5. Same(sent, Timeout(sent)) /\ Timeout(sent).state = u.state
      BY <2>4, TimeoutEffect, SamePrimitives
    <2>6. ~Active(Timeout(sent)) /\ ~Accepted(Timeout(sent))
      BY <1>4, <2>5 DEF Active, Accepted
    <2>7. QED
      BY <2>1, <2>4, <2>5, <2>6 DEF Steady, Honest, Follows, NoAck, Same, u
  <1>5. CASE u.state \in Negotiating /\ ~(u.retransmits <= 0)
    <2> DEFINE sent == SConfReq(u, TRUE)
    <2>1. Expire(u) = IF sent.state = "ACKRCVD" THEN Goto(sent, "REQSENT") ELSE sent
      BY <1>5 DEF Expire, ResendConfReq
    <2>2. /\ sent \in Fsm /\ sent.state = u.state /\ sent.ho = g.ho
          /\ sent.id = g.reqid /\ sent.reqid = g.reqid /\ sent.go = g.go
          /\ ToSet(sent.out) = {[code |-> "ConfReq", id |-> sent.reqid, val |-> sent.go]}
      BY <1>1, <1>5, SConfReqTalk, SetOfNothing DEF Same
    <2> HIDE DEF sent
    <2>3. \A k : Same(sent, k) /\ k.state \in {"REQSENT", "ACKSENT"} => Steady(g, k)
      BY <1>1, <1>5, <2>2 DEF Steady, Honest, Follows, NoAck, Same, Active, Accepted
    <2>4. CASE sent.state = "ACKRCVD"
      <3>1. Goto(sent, "REQSENT").state = "REQSENT" /\ Same(sent, Goto(sent, "REQSENT"))
        BY <2>2, GotoEffect, SamePrimitives
      <3>2. QED
        BY <2>1, <2>3, <2>4, <3>1 DEF u
    <2>5. CASE sent.state # "ACKRCVD"
      BY <1>5, <2>1, <2>2, <2>3, <2>5 DEF u, Same
    <2>6. QED
      BY <2>4, <2>5
  <1>6. QED
    BY <1>2, <1>3, <1>4, <1>5
-----------------------------------------------------------------------------
(* The frames *)

\* reqci of a unit acknowledges the options v.
Good(u, v) == v \in Accepts[u] \cup {NoOpt}

\* What fsm h, which was g, has answered to the frame m
Replies(g, h, m) ==
    \/ h.ho = g.ho /\ NoAck(h)
    \/ /\ m.code = "ConfReq"
       /\ Good(g.unit, m.val) => h.ho = m.val
       /\ \A q \in ToSet(h.out) :
            q.code = "ConfAck" => q.id = m.id /\ q.val = m.val /\ Good(g.unit, m.val)

Reacts(g, h, m) ==
    /\ Honest(h) /\ Follows(g, h) /\ Replies(g, h, m)
    /\ Accepted(h) =>
         Accepted(g) \/ (m.code = "ConfAck" /\ m.id = g.reqid /\ m.val = g.go)

LEMMA SteadyReacts ==
    ASSUME NEW g, NEW h, NEW m, Steady(g, h)
    PROVE  Reacts(g, h, m)
  BY DEF Steady, Reacts, Replies

\* Flags and counters that the negotiation does not look at
LEMMA SameCounters ==
    ASSUME NEW g \in Fsm, NEW h \in Fsm,
           \E n, x, b : h \in {[g EXCEPT !.rnakloops = n], [g EXCEPT !.retransmits = x],
                               [g EXCEPT !.seen_ack = b]}
    PROVE  Same(g, h) /\ h.state = g.state
  BY DEF Same, Fsm

LEMMA RConfAckReacts ==
    ASSUME NEW g, Ready(g), NEW m \in Frame, m.code = "ConfAck"
    PROVE  Reacts(g, RConfAck(g, m.id, m.val), m)
  <1> DEFINE a == [g EXCEPT !.seen_ack = TRUE, !.rnakloops = 0]
             fresh == [a EXCEPT !.retransmits = MaxConfReq[g.unit]]
  <1>1. g \in Fsm /\ g.id = g.reqid /\ g.out = <<>> /\ Inv(g)
    BY DEF Ready
  <1>2. CASE ~(Expected(g, m.id) /\ AckCI(g, m.val))
    <2>1. RConfAck(g, m.id, m.val) = g
      BY <1>2 DEF RConfAck
    <2>2. QED
      BY <1>1, <2>1, MoveSteady, SteadyReacts DEF Same
  <1>3. CASE Expected(g, m.id) /\ AckCI(g, m.val)
    <2>1. RConfAck(g, m.id, m.val) = Acked(g, m.id)
      BY <1>3 DEF RConfAck
    <2>2. m.id = g.reqid /\ m.val = g.go /\ g.state \notin {"ACKRCVD", "OPENED"}
      BY <1>1, <1>3 DEF Expected, AckCI, Inv
    <2>3. a \in Fsm /\ Same(g, a) /\ a.state = g.state
      BY <1>1 DEF Same, Fsm
    <2> HIDE DEF a
    <2>4. fresh \in Fsm /\ Same(g, fresh) /\ fresh.state = g.state
      <3>1. MaxConfReq[g.unit] \in Int
        BY <1>1, UnitBounds
      <3>2. fresh \in Fsm
        BY <2>3, <3>1, Updates
      <3>3. QED
        BY <2>3, <3>2 DEF Same, Fsm
    <2>5. Acked(g, m.id) =
            CASE g.state \in {"CLOSED", "STOPPED"} -> SData(a, "TermAck", m.id, NoOpt)
              [] g.state = "REQSENT" -> Goto(fresh, "ACKRCVD")
              [] g.state = "ACKRCVD" -> Goto(SConfReq(Untimeout(a), FALSE), "REQSENT")
              [] g.state = "ACKSENT" -> Up(Goto(Untimeout(fresh), "OPENED"))
              [] g.state = "OPENED"  -> Renegotiate(a)
              [] OTHER               -> a
      BY DEF Acked, a
    <2> HIDE DEF fresh
    <2>6. CASE g.state \in {"CLOSED", "STOPPED"}
      <3>1. Acked(g, m.id) = SData(a, "TermAck", m.id, NoOpt)
        BY <2>5, <2>6
      <3>2. Steady(g, a)
        BY <1>1, <2>3, MoveSteady DEF Active, Accepted
      <3>3. /\ "TermAck" \in Codes \ {"ConfReq", "ConfAck", "Other"}
            /\ m.id \in Ids /\ NoOpt \in Options \cup {Garbage}
        BY Nothing DEF Codes, Frame
      <3>4. QED
        BY <2>1, <2>3, <3>1, <3>2, <3>3, SendSteady, SteadyReacts
    <2>7. CASE g.state = "REQSENT"
      <3>1. Goto(fresh, "ACKRCVD").state = "ACKRCVD" /\ Same(fresh, Goto(fresh, "ACKRCVD"))
        BY <2>4, GotoEffect, SamePrimitives
      <3>2. Acked(g, m.id) = Goto(fresh, "ACKRCVD")
        BY <2>5, <2>7
      <3>3. QED
        BY <1>1, <2>1, <2>2, <2>4, <2>7, <3>1, <3>2, SetOfNothing
        DEF Same, Reacts, Replies, Honest, Follows, NoAck, Active
    <2>8. CASE g.state = "ACKSENT"
      <3> DEFINE u == Untimeout(fresh)
                 k == Goto(u, "OPENED")
      <3>1. u \in Fsm /\ Same(fresh, u)
        BY <2>4, UntimeoutEffect, SamePrimitives
      <3> HIDE DEF u
      <3>2. k \in Fsm /\ k.state = "OPENED" /\ Same(u, k)
        BY <3>1, GotoEffect, SamePrimitives
      <3> HIDE DEF k
      <3>3. Up(k).state = "OPENED" /\ Same(k, Up(k))
        BY <3>2, UpEffect, SamePrimitives
      <3>4. Acked(g, m.id) = Up(k)
        BY <2>5, <2>8 DEF k, u
      <3>5. QED
        BY <1>1, <2>1, <2>2, <2>4, <2>8, <3>1, <3>2, <3>3, <3>4, SetOfNothing
        DEF Same, Reacts, Replies, Honest, Follows, NoAck, Active
    <2>9. CASE g.state \notin {"CLOSED", "STOPPED"} \cup {"REQSENT", "ACKSENT"}
      <3>1. Acked(g, m.id) = a
        BY <2>2, <2>5, <2>9
      <3>2. QED
        BY <1>1, <2>1, <2>3, <3>1, MoveSteady, SteadyReacts DEF Active, Accepted
    <2>10. QED
      BY <2>6, <2>7, <2>8, <2>9
  <1>4. QED
    BY <1>2, <1>3

\* A new request of a fsm whose options have changed
LEMMA OptionsSteady ==
    ASSUME NEW g, NEW k, NEW h, Steady(k, h), k.ho = g.ho, k.reqid = g.reqid,
           h.reqid # k.reqid \/ ~Active(h), ~Accepted(h)
    PROVE  Steady(g, h)
  BY DEF Steady, Follows

LEMMA TryAgainSteady ==
    ASSUME NEW g, ~Accepted(g), NEW k \in Fsm, k.state = g.state,
           k.id = g.reqid, k.reqid = g.reqid, k.ho = g.ho, k.out = <<>>,
           NEW i \in Ids, NEW cease \in BOOLEAN
    PROVE  Steady(g, TryAgain(k, i, cease))
  <1> DEFINE a == [k EXCEPT !.seen_ack = TRUE]
  <1>1. a \in Fsm /\ Same(k, a) /\ a.state = g.state
    <2>1. a \in Fsm
      BY Updates
    <2>2. QED
      BY <2>1 DEF Same, Fsm
  <1>2. TryAgain(k, i, cease) =
          CASE k.state \in {"CLOSED", "STOPPED"} -> SData(a, "TermAck", i, NoOpt)
            [] k.state \in {"REQSENT", "ACKSENT"} ->
                 IF cease THEN Goto(Untimeout(a), "STOPPED")
                          ELSE SConfReq(Untimeout(a), FALSE)
            [] k.state = "ACKRCVD" -> Goto(SConfReq(Untimeout(a), FALSE), "REQSENT")
            [] k.state = "OPENED"  -> Renegotiate(a)
            [] OTHER               -> a
    BY DEF TryAgain
  <1> HIDE DEF a
  <1>3. ~Active(g) => Steady(g, a)
    <2>1. Steady(k, a)
      BY <1>1, MoveSteady DEF Active, Accepted
    <2>2. QED
      BY <1>1, <2>1, OptionsSteady DEF Active, Accepted
  <1>4. CASE k.state \in {"CLOSED", "STOPPED"}
    <2>1. TryAgain(k, i, cease) = SData(a, "TermAck", i, NoOpt)
      BY <1>2, <1>4
    <2>2. /\ "TermAck" \in Codes \ {"ConfReq", "ConfAck", "Other"}
          /\ NoOpt \in Options \cup {Garbage}
      BY Nothing DEF Codes
    <2>3. QED
      BY <1>1, <1>3, <1>4, <2>1, <2>2, SendSteady DEF Active
  <1>5. CASE k.state \in {"REQSENT", "ACKSENT"}
    <2> DEFINE u == Untimeout(a)
    <2>1. u \in Fsm /\ Same(k, u) /\ u.state = k.state
      BY <1>1, UntimeoutEffect, SamePrimitives DEF Same
    <2>2. TryAgain(k, i, cease) = IF cease THEN Goto(u, "STOPPED") ELSE SConfReq(u, FALSE)
      BY <1>2, <1>5
    <2> HIDE DEF u
    <2>3. CASE cease
      <3>1. Goto(u, "STOPPED").state = "STOPPED" /\ Same(u, Goto(u, "STOPPED"))
        BY <2>1, GotoEffect, SamePrimitives
      <3>2. Steady(k, Goto(u, "STOPPED"))
        BY <2>1, <3>1, MoveSteady DEF Same, Active, Accepted
      <3>3. QED
        BY <2>2, <2>3, <3>1, <3>2, OptionsSteady DEF Active, Accepted
    <2>4. CASE ~cease
      <3> DEFINE h == SConfReq(u, FALSE)
      <3>1. h = SConfReq(u, FALSE) /\ u.state \in {"REQSENT", "ACKSENT"}
        BY <1>5, <2>1
      <3> HIDE DEF h
      <3>2. Steady(k, h) /\ h.reqid # k.reqid /\ h.state \in {"REQSENT", "ACKSENT"}
        BY <2>1, <3>1, NewRequestSteady
      <3>3. QED
        BY <2>2, <2>4, <3>1, <3>2, OptionsSteady DEF Accepted
    <2>5. QED
      BY <2>3, <2>4
  <1>6. CASE k.state \notin {"CLOSED", "STOPPED"} \cup {"REQSENT", "ACKSENT"}
    <2>1. k.state \notin {"ACKRCVD", "OPENED"}
      BY DEF Accepted
    <2>2. TryAgain(k, i, cease) = a
      BY <1>2, <1>6, <2>1
    <2>3. QED
      BY <1>3, <1>6, <2>1, <2>2 DEF Active
  <1>7. QED
    BY <1>4, <1>5, <1>6

LEMMA RConfNakReacts ==
    ASSUME NEW g, Ready(g), NEW m \in Frame, m.code = "ConfNak"
    PROVE  Reacts(g, RConfNak(g, m.id, m.val), m)
  <1> DEFINE loops == IF g.rnakloops >= MaxNakLoops THEN MaxNakLoops
                                                    ELSE g.rnakloops + 1
             c == [g EXCEPT !.rnakloops = loops]
             k == NakCI(c, m.val, loops >= MaxNakLoops)
  <1>1. g \in Fsm /\ g.id = g.reqid /\ g.out = <<>> /\ Inv(g)
    BY DEF Ready
  <1>2. loops \in Nat
    BY <1>1, BoundsAssumption DEF Fsm
  <1>3. RConfNak(g, m.id, m.val) =
          IF ~Expected(g, m.id) THEN g
          ELSE IF ~GoodNak(c, m.val) THEN c
          ELSE TryAgain(k, m.id, FALSE)
    BY DEF RConfNak
  <1> HIDE DEF loops
  <1>4. c \in Fsm /\ Same(g, c) /\ c.state = g.state
    <2>1. c \in Fsm
      BY <1>1, <1>2, Updates
    <2>2. QED
      BY <1>1, <2>1 DEF Same, Fsm
  <1>5. c.seen_ack = g.seen_ack /\ Inv(c)
    <2>1. c \in {[g EXCEPT !.rnakloops = loops], [g EXCEPT !.go = NoOpt]}
      OBVIOUS
    <2> HIDE DEF c
    <2>2. QED
      BY <1>1, <1>2, <2>1, Nothing, OptionsChange
  <1> HIDE DEF c
  <1>6. CASE ~Expected(g, m.id)
    BY <1>1, <1>3, <1>6, MoveSteady, SteadyReacts DEF Same
  <1>7. CASE Expected(g, m.id) /\ ~GoodNak(c, m.val)
    BY <1>1, <1>3, <1>4, <1>7, MoveSteady, SteadyReacts DEF Active, Accepted
  <1>8. CASE Expected(g, m.id) /\ GoodNak(c, m.val)
    <2>1. ~Accepted(g)
      BY <1>1, <1>8 DEF Expected, Inv, Accepted
    <2>2. m.val \in Options /\ m.id \in Ids
      BY <1>8 DEF GoodNak, Frame
    <2>3. k \in Fsm /\ k.state = g.state
      <3>1. (loops >= MaxNakLoops) \in BOOLEAN
        OBVIOUS
      <3>2. QED
        BY <1>4, <1>5, <2>2, <3>1, NakCIEffect
    <2>4. k.id = g.reqid /\ k.reqid = g.reqid /\ k.ho = g.ho /\ k.out = <<>>
      <3>1. k = c \/ \E v : k = [c EXCEPT !.go = v]
        BY DEF NakCI
      <3>2. QED
        BY <1>1, <1>4, <3>1 DEF Same, Fsm
    <2> HIDE DEF k
    <2>5. Steady(g, TryAgain(k, m.id, FALSE))
      BY <2>1, <2>2, <2>3, <2>4, TryAgainSteady
    <2>6. QED
      BY <1>3, <1>8, <2>5, SteadyReacts
  <1>9. QED
    BY <1>6, <1>7, <1>8

LEMMA RConfRejReacts ==
    ASSUME NEW g, Ready(g), NEW m \in Frame, m.code = "ConfRej"
    PROVE  Reacts(g, RConfRej(g, m.id, m.val), m)
  <1> DEFINE c == [g EXCEPT !.rnakloops = 0]
             k == RejCI(c, m.val)
             cease == CeaseRequests(c, m.val)
  <1>1. g \in Fsm /\ g.id = g.reqid /\ g.out = <<>> /\ Inv(g)
    BY DEF Ready
  <1>2. RConfRej(g, m.id, m.val) =
          IF ~Expected(g, m.id) THEN g
          ELSE IF ~GoodRej(c, m.val) THEN c
          ELSE TryAgain(k, m.id, cease)
    BY DEF RConfRej
  <1>3. c \in Fsm /\ Same(g, c) /\ c.state = g.state
    <2>1. c \in Fsm
      BY <1>1, Updates
    <2>2. QED
      BY <1>1, <2>1 DEF Same, Fsm
  <1>4. c.seen_ack = g.seen_ack /\ Inv(c)
    <2>1. 0 \in Nat /\ c \in {[g EXCEPT !.rnakloops = 0], [g EXCEPT !.go = NoOpt]}
      OBVIOUS
    <2> HIDE DEF c
    <2>2. QED
      BY <1>1, <2>1, Nothing, OptionsChange
  <1>5. cease \in BOOLEAN
    BY DEF CeaseRequests
  <1> HIDE DEF c, cease
  <1>6. CASE ~Expected(g, m.id)
    BY <1>1, <1>2, <1>6, MoveSteady, SteadyReacts DEF Same
  <1>7. CASE Expected(g, m.id) /\ ~GoodRej(c, m.val)
    BY <1>1, <1>2, <1>3, <1>7, MoveSteady, SteadyReacts DEF Active, Accepted
  <1>8. CASE Expected(g, m.id) /\ GoodRej(c, m.val)
    <2>1. ~Accepted(g)
      BY <1>1, <1>8 DEF Expected, Inv, Accepted
    <2>2. m.id \in Ids
      BY DEF Frame
    <2>3. k \in Fsm /\ k.state = g.state
      BY <1>3, <1>4, RejCIEffect
    <2>4. k.id = g.reqid /\ k.reqid = g.reqid /\ k.ho = g.ho /\ k.out = <<>>
      <3>1. k = c \/ \E v : k = [c EXCEPT !.go = v]
        BY DEF RejCI
      <3>2. QED
        BY <1>1, <1>3, <3>1 DEF Same, Fsm
    <2> HIDE DEF k
    <2>5. Steady(g, TryAgain(k, m.id, cease))
      BY <1>5, <2>1, <2>2, <2>3, <2>4, TryAgainSteady
    <2>6. QED
      BY <1>2, <1>8, <2>5, SteadyReacts
  <1>9. QED
    BY <1>6, <1>7, <1>8

LEMMA RTermReqSteady ==
    ASSUME NEW g, Ready(g), NEW i \in Ids
    PROVE  Steady(g, RTermReq(g, i))
  <1> DEFINE last == [g EXCEPT !.retransmits = 0]
             stop == Goto(last, "STOPPING")
             k == IF g.state \in {"ACKRCVD", "ACKSENT"} THEN Goto(g, "REQSENT")
                  ELSE IF g.state = "OPENED" THEN Timeout(Down(stop))
                  ELSE g
  <1>1. g \in Fsm /\ g.id = g.reqid /\ g.out = <<>> /\ Inv(g)
    BY DEF Ready
  <1>2. RTermReq(g, i) = SData(k, "TermAck", i, NoOpt)
    BY DEF RTermReq, Goto
  <1>3. k \in Fsm /\ Steady(g, k)
    <2>1. CASE g.state \in {"ACKRCVD", "ACKSENT"}
      <3>1. /\ Goto(g, "REQSENT") \in Fsm /\ Same(g, Goto(g, "REQSENT"))
            /\ Goto(g, "REQSENT").state = "REQSENT"
        BY <1>1, GotoEffect, SamePrimitives
      <3>2. QED
        BY <1>1, <2>1, <3>1, MoveSteady DEF Active, Accepted
    <2>2. CASE g.state = "OPENED"
      <3>1. last \in Fsm /\ Same(g, last)
        <4>1. last \in Fsm
          BY <1>1 DEF Fsm
        <4>2. QED
          BY <1>1, <4>1 DEF Same, Fsm
      <3> HIDE DEF last
      <3>2. stop \in Fsm /\ Same(last, stop) /\ stop.state = "STOPPING"
        BY <3>1, GotoEffect, SamePrimitives
      <3> HIDE DEF stop
      <3> DEFINE d == Down(stop)
      <3>3. d \in Fsm /\ Same(stop, d) /\ d.state = "STOPPING"
        BY <3>2, DownEffect, SamePrimitives
      <3> HIDE DEF d
      <3>4. Timeout(d) \in Fsm /\ Same(d, Timeout(d)) /\ Timeout(d).state = "STOPPING"
        BY <3>3, TimeoutEffect, SamePrimitives
      <3>5. k = Timeout(d)
        BY <2>2 DEF d
      <3>6. Same(g, k)
        BY <3>1, <3>2, <3>3, <3>4, <3>5 DEF Same
      <3>7. QED
        BY <1>1, <3>4, <3>5, <3>6, MoveSteady DEF Active, Accepted
    <2>3. CASE g.state \notin {"ACKRCVD", "ACKSENT", "OPENED"}
      BY <1>1, <2>3, MoveSteady DEF Same
    <2>4. QED
      BY <2>1, <2>2, <2>3
  <1> HIDE DEF k
  <1>4. /\ "TermAck" \in Codes \ {"ConfReq", "ConfAck", "Other"}
        /\ NoOpt \in Options \cup {Garbage}
    BY Nothing DEF Codes
  <1>5. QED
    BY <1>2, <1>3, <1>4, SendSteady

LEMMA RenegotiateSteady ==
    ASSUME NEW b \in Fsm, b.id = b.reqid, b.out = <<>>
    PROVE  /\ Steady(b, Renegotiate(b)) /\ Renegotiate(b) \in Fsm
           /\ Renegotiate(b).state = "REQSENT" /\ Renegotiate(b).unit = b.unit
           /\ Renegotiate(b).reqid # b.reqid
  <1> DEFINE d == Down(b)
             h == Goto(SConfReq(d, FALSE), "REQSENT")
  <1>1. d \in Fsm /\ Same(b, d)
    BY DownEffect, SamePrimitives
  <1>2. Renegotiate(b) = h
    BY DEF Renegotiate
  <1> HIDE DEF d
  <1>3. h.state = "REQSENT"
    BY <1>1, RequestEffect
  <1>4. \/ h = Goto(SConfReq(d, FALSE), "REQSENT")
        \/ h = SConfReq(d, FALSE) /\ d.state \in {"REQSENT", "ACKSENT"}
    OBVIOUS
  <1> HIDE DEF h
  <1>5. Steady(b, h)
    BY <1>1, <1>4, NewRequestSteady
  <1>6. h \in Fsm
    BY <1>1, <1>4, NewRequestSteady
  <1>7. h.unit = b.unit /\ h.reqid # b.reqid
    BY <1>1, <1>4, NewRequestSteady, ZenonT(40)
  <1>8. QED
    BY <1>2, <1>3, <1>5, <1>6, <1>7

LEMMA RTermAckSteady ==
    ASSUME NEW g, Ready(g)
    PROVE  Steady(g, RTermAck(g))
  <1>1. g \in Fsm /\ g.id = g.reqid /\ g.out = <<>>
    BY DEF Ready
  <1>2. CASE g.state \in {"CLOSING", "STOPPING"}
    <2>1. PICK q \in {"CLOSED", "STOPPED"} : RTermAck(g) = Finished(Goto(Untimeout(g), q))
      BY <1>2 DEF RTermAck
    <2> DEFINE u == Untimeout(g)
               k == Goto(u, q)
    <2>2. u \in Fsm /\ Same(g, u)
      BY <1>1, UntimeoutEffect, SamePrimitives
    <2> HIDE DEF u
    <2>3. k \in Fsm /\ Same(u, k) /\ k.state = q
      BY <2>2, GotoEffect, SamePrimitives
    <2> HIDE DEF k
    <2>4. Same(k, Finished(k)) /\ Finished(k).state = q
      BY <2>3, FinishedEffect, SamePrimitives
    <2>5. Same(g, Finished(k))
      BY <2>2, <2>3, <2>4 DEF Same
    <2>6. Steady(g, Finished(k))
      BY <1>1, <2>4, <2>5, MoveSteady DEF Active, Accepted
    <2>7. QED
      BY <2>1, <2>6 DEF k, u
  <1>3. CASE g.state = "ACKRCVD"
    <2>1. Goto(g, "REQSENT").state = "REQSENT" /\ Same(g, Goto(g, "REQSENT"))
      BY <1>1, GotoEffect, SamePrimitives
    <2>2. QED
      BY <1>1, <1>3, <2>1, MoveSteady DEF RTermAck, Active, Accepted
  <1>4. CASE g.state = "OPENED"
    BY <1>1, <1>4, RenegotiateSteady DEF RTermAck
  <1>5. CASE g.state \notin {"CLOSING", "STOPPING", "ACKRCVD", "OPENED"}
    <2>1. RTermAck(g) = g
      BY <1>5 DEF RTermAck
    <2>2. QED
      BY <1>1, <2>1, MoveSteady DEF Same
  <1>6. QED
    BY <1>2, <1>3, <1>4, <1>5

LEMMA RCodeRejSteady ==
    ASSUME NEW g, Ready(g)
    PROVE  Steady(g, RCodeRej(g))
  <1>1. g \in Fsm /\ g.id = g.reqid /\ g.out = <<>>
    BY DEF Ready
  <1>2. CASE g.state = "ACKRCVD"
    <2>1. Goto(g, "REQSENT").state = "REQSENT" /\ Same(g, Goto(g, "REQSENT"))
      BY <1>1, GotoEffect, SamePrimitives
    <2>2. QED
      BY <1>1, <1>2, <2>1, MoveSteady DEF RCodeRej, Active, Accepted
  <1>3. CASE g.state # "ACKRCVD"
    BY <1>1, <1>3, MoveSteady DEF RCodeRej, Same
  <1>4. QED
    BY <1>2, <1>3

\* The part of fsm_rconfreq that answers: x is g, or g after it has sent a request.
LEMMA AnswerReacts ==
    ASSUME NEW g, NEW x \in Fsm, x.unit = g.unit, x.state \in Negotiating,
           Steady(g, x), NEW m \in Frame, m.code = "ConfReq"
    PROVE  Reacts(g, Answer(x, m.id, m.val), m)
  <1> DEFINE i == m.id
             v == m.val
             fedUp == x.nakloops >= MaxNakLoops
             verdict == Verdict(x, v, fedUp)
             noted == ReqCI(x, v, verdict)
             sent == SData(noted, verdict, i, Reply(x, v, verdict))
             agreed == IF x.state = "ACKRCVD"
                         THEN Up(Goto(Untimeout(sent), "OPENED"))
                         ELSE Goto(sent, "ACKSENT")
             differ == IF x.state = "ACKRCVD" THEN sent ELSE Goto(sent, "REQSENT")
             h == CASE verdict = "ConfAck" -> [agreed EXCEPT !.nakloops = 0]
                    [] verdict = "ConfNak" -> [differ EXCEPT !.nakloops = @ + 1]
                    [] OTHER               -> differ
  <1>1. /\ i \in Ids /\ v \in Options \cup {Garbage} /\ fedUp \in BOOLEAN
        /\ Answer(x, m.id, m.val) = h
    BY DEF Frame, Answer
  <1>2. /\ verdict \in {"ConfAck", "ConfNak", "ConfRej"}
        /\ verdict = "ConfAck" => v \in Options
        /\ Reply(x, v, verdict) \in Options \cup {Garbage}
    BY <1>1, VerdictType
  <1>3. /\ verdict = "ConfAck" <=> Good(g.unit, v)
        /\ verdict = "ConfAck" => Reply(x, v, verdict) = v
    BY DEF Verdict, Good, Reply
  <1> DEFINE r == Reply(x, v, verdict)
  <1> HIDE DEF fedUp, verdict, r, i, v
  <1>4. /\ noted \in Fsm /\ noted.unit = x.unit /\ noted.state = x.state
        /\ noted.id = x.id /\ noted.reqid = x.reqid /\ noted.go = x.go
        /\ noted.out = x.out
        /\ noted.ho = IF verdict = "ConfAck" THEN v ELSE NoOpt
    <2>1. verdict \in Codes
      BY <1>2 DEF Codes
    <2>2. noted \in Fsm
      BY <1>1, <1>2, <2>1, ReqCIEffect
    <2>3. QED
      BY <2>2 DEF ReqCI, Fsm
  <1> HIDE DEF noted
  <1>5. /\ sent \in Fsm /\ sent.state = x.state
        /\ sent.id = x.id /\ sent.reqid = x.reqid /\ sent.go = x.go
        /\ sent.ho = noted.ho
        /\ ToSet(sent.out) = ToSet(x.out) \cup {[code |-> verdict, id |-> i, val |-> r]}
    <2>1. verdict \in Codes /\ r \in Options \cup {Garbage}
      BY <1>2 DEF Codes, r
    <2>2. sent = SData(noted, verdict, i, r)
      BY DEF r
    <2> HIDE DEF sent
    <2>3. sent \in Fsm
      BY <1>1, <1>4, <2>1, <2>2, SDataEffect
    <2>4. /\ sent.state = noted.state
          /\ sent.id = noted.id /\ sent.reqid = noted.reqid
          /\ sent.go = noted.go /\ sent.ho = noted.ho
          /\ ToSet(sent.out) = ToSet(noted.out)
               \cup {[code |-> verdict, id |-> i, val |-> r]}
      BY <1>1, <1>4, <2>1, <2>2, SDataTalk
    <2>5. QED
      BY <1>4, <2>3, <2>4
  <1> HIDE DEF sent
  <1>6. /\ agreed \in Fsm /\ Same(sent, agreed)
        /\ agreed.state = IF x.state = "ACKRCVD" THEN "OPENED" ELSE "ACKSENT"
    <2>1. CASE x.state = "ACKRCVD"
      <3> DEFINE u == Untimeout(sent)
                 k == Goto(u, "OPENED")
      <3>1. u \in Fsm /\ Same(sent, u)
        BY <1>5, UntimeoutEffect, SamePrimitives
      <3> HIDE DEF u
      <3>2. k \in Fsm /\ Same(u, k) /\ k.state = "OPENED"
        BY <3>1, GotoEffect, SamePrimitives
      <3> HIDE DEF k
      <3>3. Up(k) \in Fsm /\ Same(k, Up(k)) /\ Up(k).state = "OPENED"
        BY <3>2, UpEffect, SamePrimitives
      <3>4. agreed = Up(k)
        BY <2>1 DEF k, u
      <3>5. QED
        BY <2>1, <3>1, <3>2, <3>3, <3>4 DEF Same
    <2>2. CASE x.state # "ACKRCVD"
      <3>1. /\ Goto(sent, "ACKSENT") \in Fsm /\ Same(sent, Goto(sent, "ACKSENT"))
            /\ Goto(sent, "ACKSENT").state = "ACKSENT"
        BY <1>5, GotoEffect, SamePrimitives
      <3>2. QED
        BY <2>2, <3>1
    <2>3. QED
      BY <2>1, <2>2
  <1> HIDE DEF agreed
  <1>7. /\ differ \in Fsm /\ Same(sent, differ)
        /\ differ.state = IF x.state = "ACKRCVD" THEN "ACKRCVD" ELSE "REQSENT"
    <2>1. CASE x.state = "ACKRCVD"
      BY <1>5, <2>1 DEF Same
    <2>2. CASE x.state # "ACKRCVD"
      <3>1. /\ Goto(sent, "REQSENT") \in Fsm /\ Same(sent, Goto(sent, "REQSENT"))
            /\ Goto(sent, "REQSENT").state = "REQSENT"
        BY <1>5, GotoEffect, SamePrimitives
      <3>2. QED
        BY <2>2, <3>1
    <2>3. QED
      BY <2>1, <2>2
  <1> HIDE DEF differ
  <1>8. /\ Same(sent, h) /\ Active(h)
        /\ Accepted(h) => Accepted(x)
    <2>1. CASE verdict = "ConfAck"
      <3>1. h = [agreed EXCEPT !.nakloops = 0]
        BY <2>1
      <3>2. Same(agreed, h) /\ h.state = agreed.state
        BY <1>6, <3>1 DEF Same, Fsm
      <3>3. QED
        BY <1>6, <3>2 DEF Same, Active, Accepted
    <2>2. CASE verdict = "ConfNak"
      <3>1. h = [differ EXCEPT !.nakloops = @ + 1]
        BY <2>2
      <3>2. Same(differ, h) /\ h.state = differ.state
        BY <1>7, <3>1 DEF Same, Fsm
      <3>3. QED
        BY <1>7, <3>2 DEF Same, Active, Accepted
    <2>3. CASE verdict = "ConfRej"
      <3>1. h = differ
        BY <2>3
      <3>2. QED
        BY <1>7, <3>1 DEF Active, Accepted
    <2>4. QED
      BY <1>2, <2>1, <2>2, <2>3
  <1> HIDE DEF h
  <1>9. /\ h.id = x.id /\ h.reqid = x.reqid /\ h.go = x.go
        /\ h.ho = IF verdict = "ConfAck" THEN v ELSE NoOpt
        /\ ToSet(h.out) = ToSet(x.out) \cup {[code |-> verdict, id |-> i, val |-> r]}
    BY <1>4, <1>5, <1>8 DEF Same
  <1>10. Active(x)
    BY DEF Active
  <1>11. Honest(h) /\ Follows(g, h)
    BY <1>2, <1>8, <1>9, <1>10 DEF Steady, Honest, Follows
  <1>12. Replies(g, h, m)
    BY <1>2, <1>3, <1>9 DEF Steady, Replies, NoAck, i, v, r
  <1>13. Accepted(h) => Accepted(g)
    BY <1>8 DEF Steady
  <1>14. QED
    BY <1>1, <1>11, <1>12, <1>13 DEF Reacts

LEMMA RConfReqReacts ==
    ASSUME NEW g, Ready(g), LowerIsUp(g), NEW m \in Frame, m.code = "ConfReq"
    PROVE  Reacts(g, RConfReq(g, m.id, m.val), m)
  <1>1. g \in Fsm /\ g.id = g.reqid /\ g.out = <<>> /\ Same(g, g) /\ m.id \in Ids
    BY DEF Ready, Same, Frame
  <1>2. Steady(g, g)
    BY <1>1, MoveSteady
  <1>3. CASE g.state = "CLOSED"
    <2>1. RConfReq(g, m.id, m.val) = SData(g, "TermAck", m.id, NoOpt)
      BY <1>3 DEF RConfReq
    <2>2. /\ "TermAck" \in Codes \ {"ConfReq", "ConfAck", "Other"}
          /\ NoOpt \in Options \cup {Garbage}
      BY Nothing DEF Codes
    <2>3. QED
      BY <1>1, <1>2, <2>1, <2>2, SendSteady, SteadyReacts
  <1>4. CASE g.state \in Terminating
    <2>1. RConfReq(g, m.id, m.val) = g
      BY <1>4 DEF RConfReq
    <2>2. QED
      BY <1>2, <2>1, SteadyReacts
  <1>5. CASE g.state = "OPENED"
    <2> DEFINE x == Renegotiate(g)
    <2>1. x \in Fsm /\ x.unit = g.unit /\ x.state = "REQSENT" /\ Steady(g, x)
      BY <1>1, RenegotiateSteady
    <2>2. RConfReq(g, m.id, m.val) = Answer(x, m.id, m.val)
      BY <1>5 DEF RConfReq
    <2> HIDE DEF x
    <2>3. QED
      BY <2>1, <2>2, AnswerReacts
  <1>6. CASE g.state = "STOPPED"
    <2> DEFINE x == Goto(SConfReq(g, FALSE), "REQSENT")
    <2>1. RConfReq(g, m.id, m.val) = Answer(x, m.id, m.val)
      BY <1>6 DEF RConfReq
    <2>2. x.state = "REQSENT" /\ x \in Fsm /\ x.unit = g.unit
      BY <1>1, RequestEffect
    <2>3. \/ x = Goto(SConfReq(g, FALSE), "REQSENT")
          \/ x = SConfReq(g, FALSE) /\ g.state \in {"REQSENT", "ACKSENT"}
      OBVIOUS
    <2> HIDE DEF x
    <2>4. Steady(g, x)
      BY <1>1, <2>3, NewRequestSteady
    <2>5. QED
      BY <2>1, <2>2, <2>4, AnswerReacts
  <1>7. CASE g.state \in Negotiating
    <2>1. RConfReq(g, m.id, m.val) = Answer(g, m.id, m.val)
      BY <1>7 DEF RConfReq
    <2>2. QED
      BY <1>1, <1>2, <1>7, <2>1, AnswerReacts
  <1>8. QED
    BY <1>1, <1>3, <1>4, <1>5, <1>6, <1>7, UnitBounds DEF LowerIsUp

\* A frame with a code of RFC 1661
LEMMA InputReacts ==
    ASSUME NEW g, Ready(g), NEW m \in Frame, m.code # "Other"
    PROVE  Reacts(g, Input(g, m), m)
  <1>1. g \in Fsm /\ m.id \in Ids /\ Steady(g, g)
    <2>1. g \in Fsm /\ g.id = g.reqid /\ g.out = <<>> /\ Same(g, g)
      BY DEF Ready, Same
    <2>2. QED
      BY <2>1, MoveSteady DEF Frame
  <1>2. CASE g.state \in {"INITIAL", "STARTING"}
    BY <1>1, <1>2, SteadyReacts DEF Input
  <1>3. CASE g.state \notin {"INITIAL", "STARTING"}
    <2>1. Input(g, m) =
            CASE m.code = "ConfReq" -> RConfReq(g, m.id, m.val)
              [] m.code = "ConfAck" -> RConfAck(g, m.id, m.val)
              [] m.code = "ConfNak" -> RConfNak(g, m.id, m.val)
              [] m.code = "ConfRej" -> RConfRej(g, m.id, m.val)
              [] m.code = "TermReq" -> RTermReq(g, m.id)
              [] m.code = "TermAck" -> RTermAck(g)
              [] m.code = "CodeRej" -> RCodeRej(g)
              [] OTHER              -> RUnknown(g)
      BY <1>3 DEF Input
    <2>2. CASE m.code = "ConfReq"
      BY <1>3, <2>1, <2>2, RConfReqReacts DEF LowerIsUp
    <2>3. CASE m.code = "ConfAck"
      BY <2>1, <2>3, RConfAckReacts
    <2>4. CASE m.code = "ConfNak"
      BY <2>1, <2>4, RConfNakReacts
    <2>5. CASE m.code = "ConfRej"
      BY <2>1, <2>5, RConfRejReacts
    <2>6. CASE m.code = "TermReq"
      BY <1>1, <2>1, <2>6, RTermReqSteady, SteadyReacts
    <2>7. CASE m.code = "TermAck"
      BY <2>1, <2>7, RTermAckSteady, SteadyReacts
    <2>8. CASE m.code = "CodeRej"
      BY <2>1, <2>8, RCodeRejSteady, SteadyReacts
    <2>9. m.code \in Codes
      BY DEF Frame
    <2>10. QED
      BY <2>2, <2>3, <2>4, <2>5, <2>6, <2>7, <2>8, <2>9 DEF Codes
  <1>4. QED
    BY <1>2, <1>3
-----------------------------------------------------------------------------
(* Frames on a line *)

\* After a request with this identifier there is none with another one.
InOrder(line, id) ==
    \A i, j \in DOMAIN line :
        /\ i < j
        /\ line[i].code = "ConfReq" /\ line[j].code = "ConfReq"
        /\ line[i].id = id
        => line[j].id = id

\* What is left of a line when frames are taken off
Part(less, line) ==
    /\ ToSet(less) \subseteq ToSet(line)
    /\ \A id : InOrder(line, id) => InOrder(less, id)

LEMMA SecondPart ==
    ASSUME NEW s \in Seq(Frame), NEW t \in Seq(Frame), NEW i \in 1 .. Len(t)
    PROVE  (s \o t)[Len(s) + i] = t[i]
  OBVIOUS

LEMMA SetOfConcat ==
    ASSUME NEW s \in Seq(Frame), NEW t \in Seq(Frame)
    PROVE  ToSet(s \o t) = ToSet(s) \cup ToSet(t)
  <1>1. /\ DOMAIN s = 1 .. Len(s) /\ Len(s) \in Nat
        /\ DOMAIN t = 1 .. Len(t) /\ Len(t) \in Nat
        /\ DOMAIN (s \o t) = 1 .. Len(s) + Len(t)
    OBVIOUS
  <1>2. \A i \in 1 .. Len(s) : (s \o t)[i] = s[i]
    OBVIOUS
  <1>3. \A i \in 1 .. Len(t) : (s \o t)[Len(s) + i] = t[i]
    OBVIOUS
  <1>4. ToSet(s \o t) \subseteq ToSet(s) \cup ToSet(t)
    <2>1. SUFFICES ASSUME NEW i \in 1 .. Len(s) + Len(t)
                   PROVE  (s \o t)[i] \in ToSet(s) \cup ToSet(t)
      BY <1>1 DEF ToSet
    <2>2. CASE i <= Len(s)
      BY <1>1, <1>2, <2>2 DEF ToSet
    <2>3. CASE i > Len(s)
      <3>1. i - Len(s) \in 1 .. Len(t) /\ Len(s) + (i - Len(s)) = i
        BY <1>1, <2>3
      <3>2. (s \o t)[i] = t[i - Len(s)]
        BY <1>3, <3>1
      <3>3. QED
        BY <1>1, <3>1, <3>2 DEF ToSet
    <2>4. QED
      BY <1>1, <2>2, <2>3
  <1>5. ToSet(s) \subseteq ToSet(s \o t)
    BY <1>1, <1>2 DEF ToSet
  <1>6. ToSet(t) \subseteq ToSet(s \o t)
    <2>1. \A i \in 1 .. Len(t) : Len(s) + i \in 1 .. Len(s) + Len(t)
      BY <1>1
    <2>2. QED
      BY <1>1, <1>3, <2>1 DEF ToSet
  <1>7. QED
    BY <1>4, <1>5, <1>6

LEMMA OrderOfConcat ==
    ASSUME NEW s \in Seq(Frame), NEW t \in Seq(Frame), NEW id, InOrder(s, id),
           \A m \in ToSet(t) : m.code = "ConfReq" => m.id = id
    PROVE  InOrder(s \o t, id)
  <1>1. /\ DOMAIN s = 1 .. Len(s) /\ Len(s) \in Nat
        /\ DOMAIN t = 1 .. Len(t) /\ Len(t) \in Nat
        /\ DOMAIN (s \o t) = 1 .. Len(s) + Len(t)
    OBVIOUS
  <1>2. \A i \in 1 .. Len(s) : (s \o t)[i] = s[i]
    OBVIOUS
  <1>3. \A i \in 1 .. Len(t) : (s \o t)[Len(s) + i] = t[i]
    OBVIOUS
  <1>4. SUFFICES ASSUME NEW i \in 1 .. Len(s) + Len(t), NEW j \in 1 .. Len(s) + Len(t),
                        i < j, (s \o t)[i].code = "ConfReq",
                        (s \o t)[j].code = "ConfReq", (s \o t)[i].id = id
                 PROVE  (s \o t)[j].id = id
    BY <1>1 DEF InOrder
  <1>5. CASE j <= Len(s)
    <2>1. i \in 1 .. Len(s) /\ j \in 1 .. Len(s)
      BY <1>1, <1>4, <1>5
    <2>2. QED
      BY <1>1, <1>2, <1>4, <2>1 DEF InOrder
  <1>6. CASE j > Len(s)
    <2>1. j - Len(s) \in 1 .. Len(t) /\ Len(s) + (j - Len(s)) = j
      BY <1>1, <1>6
    <2>2. (s \o t)[j] = t[j - Len(s)] /\ t[j - Len(s)] \in ToSet(t)
      BY <1>1, <1>3, <2>1 DEF ToSet
    <2>3. QED
      BY <1>4, <2>2
  <1>7. QED
    BY <1>1, <1>5, <1>6

LEMMA NothingIsPart == ASSUME NEW line PROVE Part(<<>>, line)
  BY DEF Part, ToSet, InOrder

LEMMA AllIsPart == ASSUME NEW line PROVE Part(line, line)
  BY DEF Part

LEMMA TailIsPart ==
    ASSUME NEW line \in Seq(Frame), line # <<>>
    PROVE  /\ Tail(line) \in Seq(Frame) /\ Part(Tail(line), line)
           /\ Head(line) \in Frame /\ Head(line) \in ToSet(line)
           /\ \A id : /\ InOrder(line, id)
                      /\ Head(line).code = "ConfReq" /\ Head(line).id = id
                      => \A m \in ToSet(Tail(line)) : m.code = "ConfReq" => m.id = id
  <1>1. /\ DOMAIN line = 1 .. Len(line) /\ Len(line) \in Nat /\ Len(line) > 0
        /\ DOMAIN Tail(line) = 1 .. Len(line) - 1
        /\ Head(line) = line[1]
    OBVIOUS
  <1>2. \A i \in 1 .. Len(line) - 1 : Tail(line)[i] = line[i + 1] /\ i + 1 \in 1 .. Len(line)
    BY <1>1
  <1>3. Tail(line) \in Seq(Frame) /\ Head(line) \in Frame
    OBVIOUS
  <1>4. Head(line) \in ToSet(line) /\ ToSet(Tail(line)) \subseteq ToSet(line)
    BY <1>1, <1>2 DEF ToSet
  <1>5. ASSUME NEW id, InOrder(line, id)
        PROVE  InOrder(Tail(line), id)
    <2>1. SUFFICES ASSUME NEW i \in 1 .. Len(line) - 1, NEW j \in 1 .. Len(line) - 1,
                          i < j, Tail(line)[i].code = "ConfReq",
                          Tail(line)[j].code = "ConfReq", Tail(line)[i].id = id
                   PROVE  Tail(line)[j].id = id
      BY <1>1 DEF InOrder
    <2>2. i + 1 < j + 1 /\ i + 1 \in 1 .. Len(line) /\ j + 1 \in 1 .. Len(line)
      BY <1>1, <2>1
    <2>3. QED
      BY <1>1, <1>2, <1>5, <2>1, <2>2 DEF InOrder
  <1>6. ASSUME NEW id, InOrder(line, id), Head(line).code = "ConfReq", Head(line).id = id,
               NEW m \in ToSet(Tail(line)), m.code = "ConfReq"
        PROVE  m.id = id
    <2>1. PICK i \in 1 .. Len(line) - 1 : m = Tail(line)[i]
      BY <1>1 DEF ToSet
    <2>2. m = line[i + 1] /\ 1 < i + 1 /\ i + 1 \in DOMAIN line /\ 1 \in DOMAIN line
      BY <1>1, <1>2, <2>1
    <2>3. QED
      BY <1>1, <1>6, <2>2 DEF InOrder
  <1>7. QED
    BY <1>3, <1>4, <1>5, <1>6 DEF Part

LEMMA RemovedIsPart ==
    ASSUME NEW line \in Seq(Frame), NEW k \in DOMAIN line
    PROVE  RemoveAt(line, k) \in Seq(Frame) /\ Part(RemoveAt(line, k), line)
  <1> DEFINE r == RemoveAt(line, k)
             n == Len(line)
             before == SubSeq(line, 1, k - 1)
             after == SubSeq(line, k + 1, n)
             at(i) == IF i < k THEN i ELSE i + 1
  <1>1. DOMAIN line = 1 .. n /\ n \in Nat /\ k \in 1 .. n
    OBVIOUS
  <1> HIDE DEF n
  <1>2. /\ before \in Seq(Frame) /\ Len(before) = k - 1
        /\ \A i \in 1 .. k - 1 : before[i] = line[i]
    <2>1. \A i \in 1 .. k - 1 : line[i] \in Frame
      BY <1>1
    <2>2. QED
      BY <1>1, <2>1
  <1>3. /\ after \in Seq(Frame) /\ Len(after) = n - k
        /\ \A i \in 1 .. n - k : after[i] = line[k + i]
    <2>1. \A i \in k + 1 .. n : line[i] \in Frame
      BY <1>1
    <2>2. QED
      BY <1>1, <2>1
  <1>4. r = before \o after
    BY DEF RemoveAt, n
  <1> HIDE DEF r, before, after
  <1>5. r \in Seq(Frame) /\ DOMAIN r = 1 .. n - 1
    BY <1>1, <1>2, <1>3, <1>4
  <1>6. ASSUME NEW i \in 1 .. n - 1
        PROVE  at(i) \in 1 .. n /\ r[i] = line[at(i)]
    <2>1. CASE i < k
      <3>1. i \in 1 .. k - 1
        BY <1>1, <2>1
      <3>2. r[i] = before[i]
        BY <1>1, <1>2, <1>3, <1>4, <3>1
      <3>3. QED
        BY <1>1, <1>2, <2>1, <3>1, <3>2
    <2>2. CASE ~(i < k)
      <3> DEFINE d == i - (k - 1)
      <3>1. d \in 1 .. n - k /\ (k - 1) + d = i /\ k + d = i + 1 /\ i + 1 \in 1 .. n
        BY <1>1, <2>2
      <3> HIDE DEF d
      <3>2. (before \o after)[Len(before) + d] = after[d]
        BY <1>2, <1>3, <3>1, SecondPart, ZenonT(40)
      <3>3. r[i] = after[d]
        BY <1>2, <1>4, <3>1, <3>2
      <3>4. r[i] = line[i + 1]
        BY <1>3, <3>1, <3>3
      <3>5. QED
        BY <2>2, <3>1, <3>4
    <2>3. QED
      BY <2>1, <2>2
  <1>7. \A i, j \in 1 .. n - 1 : i < j => at(i) < at(j)
    BY <1>1
  <1> HIDE DEF at
  <1>8. ToSet(r) \subseteq ToSet(line)
    BY <1>1, <1>5, <1>6 DEF ToSet
  <1>9. ASSUME NEW id, InOrder(line, id)
        PROVE  InOrder(r, id)
    BY <1>1, <1>5, <1>6, <1>7, <1>9 DEF InOrder
  <1>10. QED
    BY <1>5, <1>8, <1>9 DEF Part, r
-----------------------------------------------------------------------------
(***************************************************************************)
(* The inductive invariant.  g is the fsm of an end, u the other end and   *)
(* ho what u has acknowledged; incoming and outgoing are the lines to g    *)
(* and from it.  As long as g negotiates or is open:                       *)
(*   - a request or an acknowledgement on the line that carries the        *)
(*     identifier of the request in force carries its options;             *)
(*   - once u has acknowledged the request in force, it remembers these    *)
(*     options, it will acknowledge them again, and no older request is    *)
(*     still on its way to make it forget them.                            *)
(***************************************************************************)
Understood(g, u, ho, incoming, outgoing) ==
    Active(g) =>
      /\ \A m \in ToSet(outgoing) :
           m.code = "ConfReq" /\ m.id = g.reqid => m.val = g.go
      /\ InOrder(outgoing, g.reqid)
      /\ \A m \in ToSet(incoming) :
           m.code = "ConfAck" /\ m.id = g.reqid => m.val = g.go
      /\ Accepted(g) \/ Carries(incoming, "ConfAck", g.reqid) =>
           /\ ho = g.go /\ Good(u, g.go)
           /\ \A m \in ToSet(outgoing) : m.code = "ConfReq" => m.id = g.reqid

\* The end itself handles an event: either it accepts nothing new, or the frame
\* it accepts was on its line.
LEMMA OwnSide ==
    ASSUME NEW g, NEW h, NEW u, NEW ho, NEW incoming, NEW rest,
           NEW outgoing \in Seq(Frame), h.out \in Seq(Frame),
           Understood(g, u, ho, incoming, outgoing),
           ToSet(rest) \subseteq ToSet(incoming),
           Honest(h), Follows(g, h),
           Accepted(h) => Accepted(g) \/ Carries(incoming, "ConfAck", g.reqid),
           h.reqid # g.reqid =>
             /\ ~Carries(outgoing, "ConfReq", h.reqid)
             /\ ~Carries(incoming, "ConfAck", h.reqid)
    PROVE  Understood(h, u, ho, rest, outgoing \o h.out)
  <1> DEFINE sent == outgoing \o h.out
  <1>1. SUFFICES ASSUME Active(h)
                 PROVE  Understood(h, u, ho, rest, sent)
    BY DEF Understood
  <1>2. ToSet(sent) = ToSet(outgoing) \cup ToSet(h.out)
    BY SetOfConcat
  <1>3. \A m \in ToSet(h.out) : m.code = "ConfReq" => m.id = h.reqid /\ m.val = h.go
    BY DEF Honest
  <1>4. InOrder(outgoing, h.reqid) => InOrder(sent, h.reqid)
    BY <1>3, OrderOfConcat
  <1> HIDE DEF sent
  <1>5. CASE h.reqid = g.reqid
    <2>1. Active(g) /\ h.go = g.go
      BY <1>1, <1>5 DEF Follows
    <2>2. Carries(rest, "ConfAck", h.reqid) => Carries(incoming, "ConfAck", g.reqid)
      BY <1>5 DEF Carries
    <2>3. QED
      BY <1>2, <1>3, <1>4, <1>5, <2>1, <2>2 DEF Understood
  <1>6. CASE h.reqid # g.reqid
    <2>1. \A m \in ToSet(outgoing) : ~(m.code = "ConfReq" /\ m.id = h.reqid)
      BY <1>6 DEF Carries
    <2>2. InOrder(outgoing, h.reqid)
      BY <2>1 DEF InOrder, ToSet
    <2>3. \A m \in ToSet(rest) : ~(m.code = "ConfAck" /\ m.id = h.reqid)
      BY <1>6 DEF Carries
    <2>4. ~Accepted(h) /\ ~Carries(rest, "ConfAck", h.reqid)
      BY <1>6, <2>3 DEF Follows, Carries
    <2>5. QED
      BY <1>2, <1>3, <1>4, <2>1, <2>2, <2>3, <2>4 DEF Understood
  <1>7. QED
    BY <1>5, <1>6 DEF sent

\* The other end, u with the fsm k, has turned into l on the frame at the head of
\* the line from g ...
LEMMA OtherSideReacts ==
    ASSUME NEW g, NEW u, NEW k, NEW l, k.unit = u,
           NEW incoming \in Seq(Frame), l.out \in Seq(Frame),
           NEW outgoing \in Seq(Frame), outgoing # <<>>,
           Understood(g, u, k.ho, incoming, outgoing),
           Replies(k, l, Head(outgoing))
    PROVE  Understood(g, u, l.ho, incoming \o l.out, Tail(outgoing))
  <1> DEFINE m == Head(outgoing)
             rest == Tail(outgoing)
             now == incoming \o l.out
  <1>1. SUFFICES ASSUME Active(g)
                 PROVE  Understood(g, u, l.ho, now, rest)
    BY DEF Understood
  <1>2. ToSet(now) = ToSet(incoming) \cup ToSet(l.out)
    BY SetOfConcat
  <1>3. /\ ToSet(rest) \subseteq ToSet(outgoing) /\ m \in ToSet(outgoing)
        /\ InOrder(rest, g.reqid)
        /\ m.code = "ConfReq" /\ m.id = g.reqid =>
             \A q \in ToSet(rest) : q.code = "ConfReq" => q.id = g.reqid
    BY <1>1, TailIsPart DEF Part, Understood
  <1>4. Replies(k, l, m)
    OBVIOUS
  <1> HIDE DEF m, rest, now
  <1>5. m.code = "ConfReq" /\ m.id = g.reqid => m.val = g.go
    BY <1>1, <1>3 DEF Understood
  <1>6. ASSUME NEW q \in ToSet(l.out), q.code = "ConfAck", q.id = g.reqid
        PROVE  /\ q.val = g.go /\ l.ho = g.go /\ Good(u, g.go)
               /\ m.code = "ConfReq" /\ m.id = g.reqid
    BY <1>4, <1>5, <1>6 DEF Replies, NoAck
  <1>7. ASSUME Accepted(g) \/ Carries(incoming, "ConfAck", g.reqid)
        PROVE  /\ l.ho = g.go /\ Good(u, g.go)
               /\ \A q \in ToSet(rest) : q.code = "ConfReq" => q.id = g.reqid
    <2>1. /\ k.ho = g.go /\ Good(u, g.go)
          /\ \A q \in ToSet(outgoing) : q.code = "ConfReq" => q.id = g.reqid
      BY <1>1, <1>7 DEF Understood
    <2>2. CASE l.ho = k.ho
      BY <1>3, <2>1, <2>2
    <2>3. CASE m.code = "ConfReq" /\ (Good(u, m.val) => l.ho = m.val)
      BY <1>3, <1>5, <2>1, <2>3
    <2>4. QED
      BY <1>4, <2>2, <2>3 DEF Replies
  <1>8. ASSUME Carries(now, "ConfAck", g.reqid), ~Carries(incoming, "ConfAck", g.reqid)
        PROVE  /\ l.ho = g.go /\ Good(u, g.go)
               /\ \A q \in ToSet(rest) : q.code = "ConfReq" => q.id = g.reqid
    <2>1. PICK q \in ToSet(l.out) : q.code = "ConfAck" /\ q.id = g.reqid
      BY <1>2, <1>8 DEF Carries
    <2>2. QED
      BY <1>3, <1>6, <2>1
  <1>9. \A q \in ToSet(now) : q.code = "ConfAck" /\ q.id = g.reqid => q.val = g.go
    BY <1>1, <1>2, <1>6 DEF Understood
  <1>10. \A q \in ToSet(rest) : q.code = "ConfReq" /\ q.id = g.reqid => q.val = g.go
    BY <1>1, <1>3 DEF Understood
  <1>11. QED
    BY <1>3, <1>7, <1>8, <1>9, <1>10 DEF Understood, m, rest, now

\* ... or on another event, which may have emptied that line.
LEMMA OtherSideSteady ==
    ASSUME NEW g, NEW u, NEW ho, NEW l, NoAck(l),
           NEW incoming \in Seq(Frame), l.out \in Seq(Frame),
           NEW outgoing, NEW rest, Part(rest, outgoing),
           Understood(g, u, ho, incoming, outgoing)
    PROVE  Understood(g, u, ho, incoming \o l.out, rest)
  <1> DEFINE now == incoming \o l.out
  <1>1. ToSet(now) = ToSet(incoming) \cup ToSet(l.out)
    BY SetOfConcat
  <1> HIDE DEF now
  <1>2. Carries(now, "ConfAck", g.reqid) <=> Carries(incoming, "ConfAck", g.reqid)
    BY <1>1 DEF Carries, NoAck
  <1>3. \A m \in ToSet(now) : m.code = "ConfAck" => m \in ToSet(incoming)
    BY <1>1 DEF NoAck
  <1>4. QED
    BY <1>2, <1>3 DEF Understood, Part, now

LEMMA PartUnderstood ==
    ASSUME NEW g, NEW u, NEW ho, NEW incoming, NEW outgoing, NEW less, NEW rest,
           Part(less, incoming), Part(rest, outgoing),
           Understood(g, u, ho, incoming, outgoing)
    PROVE  Understood(g, u, ho, less, rest)
  BY DEF Understood, Part, Carries
-----------------------------------------------------------------------------
(* The steps of the two ends *)

\* What holds with or without fresh identifiers
Base ==
    /\ TypeOK
    /\ \A e \in Ends : /\ Ready(end[e]) /\ end[e].unit = e
                       /\ \A m \in ToSet(wire[e]) : m.code # "Other"

Quiet(h) == [h EXCEPT !.out = <<>>, !.calls = <<>>]

\* An event at e leaves the fsm h and the frames rest on the line to e.
Event(e, h, rest) ==
    /\ h \in Fsm /\ Inv(h) /\ h.unit = e
    /\ end' = [x \in Ends |-> IF x = e THEN Quiet(h) ELSE end[x]]
    /\ wire' = [x \in Ends |-> IF x = e THEN rest ELSE wire[x] \o h.out]
    /\ \/ Steady(end[e], h) /\ rest \in Seq(Frame) /\ Part(rest, wire[e])
       \/ /\ wire[e] # <<>> /\ rest = Tail(wire[e])
          /\ Reacts(end[e], h, Head(wire[e]))

LEMMA Peers ==
    ASSUME NEW e \in Ends
    PROVE  /\ Peer(e) \in Ends /\ Peer(e) # e /\ Peer(Peer(e)) = e
           /\ \A x \in Ends : x = e \/ x = Peer(e)
  <1>1. PICK x \in Ends, y \in Ends : x # y /\ Ends = {x, y}
    BY LineAssumption DEF Ends
  <1>2. \A z \in Ends : Peer(z) \in Ends /\ Peer(z) # z
    <2>1. SUFFICES ASSUME NEW z \in Ends
                   PROVE  Peer(z) \in Ends /\ Peer(z) # z
      OBVIOUS
    <2>2. \E p \in Ends : p # z
      BY <1>1
    <2>3. QED
      BY <2>2 DEF Peer
  <1>3. QED
    BY <1>1, <1>2

LEMMA BaseOf ==
    ASSUME Base, NEW e \in Ends
    PROVE  /\ end \in [Ends -> Fsm] /\ wire \in [Ends -> Seq(Frame)]
           /\ end[e] \in Fsm /\ wire[e] \in Seq(Frame)
           /\ Ready(end[e]) /\ end[e].unit = e /\ Inv(end[e])
           /\ end[e].out = <<>>
  BY DEF Base, TypeOK, Ready

\* How the actions write an event
LEMMA SettleCarry ==
    ASSUME Base, NEW e \in Ends, NEW h \in Fsm, NEW rest \in Seq(Frame),
           Settle(e, h), wire' = Carry([wire EXCEPT ![e] = rest], e, h.out)
    PROVE  /\ end' = [x \in Ends |-> IF x = e THEN Quiet(h) ELSE end[x]]
           /\ wire' = [x \in Ends |-> IF x = e THEN rest ELSE wire[x] \o h.out]
  <1>1. end \in [Ends -> Fsm] /\ wire \in [Ends -> Seq(Frame)]
    BY BaseOf
  <1>2. end' = [x \in Ends |-> IF x = e THEN Quiet(h) ELSE end[x]]
    BY <1>1 DEF Settle, Quiet
  <1>3. wire' = [x \in Ends |-> IF x = e THEN rest ELSE wire[x] \o h.out]
    BY <1>1, Peers DEF Carry
  <1>4. QED
    BY <1>2, <1>3

LEMMA KeepLine ==
    ASSUME Base, NEW e \in Ends
    PROVE  [wire EXCEPT ![e] = wire[e]] = wire
  BY BaseOf

LEMMA CallEvents ==
    ASSUME Base, NEW e \in Ends, LowerUp(e) \/ UserOpens(e) \/ UserCloses(e)
    PROVE  \E h : Event(e, h, wire[e])
  <1> DEFINE g == end[e]
  <1>1. g \in Fsm /\ Inv(g) /\ Ready(g) /\ g.unit = e /\ wire[e] \in Seq(Frame)
    BY BaseOf
  <1>2. Part(wire[e], wire[e])
    BY AllIsPart
  <1>3. ASSUME NEW h \in Fsm, Inv(h), h.unit = e, Steady(g, h),
               Settle(e, h), wire' = Carry(wire, e, h.out)
        PROVE  Event(e, h, wire[e])
    <2> DEFINE rest == wire[e]
    <2>1. rest \in Seq(Frame) /\ wire' = Carry([wire EXCEPT ![e] = rest], e, h.out)
      BY <1>1, <1>3, KeepLine
    <2> HIDE DEF rest
    <2>2. /\ end' = [x \in Ends |-> IF x = e THEN Quiet(h) ELSE end[x]]
          /\ wire' = [x \in Ends |-> IF x = e THEN rest ELSE wire[x] \o h.out]
      BY <1>3, <2>1, SettleCarry
    <2>3. QED
      BY <1>1, <1>2, <1>3, <2>2 DEF Event, rest
  <1>4. CASE LowerUp(e)
    <2>1. Lowerup(g) \in Fsm /\ Inv(Lowerup(g)) /\ Lowerup(g).unit = e
      BY <1>1, LowerupFine DEF Guided
    <2>2. g.id = g.reqid /\ g.out = <<>> /\ Same(g, g) /\ g.state \in {"INITIAL", "STARTING"}
      BY <1>1, <1>4 DEF Ready, Same, LowerUp
    <2>3. Steady(g, Lowerup(g))
      BY <1>1, <2>2, LowerupSteady
    <2>4. Settle(e, Lowerup(g)) /\ wire' = Carry(wire, e, Lowerup(g).out)
      BY <1>4 DEF LowerUp, Call
    <2>5. QED
      BY <1>3, <2>1, <2>3, <2>4
  <1>5. CASE UserOpens(e)
    <2>1. Open(g) \in Fsm /\ Inv(Open(g)) /\ Open(g).unit = e
      BY <1>1, OpenFine DEF Guided
    <2>2. Steady(g, Open(g))
      BY <1>1, OpenSteady
    <2>3. Settle(e, Open(g)) /\ wire' = Carry(wire, e, Open(g).out)
      BY <1>5 DEF UserOpens, Call
    <2>4. QED
      BY <1>3, <2>1, <2>2, <2>3
  <1>6. CASE UserCloses(e)
    <2>1. Close(g) \in Fsm /\ Inv(Close(g)) /\ Close(g).unit = e
      BY <1>1, CloseFine DEF Guided
    <2>2. Steady(g, Close(g))
      BY <1>1, CloseSteady
    <2>3. Settle(e, Close(g)) /\ wire' = Carry(wire, e, Close(g).out)
      BY <1>6 DEF UserCloses, Call
    <2>4. QED
      BY <1>3, <2>1, <2>2, <2>3
  <1>7. QED
    BY <1>4, <1>5, <1>6

LEMMA LowerDownEvent ==
    ASSUME Base, NEW e \in Ends, LowerDown(e)
    PROVE  \E h : Event(e, h, <<>>)
  <1> DEFINE g == end[e]
             h == Lowerdown(g)
  <1>1. g \in Fsm /\ Inv(g) /\ Ready(g) /\ g.unit = e /\ g.out = <<>>
    BY BaseOf
  <1>2. h \in Fsm /\ Inv(h) /\ h.unit = e /\ Steady(g, h) /\ h.out = <<>>
    <2>1. h \in Fsm /\ Inv(h) /\ h.unit = e
      BY <1>1, LowerdownFine DEF Guided
    <2>2. h.out = <<>>
      BY <1>1, LowerdownTalk DEF Same
    <2>3. QED
      BY <1>1, <2>1, <2>2, LowerdownSteady
  <1>3. Settle(e, h) /\ wire' = [wire EXCEPT ![e] = <<>>]
    BY DEF LowerDown, Call
  <1> HIDE DEF g, h
  <1>4. <<>> \in Seq(Frame) /\ Part(<<>>, wire[e])
    BY NothingIsPart
  <1>5. wire' = Carry([wire EXCEPT ![e] = <<>>], e, h.out)
    <2>1. wire \in [Ends -> Seq(Frame)] /\ wire[Peer(e)] \in Seq(Frame)
      BY BaseOf, Peers
    <2> DEFINE cleared == [wire EXCEPT ![e] = <<>>]
    <2>2. wire[Peer(e)] \o <<>> = wire[Peer(e)]
      BY <2>1
    <2>3. cleared[Peer(e)] = wire[Peer(e)] /\ cleared = [x \in Ends |-> cleared[x]]
      BY <2>1, Peers
    <2> HIDE DEF cleared
    <2>4. Carry(cleared, e, h.out) = [cleared EXCEPT ![Peer(e)] = cleared[Peer(e)]]
      BY <1>2, <2>2, <2>3 DEF Carry
    <2>5. [cleared EXCEPT ![Peer(e)] = cleared[Peer(e)]] = cleared
      BY <2>3
    <2>6. QED
      BY <1>3, <2>4, <2>5 DEF cleared
  <1>6. /\ end' = [x \in Ends |-> IF x = e THEN Quiet(h) ELSE end[x]]
        /\ wire' = [x \in Ends |-> IF x = e THEN <<>> ELSE wire[x] \o h.out]
    <2> DEFINE none == <<>>
    <2>1. none \in Seq(Frame) /\ h \in Fsm /\ Settle(e, h)
      BY <1>2, <1>3, <1>4
    <2>2. wire' = Carry([wire EXCEPT ![e] = none], e, h.out)
      BY <1>5
    <2> HIDE DEF none
    <2>3. /\ end' = [x \in Ends |-> IF x = e THEN Quiet(h) ELSE end[x]]
          /\ wire' = [x \in Ends |-> IF x = e THEN none ELSE wire[x] \o h.out]
      BY <2>1, <2>2, SettleCarry
    <2>4. QED
      BY <2>3 DEF none
  <1>7. QED
    BY <1>2, <1>4, <1>6 DEF Event, g

LEMMA TimerEvent ==
    ASSUME Base, NEW e \in Ends, TimerFires(e)
    PROVE  \E h : Event(e, h, wire[e])
  <1> DEFINE g == end[e]
             h == Expire(Untimeout(g))
  <1>1. g \in Fsm /\ Inv(g) /\ Ready(g) /\ g.unit = e /\ wire[e] \in Seq(Frame)
    BY BaseOf
  <1>2. h \in Fsm /\ Inv(h) /\ h.unit = e /\ Steady(g, h)
    <2>1. g.timers > 0
      BY DEF TimerFires
    <2>2. h \in Fsm /\ Inv(h) /\ h.unit = e
      BY <1>1, <2>1, ExpireFine DEF Fine
    <2>3. QED
      BY <1>1, <2>2, ExpireSteady
  <1>3. Settle(e, h) /\ wire' = Carry(wire, e, h.out)
    BY DEF TimerFires
  <1> HIDE DEF g, h
  <1>4. wire' = Carry([wire EXCEPT ![e] = wire[e]], e, h.out)
    BY <1>3, KeepLine
  <1> DEFINE rest == wire[e]
  <1>5. rest \in Seq(Frame) /\ wire' = Carry([wire EXCEPT ![e] = rest], e, h.out)
    BY <1>1, <1>4
  <1> HIDE DEF rest
  <1>6. /\ end' = [x \in Ends |-> IF x = e THEN Quiet(h) ELSE end[x]]
        /\ wire' = [x \in Ends |-> IF x = e THEN rest ELSE wire[x] \o h.out]
    BY <1>2, <1>3, <1>5, SettleCarry
  <1>7. QED
    BY <1>1, <1>2, <1>6, AllIsPart DEF Event, g, rest

LEMMA ReceiveEvent ==
    ASSUME Base, NEW e \in Ends, Receive(e)
    PROVE  \E h : Event(e, h, Tail(wire[e]))
  <1> DEFINE g == end[e]
             m == Head(wire[e])
             h == Input(g, m)
  <1>1. /\ g \in Fsm /\ Inv(g) /\ Ready(g) /\ g.unit = e
        /\ wire[e] \in Seq(Frame) /\ wire[e] # <<>>
    BY BaseOf DEF Receive
  <1>2. /\ m \in Frame /\ m.code # "Other"
        /\ Tail(wire[e]) \in Seq(Frame)
    <2>1. m \in ToSet(wire[e]) /\ m \in Frame /\ Tail(wire[e]) \in Seq(Frame)
      BY <1>1, TailIsPart
    <2>2. QED
      BY <2>1 DEF Base
  <1>3. h \in Fsm /\ Inv(h) /\ h.unit = e /\ Reacts(g, h, m)
    <2>1. h \in Fsm /\ Inv(h) /\ h.unit = e
      BY <1>1, <1>2, InputFine DEF Fine
    <2>2. QED
      BY <1>1, <1>2, <2>1, InputReacts
  <1> DEFINE rest == Tail(wire[e])
  <1>4. Settle(e, h) /\ wire' = Carry([wire EXCEPT ![e] = rest], e, h.out)
    <2>1. Settle(e, h) /\ wire' = Carry([wire EXCEPT ![e] = Tail(@)], e, h.out)
      BY DEF Receive
    <2>2. [wire EXCEPT ![e] = Tail(@)] = [wire EXCEPT ![e] = Tail(wire[e])]
      OBVIOUS
    <2>3. QED
      BY <2>1, <2>2
  <1>5. rest \in Seq(Frame)
    BY <1>2
  <1> HIDE DEF rest
  <1>6. /\ end' = [x \in Ends |-> IF x = e THEN Quiet(h) ELSE end[x]]
        /\ wire' = [x \in Ends |-> IF x = e THEN rest ELSE wire[x] \o h.out]
    BY <1>3, <1>4, <1>5, SettleCarry
  <1>7. QED
    BY <1>1, <1>2, <1>3, <1>6 DEF Event, rest

\* Every step is an event of an end, the loss of a frame, or none of both.
LEMMA Steps ==
    ASSUME Base, [Next]_vars
    PROVE  /\ moves' \in 0 .. Moves /\ faults' \in 0 .. Faults
           /\ \/ \E e \in Ends : \E h, rest : Event(e, h, rest)
              \/ \E e \in Ends : Lose(e)
              \/ UNCHANGED <<end, wire>>
  <1>1. moves \in 0 .. Moves /\ faults \in 0 .. Faults /\ Moves \in Nat /\ Faults \in Nat
    BY LineAssumption DEF Base, TypeOK
  <1>2. CASE UNCHANGED vars
    BY <1>1, <1>2 DEF vars
  <1>3. ASSUME NEW e \in Ends, LowerUp(e) \/ UserOpens(e) \/ UserCloses(e)
        PROVE  moves' \in 0 .. Moves /\ faults' \in 0 .. Faults
    BY <1>1, <1>3 DEF LowerUp, UserOpens, UserCloses, Call
  <1>4. ASSUME NEW e \in Ends, LowerDown(e)
        PROVE  moves' \in 0 .. Moves /\ faults' \in 0 .. Faults
    BY <1>1, <1>4 DEF LowerDown, Call
  <1>5. ASSUME NEW e \in Ends, TimerFires(e)
        PROVE  moves' \in 0 .. Moves /\ faults' \in 0 .. Faults
    BY <1>1, <1>5 DEF TimerFires
  <1>6. ASSUME NEW e \in Ends, Receive(e)
        PROVE  moves' \in 0 .. Moves /\ faults' \in 0 .. Faults
    BY <1>1, <1>6 DEF Receive
  <1>7. ASSUME NEW e \in Ends, Lose(e)
        PROVE  moves' \in 0 .. Moves /\ faults' \in 0 .. Faults
    BY <1>1, <1>7 DEF Lose
  <1>8. CASE Next
    BY <1>3, <1>4, <1>5, <1>6, <1>7, <1>8,
       CallEvents, LowerDownEvent, TimerEvent, ReceiveEvent DEF Next
  <1>9. QED
    BY <1>2, <1>8

\* What an event leaves at its end, whether it is a frame or not
LEMMA EventOutcome ==
    ASSUME Base, NEW e \in Ends, NEW h, NEW rest, Event(e, h, rest)
    PROVE  /\ Honest(h) /\ Follows(end[e], h)
           /\ h.out \in Seq(Frame)
           /\ rest \in Seq(Frame) /\ Part(rest, wire[e])
  <1>1. wire[e] \in Seq(Frame)
    BY BaseOf
  <1>2. h.out \in Seq(Frame)
    BY DEF Event, Fsm
  <1>3. CASE Steady(end[e], h) /\ rest \in Seq(Frame) /\ Part(rest, wire[e])
    BY <1>2, <1>3 DEF Steady
  <1>4. CASE wire[e] # <<>> /\ rest = Tail(wire[e]) /\ Reacts(end[e], h, Head(wire[e]))
    BY <1>1, <1>2, <1>4, TailIsPart DEF Reacts
  <1>5. QED
    BY <1>3, <1>4 DEF Event

LEMMA QuietReady ==
    ASSUME NEW h \in Fsm, Inv(h), h.id = h.reqid
    PROVE  /\ Ready(Quiet(h)) /\ Quiet(h) \in Fsm
           /\ Quiet(h).unit = h.unit /\ Quiet(h).state = h.state
           /\ Quiet(h).reqid = h.reqid /\ Quiet(h).go = h.go /\ Quiet(h).ho = h.ho
  <1>1. <<>> \in Seq(Frame) /\ <<>> \in Seq(Callbacks)
    OBVIOUS
  <1>2. Quiet(h) \in Fsm
    BY <1>1 DEF Quiet, Fsm
  <1>3. Inv(Quiet(h))
    BY DEF Quiet, Inv, Fsm
  <1>4. QED
    BY <1>2, <1>3 DEF Quiet, Ready, Fsm

LEMMA EventBase ==
    ASSUME Base, NEW e \in Ends, NEW h, NEW rest, Event(e, h, rest)
    PROVE  /\ end' \in [Ends -> Fsm] /\ wire' \in [Ends -> Seq(Frame)]
           /\ \A x \in Ends : /\ Ready(end'[x]) /\ end'[x].unit = x
                              /\ \A m \in ToSet(wire'[x]) : m.code # "Other"
  <1>1. end \in [Ends -> Fsm] /\ wire \in [Ends -> Seq(Frame)]
    BY BaseOf
  <1>2. /\ Honest(h) /\ h.out \in Seq(Frame) /\ rest \in Seq(Frame)
        /\ ToSet(rest) \subseteq ToSet(wire[e])
    BY EventOutcome DEF Part
  <1>3. /\ Ready(Quiet(h)) /\ Quiet(h) \in Fsm /\ Quiet(h).unit = e
    BY <1>2, QuietReady DEF Event, Honest
  <1>4. /\ end' = [x \in Ends |-> IF x = e THEN Quiet(h) ELSE end[x]]
        /\ wire' = [x \in Ends |-> IF x = e THEN rest ELSE wire[x] \o h.out]
    BY DEF Event
  <1>5. end' \in [Ends -> Fsm] /\ wire' \in [Ends -> Seq(Frame)]
    <2>1. \A x \in Ends : wire[x] \o h.out \in Seq(Frame)
      BY <1>1, <1>2
    <2>2. QED
      BY <1>1, <1>2, <1>3, <1>4, <2>1
  <1>6. ASSUME NEW x \in Ends
        PROVE  Ready(end'[x]) /\ end'[x].unit = x
    <2>1. Ready(end[x]) /\ end[x].unit = x
      BY BaseOf
    <2>2. QED
      BY <1>3, <1>4, <2>1
  <1>7. ASSUME NEW x \in Ends, NEW m \in ToSet(wire'[x])
        PROVE  m.code # "Other"
    <2>1. CASE x = e
      BY <1>2, <1>4, <1>7, <2>1 DEF Base
    <2>2. CASE x # e
      <3>1. wire'[x] = wire[x] \o h.out /\ wire[x] \in Seq(Frame)
        BY <1>1, <1>4, <2>2
      <3>2. ToSet(wire'[x]) = ToSet(wire[x]) \cup ToSet(h.out)
        BY <1>2, <3>1, SetOfConcat
      <3>3. QED
        BY <1>2, <1>7, <3>2 DEF Base, Honest
    <2>3. QED
      BY <2>1, <2>2
  <1>8. QED
    BY <1>5, <1>6, <1>7

LEMMA LossOf ==
    ASSUME Base, NEW e \in Ends, Lose(e)
    PROVE  /\ end' = end /\ wire' \in [Ends -> Seq(Frame)]
           /\ \A x \in Ends : Part(wire'[x], wire[x])
  <1>1. wire \in [Ends -> Seq(Frame)] /\ wire[e] \in Seq(Frame)
    BY BaseOf
  <1>2. PICK i \in DOMAIN wire[e] : wire' = [wire EXCEPT ![e] = RemoveAt(wire[e], i)]
    BY DEF Lose
  <1>3. RemoveAt(wire[e], i) \in Seq(Frame) /\ Part(RemoveAt(wire[e], i), wire[e])
    BY <1>1, RemovedIsPart
  <1>4. end' = end
    BY DEF Lose
  <1>5. QED
    BY <1>1, <1>2, <1>3, <1>4, AllIsPart

LEMMA BaseKept == ASSUME Base, [Next]_vars PROVE Base'
  <1>1. moves' \in 0 .. Moves /\ faults' \in 0 .. Faults
    BY Steps
  <1>2. ASSUME NEW e \in Ends, NEW h, NEW rest, Event(e, h, rest)
        PROVE  Base'
    BY <1>1, <1>2, EventBase DEF Base, TypeOK
  <1>3. ASSUME NEW e \in Ends, Lose(e)
        PROVE  Base'
    <2>1. /\ end' = end /\ wire' \in [Ends -> Seq(Frame)]
          /\ \A x \in Ends : ToSet(wire'[x]) \subseteq ToSet(wire[x])
      BY <1>3, LossOf DEF Part
    <2>2. QED
      BY <1>1, <2>1 DEF Base, TypeOK
  <1>4. CASE UNCHANGED <<end, wire>>
    BY <1>1, <1>4 DEF Base, TypeOK
  <1>5. QED
    BY <1>2, <1>3, <1>4, Steps

LEMMA BaseInit == Init => Base
  <1> SUFFICES ASSUME Init
               PROVE  Base
    OBVIOUS
  <1>1. ASSUME NEW e \in Ends
        PROVE  end[e] \in Fsm /\ Ready(end[e]) /\ end[e].unit = e
    <2> DEFINE g == FsmInit(e)
               k == Goto(g, "STARTING")
    <2>1. g \in Fsm
      <3>1. 0 \in Ids
        BY BoundsAssumption DEF Ids
      <3>2. <<>> \in Seq(Frame) /\ <<>> \in Seq(Callbacks)
        OBVIOUS
      <3>3. QED
        BY <3>1, <3>2, Nothing DEF FsmInit, Fsm, Ends
    <2>2. Inv(g) /\ g.id = g.reqid /\ g.out = <<>> /\ g.unit = e /\ g.state = "INITIAL"
      BY BoundsAssumption DEF FsmInit, Inv
    <2> HIDE DEF g
    <2>3. Inv(Open(g)) /\ Open(g) \in Fsm /\ Open(g).unit = e
      BY <2>1, <2>2, OpenFine DEF Guided
    <2>4. Open(g).id = Open(g).reqid /\ Open(g).out = <<>>
      <3>1. k \in Fsm /\ Same(g, k)
        BY <2>1, GotoEffect, SamePrimitives
      <3>2. Open(g) = Starting(k)
        BY <2>2 DEF Open
      <3> HIDE DEF k
      <3>3. Same(k, Starting(k))
        BY <3>1, SamePrimitives
      <3>4. QED
        BY <2>2, <3>1, <3>2, <3>3 DEF Same
    <2>5. end[e] = Quiet(Open(g))
      <3>1. end[e] = [Open(g) EXCEPT !.calls = <<>>]
        BY DEF Init, g
      <3>2. QED
        BY <2>3, <2>4, <3>1 DEF Quiet, Fsm
    <2>6. QED
      BY <2>3, <2>4, <2>5, QuietReady
  <1>2. end \in [Ends -> Fsm]
    BY <1>1 DEF Init
  <1>3. wire \in [Ends -> Seq(Frame)] /\ \A e \in Ends : ToSet(wire[e]) = {}
    BY SetOfNothing DEF Init
  <1>4. moves \in 0 .. Moves /\ faults \in 0 .. Faults
    BY LineAssumption DEF Init
  <1>5. QED
    BY <1>1, <1>2, <1>3, <1>4 DEF Base, TypeOK

LEMMA BaseHolds == Spec => []Base
  BY BaseInit, BaseKept, PTL DEF Spec

(* Every field of both ends keeps its type and every frame on the line is well
   formed, with the bounds of the run. *)
THEOREM TypeCorrect == Spec => []TypeOK
  <1>1. Base => TypeOK
    BY DEF Base
  <1>2. QED
    BY <1>1, BaseHolds, PTL
-----------------------------------------------------------------------------
(* An event keeps what the ends know of each other, if it takes no identifier *)
(* of the line for a new request.                                             *)
Known(x) == Understood(end[x], Peer(x), end[Peer(x)].ho, wire[x], wire[Peer(x)])

LinkInv == Base /\ \A x \in Ends : Known(x)

LEMMA QuietUnderstood ==
    ASSUME NEW h \in Fsm, NEW u, NEW ho, NEW incoming, NEW outgoing,
           Understood(h, u, ho, incoming, outgoing)
    PROVE  Understood(Quiet(h), u, ho, incoming, outgoing)
  <1>1. /\ Quiet(h).state = h.state
        /\ Quiet(h).reqid = h.reqid /\ Quiet(h).go = h.go
    BY DEF Quiet, Fsm
  <1>2. QED
    BY <1>1 DEF Understood, Active, Accepted

LEMMA EventFields ==
    ASSUME Base, NEW e \in Ends, NEW h, NEW rest, Event(e, h, rest)
    PROVE  /\ end'[e] = Quiet(h) /\ end'[Peer(e)] = end[Peer(e)]
           /\ wire'[e] = rest /\ wire'[Peer(e)] = wire[Peer(e)] \o h.out
           /\ h \in Fsm /\ Quiet(h).reqid = h.reqid /\ Quiet(h).ho = h.ho
  <1>1. h \in Fsm /\ Peer(e) \in Ends /\ Peer(e) # e
    BY Peers DEF Event
  <1>2. /\ end' = [x \in Ends |-> IF x = e THEN Quiet(h) ELSE end[x]]
        /\ wire' = [x \in Ends |-> IF x = e THEN rest ELSE wire[x] \o h.out]
    BY DEF Event
  <1>3. Quiet(h).reqid = h.reqid /\ Quiet(h).ho = h.ho
    BY <1>1 DEF Quiet, Fsm
  <1>4. QED
    BY <1>1, <1>2, <1>3

LEMMA EventKnownHere ==
    ASSUME Base, NEW e \in Ends, NEW h, NEW rest, Event(e, h, rest),
           Known(e), FreshStep
    PROVE  Known(e)'
  <1> DEFINE g == end[e]
             p == Peer(e)
             ho == end[p].ho
             incoming == wire[e]
             outgoing == wire[p]
  <1>1. /\ end'[e] = Quiet(h) /\ end'[p] = end[p]
        /\ wire'[e] = rest /\ wire'[p] = outgoing \o h.out
        /\ h \in Fsm /\ Quiet(h).reqid = h.reqid
    BY EventFields
  <1>2. /\ Honest(h) /\ Follows(g, h) /\ h.out \in Seq(Frame)
        /\ ToSet(rest) \subseteq ToSet(incoming)
    BY EventOutcome DEF Part
  <1>3. incoming \in Seq(Frame) /\ outgoing \in Seq(Frame)
    BY BaseOf, Peers
  <1>4. Accepted(h) => Accepted(g) \/ Carries(incoming, "ConfAck", g.reqid)
    <2>1. CASE Steady(g, h)
      BY <2>1 DEF Steady
    <2>2. CASE incoming # <<>> /\ Reacts(g, h, Head(incoming))
      <3>1. Head(incoming) \in ToSet(incoming)
        BY <1>3, <2>2, TailIsPart
      <3>2. QED
        BY <2>2, <3>1 DEF Reacts, Carries
    <2>3. QED
      BY <2>1, <2>2 DEF Event
  <1>5. h.reqid # g.reqid =>
          ~Carries(outgoing, "ConfReq", h.reqid) /\ ~Carries(incoming, "ConfAck", h.reqid)
    BY <1>1 DEF FreshStep
  <1>6. Understood(g, p, ho, incoming, outgoing)
    BY DEF Known
  <1>7. Understood(h, p, ho, rest, outgoing \o h.out)
    <2> HIDE DEF g, p, ho, incoming, outgoing
    <2>1. QED
      BY <1>2, <1>3, <1>4, <1>5, <1>6, OwnSide
  <1>8. Understood(Quiet(h), p, ho, rest, outgoing \o h.out)
    BY <1>1, <1>7, QuietUnderstood
  <1>9. QED
    BY <1>1, <1>8 DEF Known

LEMMA EventKnownThere ==
    ASSUME Base, NEW e \in Ends, NEW h, NEW rest, Event(e, h, rest),
           Known(Peer(e))
    PROVE  Known(Peer(e))'
  <1> DEFINE p == Peer(e)
             g == end[p]
             k == end[e]
             incoming == wire[p]
             outgoing == wire[e]
  <1>1. p \in Ends /\ Peer(p) = e
    BY Peers
  <1>2. /\ end'[e] = Quiet(h) /\ end'[p] = g
        /\ wire'[e] = rest /\ wire'[p] = incoming \o h.out
        /\ h \in Fsm /\ Quiet(h).ho = h.ho
    BY EventFields
  <1>3. /\ h.out \in Seq(Frame) /\ k.unit = e
        /\ incoming \in Seq(Frame) /\ outgoing \in Seq(Frame)
    BY <1>1, EventOutcome, BaseOf
  <1>4. Understood(g, e, k.ho, incoming, outgoing)
    BY <1>1 DEF Known
  <1>5. Understood(g, e, h.ho, incoming \o h.out, rest)
    <2>1. CASE Steady(k, h) /\ Part(rest, outgoing)
      <3>1. h.ho = k.ho /\ NoAck(h)
        BY <2>1 DEF Steady
      <3> HIDE DEF p, g, k, incoming, outgoing
      <3>2. Understood(g, e, k.ho, incoming \o h.out, rest)
        BY <1>3, <1>4, <2>1, <3>1, OtherSideSteady
      <3>3. QED
        BY <3>1, <3>2
    <2>2. CASE outgoing # <<>> /\ rest = Tail(outgoing) /\ Reacts(k, h, Head(outgoing))
      <3>1. Replies(k, h, Head(outgoing))
        BY <2>2 DEF Reacts
      <3> HIDE DEF p, g, k, incoming, outgoing
      <3>2. Understood(g, e, h.ho, incoming \o h.out, Tail(outgoing))
        BY <1>3, <1>4, <2>2, <3>1, OtherSideReacts
      <3>3. QED
        BY <2>2, <3>2
    <2>3. QED
      BY <2>1, <2>2 DEF Event
  <1>6. QED
    BY <1>1, <1>2, <1>5 DEF Known

LEMMA KnownKept ==
    ASSUME Base, \A x \in Ends : Known(x), [Next]_vars, [FreshStep]_vars
    PROVE  \A x \in Ends : Known(x)'
  <1>1. ASSUME NEW e \in Ends, NEW h, NEW rest, Event(e, h, rest), NEW x \in Ends
        PROVE  Known(x)'
    <2>1. CASE FreshStep
      <3>1. Known(e)'
        BY <1>1, <2>1, EventKnownHere
      <3>2. Known(Peer(e))'
        BY <1>1, Peers, EventKnownThere
      <3>3. QED
        BY <3>1, <3>2, Peers
    <2>2. CASE UNCHANGED vars
      BY <2>2 DEF Known, vars
    <2>3. QED
      BY <2>1, <2>2
  <1>2. ASSUME NEW e \in Ends, Lose(e), NEW x \in Ends
        PROVE  Known(x)'
    <2>1. /\ end' = end /\ Peer(x) \in Ends
          /\ Part(wire'[x], wire[x]) /\ Part(wire'[Peer(x)], wire[Peer(x)])
      BY <1>2, LossOf, Peers
    <2>2. Understood(end[x], Peer(x), end[Peer(x)].ho, wire'[x], wire'[Peer(x)])
      BY <2>1, PartUnderstood DEF Known
    <2>3. QED
      BY <2>1, <2>2 DEF Known
  <1>3. CASE UNCHANGED <<end, wire>>
    BY <1>3 DEF Known
  <1>4. QED
    BY <1>1, <1>2, <1>3, Steps

LEMMA KnownInit == Init => \A x \in Ends : Known(x)
  <1> SUFFICES ASSUME Init, NEW x \in Ends
               PROVE  Known(x)
    OBVIOUS
  <1>1. end[x] = [Open(FsmInit(x)) EXCEPT !.calls = <<>>]
    BY DEF Init
  <1>2. FsmInit(x).state = "INITIAL" /\ FsmInit(x) \in Fsm
    <2>1. 0 \in Ids
      BY BoundsAssumption DEF Ids
    <2>2. <<>> \in Seq(Frame) /\ <<>> \in Seq(Callbacks)
      OBVIOUS
    <2>3. QED
      BY <2>1, <2>2, Nothing DEF FsmInit, Fsm, Ends
  <1>3. Open(FsmInit(x)) = Starting(Goto(FsmInit(x), "STARTING"))
    BY <1>2 DEF Open
  <1> DEFINE k == Goto(FsmInit(x), "STARTING")
  <1>4. k \in Fsm /\ k.state = "STARTING"
    BY <1>2, GotoEffect
  <1> HIDE DEF k
  <1>5. Starting(k).state = "STARTING" /\ Starting(k) \in Fsm
    BY <1>4, StartingEffect
  <1>6. end[x].state = "STARTING"
    BY <1>1, <1>3, <1>5 DEF k, Fsm
  <1>7. QED
    BY <1>6 DEF Known, Understood, Active
-----------------------------------------------------------------------------
(* What the two ends know of each other, the inductive invariant that agreement
   rests on, holds as long as no new request takes an identifier that is still
   on the line. *)
THEOREM LinkInvariance == Spec /\ IdsFresh => []LinkInv
  <1> DEFINE AllKnown == \A x \in Ends : Known(x)
  <1>1. Init => AllKnown
    BY KnownInit
  <1>2. Base /\ AllKnown /\ [Next]_vars /\ [FreshStep]_vars => AllKnown'
    BY KnownKept
  <1>3. Base /\ AllKnown => LinkInv
    BY DEF LinkInv
  <1> HIDE DEF AllKnown
  <1>4. QED
    BY <1>1, <1>2, <1>3, BaseHolds, PTL DEF Spec, IdsFresh

(* An end that is open uses the options that the other end acknowledged last:
   whatever was lost, retransmitted or renegotiated, no two ends of pppd are open
   with different ideas of the link. *)
THEOREM AgreementCorrect == Spec /\ IdsFresh => []Agreement
  <1>1. LinkInv => Agreement
    BY DEF LinkInv, Base, Known, Understood, Agreement, Active, Accepted
  <1>2. QED
    BY <1>1, LinkInvariance, PTL

(* An acknowledgement with the identifier of the request in force was given to
   the options of that request. *)
THEOREM AckOfCurrentCorrect == Spec /\ IdsFresh => []AckOfCurrent
  <1>1. LinkInv => AckOfCurrent
    BY DEF LinkInv, Base, Known, Understood, AckOfCurrent, Active
  <1>2. QED
    BY <1>1, LinkInvariance, PTL
=============================================================================
