---------------------------- MODULE SessionProofs ----------------------------
(***************************************************************************)
(* Proofs about PppSession, for every policy of authentication, all limits *)
(* and options of the daemon, every peer and every order of the events:    *)
(* the fields keep their types, there is no network before every           *)
(* authentication LCP agreed on was acknowledged, and every step of main() *)
(* is a step of SessionContract.                                           *)
(*                                                                         *)
(* At every call out of main() the session is Quiet, LCP not being open    *)
(* and nothing above it started, or Proved, and LcpClose makes it Quiet.   *)
(***************************************************************************)
EXTENDS PppSession, FsmLemmas

-----------------------------------------------------------------------------
(* What the functions do that neither run an automaton nor close LCP. *)

\* b is a after such a function: phase, LCP, IPCP, what is pending and what is
\* acknowledged are what they were, and no CHAP server was started.
Aside(a, b) ==
    /\ b \in Session
    /\ b.phase = a.phase /\ b.lcp = a.lcp /\ b.ipcp = a.ipcp
    /\ b.pending = a.pending /\ b.ipcpUp = a.ipcpUp /\ b.success = a.success
    /\ "STARTED" \in b.chapS => "STARTED" \in a.chapS

LEMMA AsideSelf == ASSUME NEW a \in Session PROVE Aside(a, a)
  BY DEF Aside

LEMMA AsideSession == ASSUME NEW a, NEW b, Aside(a, b) PROVE b \in Session
  BY DEF Aside

LEMMA AsideTwice ==
    ASSUME NEW a, NEW b, NEW c, Aside(a, b), Aside(b, c)
    PROVE  Aside(a, c)
  BY DEF Aside

LEMMA TimerAside ==
    ASSUME NEW a \in Session, NEW timer \in Timers
    PROVE  Aside(a, Arm(a, timer)) /\ Aside(a, Cancel(a, timer))
  <1>1. /\ [a.timers EXCEPT ![timer] = @ + 1] \in [Timers -> Nat]
        /\ [a.timers EXCEPT ![timer] = IF @ = 0 THEN 0 ELSE @ - 1] \in [Timers -> Nat]
    BY DEF Session
  <1>2. /\ Arm(a, timer) = [a EXCEPT !.timers = [a.timers EXCEPT ![timer] = @ + 1]]
        /\ Cancel(a, timer) =
             [a EXCEPT !.timers = [a.timers EXCEPT ![timer] = IF @ = 0 THEN 0 ELSE @ - 1]]
    BY DEF Arm, Cancel
  <1>3. \A q \in [Timers -> Nat] : Aside(a, [a EXCEPT !.timers = q])
    BY DEF Aside, Session
  <1>4. QED
    BY <1>1, <1>2, <1>3

\* The fields of PAP, CHAP, the echo and the scripts
LEMMA FieldAside ==
    ASSUME NEW a \in Session
    PROVE  /\ \A x \in PapStates : /\ Aside(a, [a EXCEPT !.papC = x])
                                   /\ Aside(a, [a EXCEPT !.papS = x])
           /\ \A n \in Nat : /\ Aside(a, [a EXCEPT !.papXmits = n])
                             /\ Aside(a, [a EXCEPT !.chapXmits = n])
                             /\ Aside(a, [a EXCEPT !.echos = n])
                             /\ Aside(a, [a EXCEPT !.unsuccess = n])
           /\ \A x \in SUBSET ChapFlags : Aside(a, [a EXCEPT !.chapC = x])
           /\ \A x \in SUBSET ChapFlags :
                ("STARTED" \in x => "STARTED" \in a.chapS) => Aside(a, [a EXCEPT !.chapS = x])
           /\ \A n \in BOOLEAN : /\ Aside(a, [a EXCEPT !.echo = n])
                                 /\ Aside(a, [a EXCEPT !.delayed = n])
                                 /\ Aside(a, [a EXCEPT !.fd = n])
                                 /\ Aside(a, [a EXCEPT !.hungup = n])
                                 /\ Aside(a, [a EXCEPT !.slow = n])
                                 /\ Aside(a, [a EXCEPT !.needHoldoff = n])
                                 /\ Aside(a, [a EXCEPT !.ipcpOpen = n])
           /\ \A x \in {"up", "down"}, n \in BOOLEAN :
                /\ Aside(a, [a EXCEPT !.authState = x])
                /\ Aside(a, [a EXCEPT !.authScript = x, !.authPid = n])
                /\ Aside(a, [a EXCEPT !.ipScript = x, !.ipPid = n])
           /\ \A n \in Int : /\ Aside(a, [a EXCEPT !.npOpen = n])
                             /\ Aside(a, [a EXCEPT !.npUp = n])
  <1>1. \A x \in PapStates : /\ Aside(a, [a EXCEPT !.papC = x])
                             /\ Aside(a, [a EXCEPT !.papS = x])
    BY DEF Aside, Session
  <1>2. \A n \in Nat : /\ Aside(a, [a EXCEPT !.papXmits = n])
                       /\ Aside(a, [a EXCEPT !.chapXmits = n])
                       /\ Aside(a, [a EXCEPT !.echos = n])
                       /\ Aside(a, [a EXCEPT !.unsuccess = n])
    BY DEF Aside, Session
  <1>3. \A x \in SUBSET ChapFlags : Aside(a, [a EXCEPT !.chapC = x])
    BY DEF Aside, Session
  <1>4. \A x \in SUBSET ChapFlags :
          ("STARTED" \in x => "STARTED" \in a.chapS) => Aside(a, [a EXCEPT !.chapS = x])
    BY DEF Aside, Session
  <1>5. \A n \in BOOLEAN : /\ Aside(a, [a EXCEPT !.echo = n])
                           /\ Aside(a, [a EXCEPT !.delayed = n])
    BY DEF Aside, Session
  <1>6. \A n \in BOOLEAN : /\ Aside(a, [a EXCEPT !.fd = n])
                           /\ Aside(a, [a EXCEPT !.hungup = n])
    BY DEF Aside, Session
  <1>7. \A n \in BOOLEAN : /\ Aside(a, [a EXCEPT !.slow = n])
                           /\ Aside(a, [a EXCEPT !.needHoldoff = n])
                           /\ Aside(a, [a EXCEPT !.ipcpOpen = n])
    BY DEF Aside, Session
  <1>8. \A x \in {"up", "down"} : Aside(a, [a EXCEPT !.authState = x])
    BY DEF Aside, Session
  <1>9. ASSUME NEW x \in {"up", "down"}, NEW n \in BOOLEAN
        PROVE  /\ Aside(a, [a EXCEPT !.authScript = x, !.authPid = n])
               /\ Aside(a, [a EXCEPT !.ipScript = x, !.ipPid = n])
    <2> DEFINE t == [a EXCEPT !.authScript = x]
               u == [a EXCEPT !.ipScript = x]
    <2>1. Aside(a, t) /\ Aside(a, u)
      BY DEF Aside, Session
    <2>2. t \in Session /\ u \in Session
      BY <2>1 DEF Aside
    <2>3. /\ [a EXCEPT !.authScript = x, !.authPid = n] = [t EXCEPT !.authPid = n]
          /\ [a EXCEPT !.ipScript = x, !.ipPid = n] = [u EXCEPT !.ipPid = n]
      OBVIOUS
    <2> HIDE DEF t, u
    <2>4. Aside(t, [t EXCEPT !.authPid = n]) /\ Aside(u, [u EXCEPT !.ipPid = n])
      BY <2>2 DEF Aside, Session
    <2>5. QED
      BY <2>1, <2>3, <2>4, AsideTwice
  <1>10. \A n \in Int : /\ Aside(a, [a EXCEPT !.npOpen = n])
                        /\ Aside(a, [a EXCEPT !.npUp = n])
    BY DEF Aside, Session
  <1>11. QED
    BY <1>1, <1>2, <1>3, <1>4, <1>5, <1>6, <1>7, <1>8, <1>9, <1>10

LEMMA SessionFields ==
    ASSUME NEW a \in Session
    PROVE  /\ a.phase \in Phases /\ a.lcp \in Fsm /\ a.ipcp \in Fsm
           /\ {a.fd, a.hungup, a.delayed, a.echo, a.ipcpOpen, a.ipcpUp, a.authPid,
               a.ipPid, a.needHoldoff, a.slow} \subseteq BOOLEAN
           /\ a.pending \subseteq Auths /\ a.success \subseteq Auths
           /\ a.papC \in PapStates /\ a.papS \in PapStates
           /\ a.chapC \subseteq ChapFlags /\ a.chapS \subseteq ChapFlags
           /\ {a.papXmits, a.chapXmits, a.echos, a.unsuccess} \subseteq Nat
           /\ {a.npOpen, a.npUp} \subseteq Int
           /\ {a.authState, a.authScript, a.ipScript} \subseteq {"up", "down"}
           /\ a.timers \in [Timers -> Nat]
  BY DEF Session

LEMMA PapLowerdownAside ==
    ASSUME NEW a \in Session
    PROVE  Aside(a, PapLowerdown(a))
  <1> DEFINE t == IF a.papC = "AUTHREQ" THEN Cancel(a, "pap") ELSE a
             u == IF a.papS = "LISTEN" THEN Cancel(t, "papReq") ELSE t
             v == [u EXCEPT !.papC = "INITIAL"]
  <1>1. "pap" \in Timers /\ "papReq" \in Timers /\ "INITIAL" \in PapStates
    BY DEF Timers, PapStates
  <1>2. Aside(a, t)
    BY <1>1, TimerAside, AsideSelf
  <1>3. t \in Session
    BY <1>2 DEF Aside
  <1> HIDE DEF t
  <1>4. Aside(t, u)
    BY <1>1, <1>3, TimerAside, AsideSelf
  <1>5. u \in Session
    BY <1>4 DEF Aside
  <1> HIDE DEF u
  <1>6. Aside(u, v)
    BY <1>1, <1>5, FieldAside
  <1>7. v \in Session
    BY <1>6 DEF Aside
  <1>8. PapLowerdown(a) = [v EXCEPT !.papS = "INITIAL"]
    BY DEF PapLowerdown, t, u
  <1> HIDE DEF v
  <1>9. Aside(v, [v EXCEPT !.papS = "INITIAL"])
    BY <1>1, <1>7, FieldAside
  <1>10. QED
    BY <1>2, <1>4, <1>6, <1>8, <1>9, AsideTwice

LEMMA ChapLowerdownAside ==
    ASSUME NEW a \in Session
    PROVE  Aside(a, ChapLowerdown(a)) /\ ChapLowerdown(a).chapS = {}
  <1> DEFINE t == IF "PENDING" \in a.chapS THEN Cancel(a, "chap") ELSE a
             u == [t EXCEPT !.chapC = {}]
  <1>1. "chap" \in Timers
    BY DEF Timers
  <1>2. Aside(a, t)
    BY <1>1, TimerAside, AsideSelf
  <1>3. t \in Session
    BY <1>2 DEF Aside
  <1>4. ChapLowerdown(a) = [u EXCEPT !.chapS = {}]
    BY DEF ChapLowerdown
  <1> HIDE DEF t
  <1>5. Aside(t, u)
    BY <1>3, FieldAside
  <1>6. u \in Session
    BY <1>5 DEF Aside
  <1> HIDE DEF u
  <1>7. Aside(u, [u EXCEPT !.chapS = {}])
    BY <1>6, FieldAside
  <1>8. [u EXCEPT !.chapS = {}].chapS = {}
    BY <1>6 DEF Session
  <1>9. QED
    BY <1>2, <1>4, <1>5, <1>7, <1>8, AsideTwice

LEMMA EchoLowerdownAside ==
    ASSUME NEW a \in Session
    PROVE  Aside(a, EchoLowerdown(a))
  <1> DEFINE t == Cancel(a, "echo")
  <1>1. "echo" \in Timers
    BY DEF Timers
  <1>2. Aside(a, t)
    BY <1>1, TimerAside
  <1>3. t \in Session
    BY <1>2 DEF Aside
  <1>4. EchoLowerdown(a) = IF a.echo THEN [t EXCEPT !.echo = FALSE] ELSE a
    BY DEF EchoLowerdown
  <1> HIDE DEF t
  <1>5. Aside(t, [t EXCEPT !.echo = FALSE])
    BY <1>3, FieldAside
  <1>6. QED
    BY <1>2, <1>4, <1>5, AsideTwice, AsideSelf

LEMMA ScriptsAside ==
    ASSUME NEW a \in Session
    PROVE  /\ Aside(a, AuthDownScript(a))
           /\ Aside(a, IpDownScript(a))
           /\ Aside(a, IpUpScript(a))
  BY FieldAside, AsideSelf DEF AuthDownScript, IpDownScript, IpUpScript

LEMMA PapSendAside ==
    ASSUME NEW a \in Session
    PROVE  Aside(a, PapSend(a))
  <1> DEFINE t == [a EXCEPT !.papXmits = @ + 1]
             u == [t EXCEPT !.papC = "AUTHREQ"]
  <1>1. "pap" \in Timers /\ "AUTHREQ" \in PapStates /\ a.papXmits + 1 \in Nat
    BY SessionFields DEF Timers, PapStates
  <1>2. Aside(a, t)
    BY <1>1, FieldAside
  <1>3. t \in Session
    BY <1>2 DEF Aside
  <1>4. PapSend(a) = Arm(u, "pap")
    BY DEF PapSend
  <1> HIDE DEF t
  <1>5. Aside(t, u)
    BY <1>1, <1>3, FieldAside
  <1>6. u \in Session
    BY <1>5 DEF Aside
  <1> HIDE DEF u
  <1>7. Aside(u, Arm(u, "pap"))
    BY <1>1, <1>6, TimerAside
  <1>8. QED
    BY <1>2, <1>4, <1>5, <1>7, AsideTwice

LEMMA PapLowerupAside ==
    ASSUME NEW a \in Session
    PROVE  Aside(a, PapLowerup(a))
  <1> DEFINE t == CASE a.papC = "INITIAL" -> [a EXCEPT !.papC = "CLOSED"]
                    [] a.papC = "PENDING" -> PapSend(a)
                    [] OTHER              -> a
             u == [t EXCEPT !.papS = "LISTEN"]
  <1>1. "papReq" \in Timers /\ {"CLOSED", "LISTEN"} \subseteq PapStates
    BY DEF Timers, PapStates
  <1>2. Aside(a, t)
    BY <1>1, FieldAside, PapSendAside, AsideSelf
  <1>3. t \in Session
    BY <1>2 DEF Aside
  <1>4. PapLowerup(a) = CASE t.papS = "INITIAL" -> [t EXCEPT !.papS = "CLOSED"]
                          [] t.papS = "PENDING" -> Arm(u, "papReq")
                          [] OTHER              -> t
    BY DEF PapLowerup
  <1> HIDE DEF t
  <1>5. Aside(t, u) /\ Aside(t, [t EXCEPT !.papS = "CLOSED"])
    BY <1>1, <1>3, FieldAside
  <1>6. u \in Session
    BY <1>5 DEF Aside
  <1> HIDE DEF u
  <1>7. Aside(u, Arm(u, "papReq"))
    BY <1>1, <1>6, TimerAside
  <1>8. Aside(t, Arm(u, "papReq"))
    BY <1>5, <1>7, AsideTwice
  <1>9. Aside(t, PapLowerup(a))
    BY <1>3, <1>4, <1>5, <1>8, AsideSelf
  <1>10. QED
    BY <1>2, <1>9, AsideTwice

LEMMA AuthStartAside ==
    ASSUME NEW a \in Session
    PROVE  /\ Aside(a, PapAuthPeer(a))
           /\ Aside(a, PapAuthWithPeer(a))
           /\ Aside(a, ChapAuthWithPeer(a))
  <1>1. "papReq" \in Timers /\ {"PENDING", "LISTEN"} \subseteq PapStates /\ 0 \in Nat
    BY DEF Timers, PapStates
  <1>2. Aside(a, PapAuthPeer(a))
    <2> DEFINE t == [a EXCEPT !.papS = "LISTEN"]
    <2>1. Aside(a, t) /\ Aside(a, [a EXCEPT !.papS = "PENDING"])
      BY <1>1, FieldAside
    <2>2. t \in Session
      BY <2>1 DEF Aside
    <2>3. PapAuthPeer(a) \in {[a EXCEPT !.papS = "PENDING"], Arm(t, "papReq")}
      BY DEF PapAuthPeer
    <2> HIDE DEF t
    <2>4. Aside(t, Arm(t, "papReq"))
      BY <1>1, <2>2, TimerAside
    <2>5. QED
      BY <2>1, <2>3, <2>4, AsideTwice
  <1>3. Aside(a, PapAuthWithPeer(a))
    <2> DEFINE t == [a EXCEPT !.papXmits = 0]
    <2>1. Aside(a, t)
      BY <1>1, FieldAside
    <2>2. t \in Session
      BY <2>1 DEF Aside
    <2>3. PapAuthWithPeer(a) \in {[t EXCEPT !.papC = "PENDING"], PapSend(t)}
      BY DEF PapAuthWithPeer
    <2> HIDE DEF t
    <2>4. Aside(t, PapSend(t)) /\ Aside(t, [t EXCEPT !.papC = "PENDING"])
      BY <1>1, <2>2, PapSendAside, FieldAside
    <2>5. QED
      BY <2>1, <2>3, <2>4, AsideTwice
  <1>4. Aside(a, ChapAuthWithPeer(a))
    <2>1. a.chapC \cup {"STARTED"} \subseteq ChapFlags
      BY SessionFields DEF ChapFlags
    <2>2. QED
      BY <2>1, FieldAside DEF ChapAuthWithPeer
  <1>5. QED
    BY <1>2, <1>3, <1>4

-----------------------------------------------------------------------------
(* The automata inside a session, and the states a session may be in. *)

Steady(f) == f \in Fsm /\ Inv(f) /\ f.calls = <<>>
Moves(f, g) == g \in Fsm /\ Inv(g) /\ Candid(f, g)

\* What every function of the session may rely on
Linked(a) ==
    /\ a \in Session /\ Steady(a.lcp) /\ Steady(a.ipcp)
    /\ a.ipcpUp => a.ipcp.state = "OPENED"

InNetwork(a) == a.phase \in {"NETWORK", "RUNNING"} \/ a.ipcp.state = "OPENED"

\* LCP is not open, and nothing above it has started.
Quiet(a) ==
    /\ a.lcp.state # "OPENED" /\ ~InNetwork(a)
    /\ "STARTED" \notin a.chapS

\* LCP is open; what it agreed on is acknowledged or still to be done.
Proved(a) ==
    /\ a.lcp.state = "OPENED" /\ a.phase \notin {"TERMINATE", "HOLDOFF"}
    /\ Agreed(a.lcp) \ a.pending \subseteq a.success
    /\ InNetwork(a) => a.pending = {}

Sound(a) == Linked(a) /\ (Quiet(a) \/ Proved(a))

\* LCP may have just come up.
Loose(a) == Linked(a) /\ (a.lcp.state = "OPENED" \/ Quiet(a))

LEMMA MadeCalls == ASSUME NEW f, NEW c PROVE Made(f, c) <=> c \in Calls(f)
  BY DEF Made, Calls

LEMMA SilentSteady ==
    ASSUME NEW f \in Fsm, Inv(f)
    PROVE  LET g == Silent(f)
           IN  Steady(g) /\ g.state = f.state /\ g.go = f.go /\ g.ho = f.ho
  <1> DEFINE g == Silent(f)
  <1>1. <<>> \in Seq(Frame) /\ <<>> \in Seq(Callbacks)
    OBVIOUS
  <1>2. g \in Fsm /\ g.calls = <<>>
    BY <1>1 DEF Silent, Fsm
  <1>3. /\ g.state = f.state /\ g.go = f.go /\ g.ho = f.ho /\ g.unit = f.unit
        /\ g.timers = f.timers /\ g.upper = f.upper /\ g.seen_ack = f.seen_ack
        /\ g.retransmits = f.retransmits /\ g.nakloops = f.nakloops
    BY DEF Silent, Fsm
  <1>4. Inv(g)
    BY <1>3 DEF Inv
  <1>5. QED
    BY <1>2, <1>3, <1>4 DEF Steady

LEMMA FsmMoves ==
    ASSUME NEW f, Steady(f)
    PROVE  /\ Moves(f, Lowerup(f)) /\ (Lowerup(f).state = "OPENED" => f.state = "OPENED")
           /\ Moves(f, Lowerdown(f)) /\ Lowerdown(f).state # "OPENED"
           /\ Moves(f, Open(f)) /\ (Open(f).state = "OPENED" => f.state = "OPENED")
           /\ Moves(f, Close(f)) /\ Close(f).state # "OPENED"
           /\ Moves(f, ProtReject(f))
           /\ \A m \in Frame : Moves(f, Input(f, m))
           /\ f.timers > 0 =>
                LET g == Expire(Untimeout(f))
                IN  Moves(f, g) /\ (g.state = "OPENED" => f.state = "OPENED")
  <1>1. f \in Fsm /\ Inv(f) /\ f.calls = <<>>
    BY DEF Steady
  <1>2. Moves(f, Lowerup(f)) /\ (Lowerup(f).state = "OPENED" => f.state = "OPENED")
    BY <1>1, LowerupFine, LowerupCandid DEF Moves, Guided
  <1>3. Moves(f, Lowerdown(f)) /\ Lowerdown(f).state # "OPENED"
    BY <1>1, LowerdownFine, LowerdownCandid DEF Moves, Guided
  <1>4. Moves(f, Open(f)) /\ (Open(f).state = "OPENED" => f.state = "OPENED")
    BY <1>1, OpenFine, OpenCandid DEF Moves, Guided
  <1>5. Moves(f, Close(f)) /\ Close(f).state # "OPENED"
    BY <1>1, CloseFine, CloseCandid DEF Moves, Guided
  <1>6. Moves(f, ProtReject(f))
    BY <1>1, ProtRejectFine, ProtRejectCandid DEF Moves, Fine
  <1>7. \A m \in Frame : Moves(f, Input(f, m))
    BY <1>1, InputFine, InputCandid DEF Moves, Fine
  <1>8. ASSUME f.timers > 0
        PROVE  LET g == Expire(Untimeout(f))
               IN  Moves(f, g) /\ (g.state = "OPENED" => f.state = "OPENED")
    <2> DEFINE u == Untimeout(f)
               g == Expire(u)
    <2>1. Fine(f, g)
      BY <1>1, <1>8, ExpireFine
    <2>2. u \in Fsm /\ u.state = f.state /\ u.calls = <<>>
      BY <1>1, UntimeoutEffect, Mute
    <2>3. u.go = f.go /\ u.ho = f.ho
      BY <1>1 DEF Untimeout, Fsm
    <2> HIDE DEF u
    <2>4. Candid(u, g) /\ (g.state = "OPENED" => u.state = "OPENED")
      BY <2>2, ExpireCandid
    <2> HIDE DEF g
    <2>5. Candid(f, g)
      BY <2>2, <2>3, <2>4 DEF Candid
    <2>6. Moves(f, g) /\ (g.state = "OPENED" => f.state = "OPENED")
      BY <2>1, <2>2, <2>4, <2>5 DEF Moves, Fine
    <2>7. QED
      BY <2>6 DEF g, u
  <1>9. QED
    BY <1>2, <1>3, <1>4, <1>5, <1>6, <1>7, <1>8

\* After such a function the session is as sound as before.
LEMMA AsideKeeps ==
    ASSUME NEW a, NEW b, Aside(a, b)
    PROVE  /\ Linked(a) => Linked(b)
           /\ Quiet(a) => Quiet(b)
           /\ Proved(a) => Proved(b)
           /\ Sound(a) => Sound(b)
           /\ Loose(a) => Loose(b)
  BY DEF Aside, Linked, Quiet, Proved, Sound, Loose, InNetwork

\* What a function that opens nothing does to an open link, if it stays open
Still(a, b) ==
    b.lcp.state = "OPENED" =>
      /\ b.lcp = a.lcp /\ b.success = a.success
      /\ b.ipcp.state = "OPENED" => a.ipcp.state = "OPENED"

LEMMA StillHere ==
    ASSUME NEW a, NEW b, a = b \/ Aside(a, b) \/ Quiet(b)
    PROVE  Still(a, b)
  BY DEF Still, Aside, Quiet

LEMMA StillTwice ==
    ASSUME NEW a, NEW b, NEW c, Still(a, b), Still(b, c)
    PROVE  Still(a, c)
  BY DEF Still

\* What any function may do to it: what LCP agreed on stays, one authentication
\* at most is acknowledged, and IPCP does not open with it, nor with LCP.
Lawful(a, b) ==
    b.lcp.state = "OPENED" =>
      IF a.lcp.state = "OPENED"
        THEN /\ b.lcp.go = a.lcp.go /\ b.lcp.ho = a.lcp.ho
             /\ \/ b.success = a.success
                \/ /\ \E x \in Auths : b.success = a.success \cup {x}
                   /\ b.ipcp.state = "OPENED" => a.ipcp.state = "OPENED"
        ELSE b.ipcp.state # "OPENED"

LEMMA StillLawful == ASSUME NEW a, NEW b, Still(a, b) PROVE Lawful(a, b)
  BY DEF Still, Lawful

LEMMA QuietLawful == ASSUME NEW a, NEW b, Quiet(b) PROVE Lawful(a, b)
  BY DEF Quiet, Lawful

LEMMA LawfulStill ==
    ASSUME NEW a, NEW b, NEW c, Lawful(a, b), Still(b, c)
    PROVE  Lawful(a, c)
  BY DEF Still, Lawful

LEMMA AsideLawful ==
    ASSUME NEW a, NEW b, NEW c, Aside(a, b), Lawful(b, c)
    PROVE  Lawful(a, c)
  BY DEF Aside, Lawful

\* b is a with one more acknowledgement.
Credited(a, b) ==
    /\ b \in Session
    /\ b.phase = a.phase /\ b.lcp = a.lcp /\ b.ipcp = a.ipcp
    /\ b.pending = a.pending /\ b.ipcpUp = a.ipcpUp /\ b.chapS = a.chapS
    /\ \E x \in Auths : b.success = a.success \cup {x}

LEMMA CreditedField ==
    ASSUME NEW a \in Session, NEW x \in Auths
    PROVE  LET b == [a EXCEPT !.success = @ \cup {x}]
           IN  Credited(a, b) /\ b.success = a.success \cup {x} /\ b \in Session
  <1> DEFINE y == a.success \cup {x}
             b == [a EXCEPT !.success = y]
  <1>1. y \in SUBSET Auths
    BY SessionFields
  <1>2. b.success = y /\ y = a.success \cup {x}
    BY DEF Session
  <1> HIDE DEF y
  <1>3. b \in Session
    BY <1>1 DEF Session
  <1>4. /\ b.phase = a.phase /\ b.lcp = a.lcp /\ b.ipcp = a.ipcp
        /\ b.pending = a.pending /\ b.ipcpUp = a.ipcpUp /\ b.chapS = a.chapS
    BY DEF Session
  <1>5. Credited(a, b)
    BY <1>2, <1>3, <1>4 DEF Credited
  <1>6. QED
    BY <1>2, <1>3, <1>5 DEF y

LEMMA CreditedKeeps ==
    ASSUME NEW a, NEW b, Credited(a, b)
    PROVE  /\ Sound(a) => Sound(b)
           /\ \A c : Still(b, c) /\ Sound(a) /\ a.lcp.state = "OPENED" => Lawful(a, c)
  <1>1. Sound(a) => Sound(b)
    BY DEF Credited, Linked, Quiet, Proved, Sound, InNetwork
  <1>2. ASSUME NEW c, Still(b, c), a.lcp.state = "OPENED" PROVE Lawful(a, c)
    BY <1>2 DEF Credited, Still, Lawful
  <1>3. QED
    BY <1>1, <1>2
-----------------------------------------------------------------------------
(* Going down. *)

\* b is a after IPCP has gone down or another way that does not lead up.
Lowered(a, b) ==
    /\ b \in Session
    /\ b.lcp = a.lcp /\ b.pending = a.pending /\ b.success = a.success
    /\ b.chapS = a.chapS
    /\ b.ipcpUp => a.ipcpUp
    /\ b.phase = a.phase \/ (a.ipcpUp /\ b.phase = "NETWORK")

LEMMA TimerOnly ==
    ASSUME NEW a \in Session, NEW timer \in Timers
    PROVE  LET b == Cancel(a, timer)
           IN  /\ b \in Session
               /\ b.lcp = a.lcp /\ b.pending = a.pending /\ b.success = a.success
               /\ b.chapS = a.chapS /\ b.ipcpUp = a.ipcpUp /\ b.phase = a.phase
               /\ b.ipcp = a.ipcp /\ b.npUp = a.npUp
  <1>1. Cancel(a, timer) \in Session
    BY TimerAside DEF Aside
  <1>2. QED
    BY <1>1 DEF Cancel, Session

LEMMA IpcpDownEffect ==
    ASSUME NEW a \in Session
    PROVE  LET b == IpcpDown(a)
           IN  Lowered(a, b) /\ b.ipcp = a.ipcp /\ ~b.ipcpUp
  <1> DEFINE u == [a EXCEPT !.ipcpUp = FALSE]
             v == [u EXCEPT !.npUp = @ - 1]
             w == Cancel(v, "idle")
             x == NpDown(u)
             y == IF a.ipcpUp THEN x ELSE a
  <1>1. a.npUp - 1 \in Int
    BY SessionFields
  <1>2. v \in Session
    BY <1>1 DEF Session
  <1>3. /\ v.lcp = a.lcp /\ v.pending = a.pending /\ v.success = a.success
        /\ v.chapS = a.chapS /\ ~v.ipcpUp /\ v.phase = a.phase /\ v.ipcp = a.ipcp
    BY DEF Session
  <1>4. x = IF v.npUp = 0 THEN Phase(w, "NETWORK") ELSE v
    BY DEF NpDown
  <1> HIDE DEF v
  <1>5. "idle" \in Timers
    BY DEF Timers
  <1>6. /\ w \in Session
        /\ w.lcp = a.lcp /\ w.pending = a.pending /\ w.success = a.success
        /\ w.chapS = a.chapS /\ ~w.ipcpUp /\ w.phase = a.phase /\ w.ipcp = a.ipcp
    BY <1>2, <1>3, <1>5, TimerOnly
  <1> HIDE DEF w
  <1>7. /\ Phase(w, "NETWORK") \in Session
        /\ LET b == Phase(w, "NETWORK")
           IN  /\ b.lcp = a.lcp /\ b.pending = a.pending /\ b.success = a.success
               /\ b.chapS = a.chapS /\ ~b.ipcpUp /\ b.phase = "NETWORK" /\ b.ipcp = a.ipcp
    BY <1>6 DEF Phase, Session, Phases
  <1>8. /\ x \in Session
        /\ x.lcp = a.lcp /\ x.pending = a.pending /\ x.success = a.success
        /\ x.chapS = a.chapS /\ ~x.ipcpUp /\ x.phase \in {a.phase, "NETWORK"}
        /\ x.ipcp = a.ipcp
    BY <1>2, <1>3, <1>4, <1>7
  <1> HIDE DEF x
  <1>9. a.ipcpUp \in BOOLEAN
    BY SessionFields
  <1>10. Lowered(a, y) /\ y.ipcp = a.ipcp /\ ~y.ipcpUp
    BY <1>8, <1>9 DEF Lowered
  <1>11. IpcpDown(a) = IpDownScript(y)
    BY DEF IpcpDown, x, u
  <1>12. y \in Session
    BY <1>10 DEF Lowered
  <1> HIDE DEF y
  <1>13. LET b == IpDownScript(y)
         IN  /\ b \in Session
             /\ b.lcp = y.lcp /\ b.pending = y.pending /\ b.success = y.success
             /\ b.chapS = y.chapS /\ b.ipcpUp = y.ipcpUp /\ b.phase = y.phase
             /\ b.ipcp = y.ipcp
    <2>1. IpDownScript(y) \in Session
      BY <1>12, ScriptsAside DEF Aside
    <2>2. QED
      BY <1>12, <2>1 DEF IpDownScript, Session
  <1>14. QED
    BY <1>10, <1>11, <1>13 DEF Lowered

LEMMA IpcpDropEffect ==
    ASSUME NEW a, Linked(a), NEW f, Moves(a.ipcp, f)
    PROVE  LET b == IpcpDrop(a, f)
           IN  /\ Linked(b) /\ Lowered(a, b) /\ b.ipcp = Silent(f)
               /\ b.ipcp.state = f.state
  <1> DEFINE t == [a EXCEPT !.ipcp = Silent(f)]
  <1>1. a \in Session /\ Steady(a.lcp) /\ (a.ipcpUp => a.ipcp.state = "OPENED")
    BY DEF Linked
  <1>2. Steady(Silent(f)) /\ Silent(f).state = f.state
    BY SilentSteady DEF Moves
  <1>3. Silent(f) \in Fsm
    BY <1>2 DEF Steady
  <1>4. t \in Session
    BY <1>1, <1>3 DEF Session
  <1>5. /\ t.lcp = a.lcp /\ t.pending = a.pending /\ t.success = a.success
        /\ t.chapS = a.chapS /\ t.ipcpUp = a.ipcpUp /\ t.phase = a.phase
        /\ t.ipcp = Silent(f)
    BY <1>1 DEF Session
  <1>6. IpcpDrop(a, f) = IF "down" \in Calls(f) THEN IpcpDown(t) ELSE t
    BY MadeCalls DEF IpcpDrop
  <1> HIDE DEF t
  <1>7. CASE "down" \in Calls(f)
    <2>1. Lowered(t, IpcpDown(t)) /\ IpcpDown(t).ipcp = t.ipcp /\ ~IpcpDown(t).ipcpUp
      BY <1>4, IpcpDownEffect
    <2>2. QED
      BY <1>1, <1>2, <1>5, <1>6, <1>7, <2>1 DEF Lowered, Linked
  <1>8. CASE "down" \notin Calls(f)
    <2>1. a.ipcp.state = "OPENED" => f.state = "OPENED"
      BY <1>8 DEF Moves, Candid
    <2>2. QED
      BY <1>1, <1>2, <1>4, <1>5, <1>6, <1>8, <2>1 DEF Lowered, Linked
  <1>9. QED
    BY <1>7, <1>8

\* The protocols above LCP are told that it is down.
LEMMA UpperLayersDownEffect ==
    ASSUME NEW a, Linked(a)
    PROVE  LET b == UpperLayersDown(a)
           IN  /\ Linked(b) /\ b.lcp = a.lcp
               /\ b.ipcp.state # "OPENED" /\ "STARTED" \notin b.chapS
  <1> DEFINE t == ChapLowerdown(PapLowerdown(a))
             u == IpcpLowerdown(t)
             v == IpcpClose(u)
             w == [v EXCEPT !.npOpen = 0]
  <1>1. Linked(t) /\ t.lcp = a.lcp /\ t.chapS = {}
    <2> DEFINE p == PapLowerdown(a)
    <2>1. Aside(a, p)
      BY PapLowerdownAside DEF Linked
    <2>2. p \in Session
      BY <2>1 DEF Aside
    <2> HIDE DEF p
    <2>3. Aside(p, ChapLowerdown(p)) /\ ChapLowerdown(p).chapS = {}
      BY <2>2, ChapLowerdownAside
    <2>4. Linked(ChapLowerdown(p)) /\ ChapLowerdown(p).lcp = a.lcp
      BY <2>1, <2>3, AsideKeeps DEF Aside
    <2>5. QED
      BY <2>3, <2>4 DEF p
  <1> HIDE DEF t
  <1>2. Linked(u) /\ u.lcp = a.lcp /\ u.chapS = {}
    <2>1. Moves(t.ipcp, Lowerdown(t.ipcp))
      BY <1>1, FsmMoves DEF Linked
    <2>2. Linked(u) /\ Lowered(t, u)
      BY <1>1, <2>1, IpcpDropEffect DEF IpcpLowerdown
    <2>3. QED
      BY <1>1, <2>2 DEF Lowered
  <1> HIDE DEF u
  <1>3. Linked(v) /\ v.lcp = a.lcp /\ v.chapS = {} /\ v.ipcp.state # "OPENED"
    <2>1. Moves(u.ipcp, Close(u.ipcp)) /\ Close(u.ipcp).state # "OPENED"
      BY <1>2, FsmMoves DEF Linked
    <2>2. Linked(v) /\ Lowered(u, v) /\ v.ipcp.state = Close(u.ipcp).state
      BY <1>2, <2>1, IpcpDropEffect DEF IpcpClose
    <2>3. QED
      BY <1>2, <2>1, <2>2 DEF Lowered
  <1>4. UpperLayersDown(a) = [w EXCEPT !.npUp = 0]
    BY DEF UpperLayersDown, u, t
  <1> HIDE DEF v
  <1>5. Aside(v, w)
    BY <1>3 DEF Aside, Session, Linked
  <1>6. w \in Session
    BY <1>5 DEF Aside
  <1> HIDE DEF w
  <1>7. Aside(w, [w EXCEPT !.npUp = 0])
    BY <1>6 DEF Aside, Session
  <1>8. Aside(v, UpperLayersDown(a))
    BY <1>4, <1>5, <1>7, AsideTwice
  <1>9. QED
    BY <1>3, <1>8, AsideKeeps DEF Aside

\* The phase and nothing else
LEMMA PhaseEffect ==
    ASSUME NEW a, Linked(a), NEW p \in Phases
    PROVE  LET b == Phase(a, p)
           IN  /\ Linked(b) /\ b.phase = p /\ b.lcp = a.lcp /\ b.ipcp = a.ipcp
               /\ b.pending = a.pending /\ b.success = a.success
               /\ b.chapS = a.chapS
  <1>1. Phase(a, p) \in Session
    BY DEF Phase, Linked, Session
  <1>2. QED
    BY <1>1 DEF Phase, Linked, Session

LEMMA LcpDownEffect ==
    ASSUME NEW a, Linked(a)
    PROVE  LET b == LcpDown(a)
           IN  /\ Linked(b) /\ b.lcp = a.lcp /\ ~InNetwork(b)
               /\ "STARTED" \notin b.chapS
  <1> DEFINE e == EchoLowerdown(a)
             down == [e EXCEPT !.authState = "down"]
             d == IF e.authState = "up" THEN AuthDownScript(down) ELSE e
             t == UpperLayersDown(d)
             u == IF t.phase = "DEAD" THEN t ELSE Phase(t, "ESTABLISH")
  <1>1. Linked(e) /\ e.lcp = a.lcp
    BY EchoLowerdownAside, AsideKeeps DEF Linked, Aside
  <1>2. LcpDown(a) = [u EXCEPT !.success = {}]
    BY DEF LcpDown, LinkDown
  <1> HIDE DEF e
  <1>3. Aside(e, down)
    BY <1>1, FieldAside DEF Linked
  <1>4. Aside(down, AuthDownScript(down))
    BY <1>3, ScriptsAside DEF Aside
  <1>5. Aside(e, d)
    BY <1>1, <1>3, <1>4, AsideTwice, AsideSelf DEF Linked
  <1>6. Linked(d) /\ d.lcp = a.lcp
    BY <1>1, <1>5, AsideKeeps DEF Aside
  <1> HIDE DEF d
  <1>7. /\ Linked(t) /\ t.lcp = a.lcp
        /\ t.ipcp.state # "OPENED" /\ "STARTED" \notin t.chapS
    BY <1>6, UpperLayersDownEffect
  <1> HIDE DEF t
  <1>8. "ESTABLISH" \in Phases
    BY DEF Phases
  <1>9. /\ Linked(u) /\ u.lcp = a.lcp /\ u.phase \in {"DEAD", "ESTABLISH"}
        /\ u.ipcp.state # "OPENED" /\ "STARTED" \notin u.chapS
    BY <1>7, <1>8, PhaseEffect
  <1> HIDE DEF u
  <1>10. [u EXCEPT !.success = {}] \in Session
    BY <1>9 DEF Linked, Session
  <1>11. LET b == [u EXCEPT !.success = {}]
         IN  /\ b.lcp = u.lcp /\ b.ipcp = u.ipcp /\ b.phase = u.phase
             /\ b.chapS = u.chapS /\ b.ipcpUp = u.ipcpUp
    BY <1>9 DEF Linked, Session
  <1>12. QED
    BY <1>2, <1>9, <1>10, <1>11 DEF Linked, InNetwork

\* A function of LCP may call down, which leaves nothing above LCP.
LEMMA LcpFallEffect ==
    ASSUME NEW a, Linked(a), NEW f, Moves(a.lcp, f)
    PROVE  LET b == LcpFall(a, f)
           IN  /\ Linked(b) /\ b.lcp = Silent(f) /\ b.lcp.state = f.state
               /\ IF a.lcp.state = "OPENED" /\ f.state # "OPENED"
                    THEN Quiet(b)
                    ELSE /\ b.phase = a.phase /\ b.ipcp = a.ipcp
                         /\ b.pending = a.pending /\ b.success = a.success
                         /\ b.chapS = a.chapS /\ b.echos = a.echos
  <1> DEFINE t == [a EXCEPT !.lcp = Silent(f)]
  <1>1. a \in Session /\ Steady(a.ipcp) /\ (a.ipcpUp => a.ipcp.state = "OPENED")
    BY DEF Linked
  <1>2. Steady(Silent(f)) /\ Silent(f).state = f.state
    BY SilentSteady DEF Moves
  <1>3. Silent(f) \in Fsm
    BY <1>2 DEF Steady
  <1>4. t \in Session
    BY <1>1, <1>3 DEF Session
  <1>5. /\ t.ipcp = a.ipcp /\ t.pending = a.pending /\ t.success = a.success
        /\ t.chapS = a.chapS /\ t.ipcpUp = a.ipcpUp /\ t.phase = a.phase
        /\ t.lcp = Silent(f) /\ t.echos = a.echos
    BY <1>1 DEF Session
  <1>6. Linked(t)
    BY <1>1, <1>2, <1>4, <1>5 DEF Linked
  <1>7. LcpFall(a, f) = IF "down" \in Calls(f) THEN LcpDown(t) ELSE t
    BY MadeCalls DEF LcpFall
  <1> HIDE DEF t
  <1>8. "down" \in Calls(f) <=> a.lcp.state = "OPENED" /\ f.state # "OPENED"
    BY DEF Moves, Candid
  <1>9. CASE "down" \in Calls(f)
    <2>1. LET b == LcpDown(t)
          IN  /\ Linked(b) /\ b.lcp = t.lcp /\ ~InNetwork(b)
              /\ "STARTED" \notin b.chapS
      BY <1>6, LcpDownEffect
    <2>2. QED
      BY <1>2, <1>5, <1>7, <1>8, <1>9, <2>1 DEF Quiet
  <1>10. CASE "down" \notin Calls(f)
    BY <1>2, <1>5, <1>6, <1>7, <1>8, <1>10
  <1>11. QED
    BY <1>9, <1>10

LEMMA LcpLowerdownEffect ==
    ASSUME NEW a, Sound(a)
    PROVE  LET b == LcpLowerdown(a)
           IN  Sound(b) /\ (Quiet(a) => Quiet(b)) /\ Still(a, b)
  <1>1. Linked(a)
    BY DEF Sound
  <1>2. CASE a.delayed
    <2>1. Aside(a, [a EXCEPT !.delayed = FALSE])
      BY <1>1, FieldAside DEF Linked
    <2>2. QED
      BY <1>2, <2>1, AsideKeeps, StillHere DEF LcpLowerdown
  <1>3. CASE ~a.delayed
    <2> DEFINE f == Lowerdown(a.lcp)
               b == LcpFall(a, f)
    <2>1. Moves(a.lcp, f) /\ f.state # "OPENED"
      BY <1>1, FsmMoves DEF Linked
    <2>2. LcpLowerdown(a) = b
      BY <1>3 DEF LcpLowerdown
    <2> HIDE DEF f
    <2>3. /\ Linked(b) /\ b.lcp.state # "OPENED"
          /\ IF a.lcp.state = "OPENED"
               THEN Quiet(b)
               ELSE b.phase = a.phase /\ b.ipcp = a.ipcp /\ b.chapS = a.chapS
      BY <1>1, <2>1, LcpFallEffect
    <2> HIDE DEF b
    <2>4. Quiet(b)
      BY <2>3 DEF Sound, Quiet, Proved, InNetwork
    <2>5. QED
      BY <2>2, <2>3, <2>4, StillHere DEF Sound
  <1>4. QED
    BY <1>2, <1>3

LEMMA LinkTerminatedEffect ==
    ASSUME NEW a, Sound(a)
    PROVE  LET b == LinkTerminated(a)
           IN  Sound(b) /\ (Quiet(a) => Quiet(b)) /\ Still(a, b)
  <1> DEFINE t == [a EXCEPT !.fd = FALSE]
             u == IF a.hungup THEN t ELSE LcpLowerdown(t)
  <1>1. Aside(a, t)
    BY FieldAside DEF Sound, Linked
  <1>2. Sound(t) /\ (Quiet(a) => Quiet(t))
    BY <1>1, AsideKeeps
  <1>3. LinkTerminated(a) = IF a.phase = "DEAD" THEN a ELSE Phase(u, "DEAD")
    BY DEF LinkTerminated
  <1> HIDE DEF t
  <1>4. Sound(u) /\ (Quiet(a) => Quiet(u)) /\ Still(a, u)
    BY <1>1, <1>2, LcpLowerdownEffect, StillHere, StillTwice
  <1> HIDE DEF u
  <1>5. "DEAD" \in Phases /\ Linked(u)
    BY <1>4 DEF Phases, Sound
  <1>6. LET b == Phase(u, "DEAD")
        IN  /\ Linked(b) /\ b.phase = "DEAD" /\ b.lcp = u.lcp /\ b.ipcp = u.ipcp
            /\ b.pending = u.pending /\ b.success = u.success /\ b.chapS = u.chapS
    BY <1>5, PhaseEffect
  <1>7. Sound(Phase(u, "DEAD")) /\ (Quiet(u) => Quiet(Phase(u, "DEAD")))
    BY <1>4, <1>6 DEF Sound, Quiet, Proved, InNetwork
  <1>8. Still(a, Phase(u, "DEAD"))
    BY <1>4, <1>6 DEF Still
  <1>9. QED
    BY <1>3, <1>4, <1>7, <1>8, StillHere

LEMMA LcpFinishEffect ==
    ASSUME NEW a, Sound(a), NEW f
    PROVE  LET b == LcpFinish(a, f)
           IN  Sound(b) /\ (Quiet(a) => Quiet(b)) /\ Still(a, b)
  BY LinkTerminatedEffect, StillHere DEF LcpFinish

\* lcp_close leaves no network, whatever was going on.
LEMMA LcpCloseEffect ==
    ASSUME NEW a, Loose(a)
    PROVE  Linked(LcpClose(a)) /\ Quiet(LcpClose(a))
  <1> DEFINE t == IF a.phase = "DEAD" THEN a ELSE Phase(a, "TERMINATE")
             f == Close(a.lcp)
             b == LcpFall(t, f)
             c == [t EXCEPT !.lcp.state = "CLOSED"]
             passive == /\ a.lcp.state = "STOPPED"
                        /\ Has(a.lcp, "passive") \/ Has(a.lcp, "silent")
  <1>1. /\ Linked(t) /\ t.phase \in {"DEAD", "TERMINATE"} /\ t.lcp = a.lcp
        /\ t.ipcp = a.ipcp /\ t.chapS = a.chapS
    <2>1. "TERMINATE" \in Phases /\ Linked(a)
      BY DEF Phases, Loose
    <2>2. QED
      BY <2>1, PhaseEffect
  <1>2. LcpClose(a) = IF passive THEN LinkTerminated(c) ELSE LcpFinish(b, f)
    BY DEF LcpClose
  <1>3. a.lcp.state # "OPENED" => Quiet(a)
    BY DEF Loose
  <1>4. Moves(a.lcp, f) /\ f.state # "OPENED"
    BY <1>1, FsmMoves DEF Linked
  <1>5. ASSUME passive PROVE Linked(c) /\ Quiet(c)
    <2>1. f = Goto(a.lcp, "CLOSED") /\ "CLOSED" \in States
      BY <1>5 DEF Close, Negotiating, States
    <2>2. f.calls = <<>>
      BY <1>1, <2>1, Mute DEF Linked, Steady
    <2>3. Steady(f) /\ f.state = "CLOSED"
      BY <1>1, <1>4, <2>1, <2>2, GotoEffect DEF Steady, Moves, Linked
    <2>4. c = [t EXCEPT !.lcp = f]
      BY <1>1, <2>1 DEF Goto
    <2>5. f \in Fsm
      BY <2>3 DEF Steady
    <2> HIDE DEF f, t, c
    <2>6. c \in Session
      BY <1>1, <2>4, <2>5 DEF Linked, Session
    <2>7. /\ c.lcp = f /\ c.ipcp = a.ipcp /\ c.phase = t.phase /\ c.chapS = a.chapS
          /\ c.ipcpUp = t.ipcpUp
      BY <1>1, <2>4 DEF Linked, Session
    <2>8. Linked(c)
      BY <1>1, <2>3, <2>6, <2>7 DEF Linked
    <2>9. Quiet(c)
      BY <1>1, <1>3, <1>5, <2>3, <2>7 DEF Quiet, InNetwork
    <2>10. QED
      BY <2>8, <2>9
  <1> HIDE DEF c, f, passive
  <1>6. /\ Linked(b) /\ b.lcp.state # "OPENED"
        /\ IF a.lcp.state = "OPENED"
             THEN Quiet(b)
             ELSE b.phase = t.phase /\ b.ipcp = t.ipcp /\ b.chapS = t.chapS
    BY <1>1, <1>4, LcpFallEffect
  <1> HIDE DEF b, t
  <1>7. Quiet(b)
    BY <1>1, <1>3, <1>6 DEF Quiet, InNetwork
  <1>8. Sound(b) /\ (passive => Sound(c))
    BY <1>5, <1>6, <1>7 DEF Sound
  <1>9. QED
    BY <1>2, <1>5, <1>7, <1>8, LinkTerminatedEffect, LcpFinishEffect DEF Sound

LEMMA LcpCloseSound ==
    ASSUME NEW a, Loose(a) PROVE Sound(LcpClose(a)) /\ Quiet(LcpClose(a))
  BY LcpCloseEffect DEF Sound

LEMMA SoundLoose == ASSUME NEW a, Sound(a) PROVE Loose(a)
  BY DEF Sound, Loose, Proved

-----------------------------------------------------------------------------
(* The network phase. *)

LEMMA IpcpFinishEffect ==
    ASSUME NEW a, Sound(a), NEW f
    PROVE  LET b == IpcpFinish(a, f)
           IN  Sound(b) /\ (Quiet(a) => Quiet(b)) /\ Still(a, b)
  <1> DEFINE t == [a EXCEPT !.ipcpOpen = FALSE]
             u == [t EXCEPT !.npOpen = @ - 1]
  <1>1. Aside(a, t)
    BY FieldAside DEF Sound, Linked
  <1>2. Sound(t) /\ (Quiet(a) => Quiet(t))
    BY <1>1, AsideKeeps
  <1>3. IpcpFinish(a, f) \in {a, NpFinished(t)}
    BY DEF IpcpFinish, IpcpFinished
  <1> HIDE DEF t
  <1>4. t \in Session /\ t.npOpen - 1 \in Int
    BY <1>2, SessionFields DEF Sound, Linked
  <1>5. Aside(t, u)
    BY <1>4, FieldAside
  <1>6. Sound(u) /\ (Quiet(t) => Quiet(u))
    BY <1>2, <1>5, AsideKeeps
  <1>7. NpFinished(t) \in {u, LcpClose(u)}
    BY DEF NpFinished
  <1> HIDE DEF u
  <1>8. Sound(LcpClose(u)) /\ Quiet(LcpClose(u))
    BY <1>6, SoundLoose, LcpCloseSound
  <1>9. Still(a, a) /\ Still(a, u) /\ Still(a, LcpClose(u))
    BY <1>1, <1>5, <1>8, AsideTwice, StillHere
  <1>10. QED
    BY <1>2, <1>3, <1>6, <1>7, <1>8, <1>9

\* A function of IPCP that may call down opens nothing.
LEMMA DropSound ==
    ASSUME NEW a, Sound(a), NEW f, Moves(a.ipcp, f),
           f.state = "OPENED" => a.ipcp.state = "OPENED" \/ (Proved(a) /\ a.pending = {})
    PROVE  LET b == IpcpDrop(a, f)
           IN  /\ Sound(b) /\ (Quiet(a) => Quiet(b))
               /\ b.ipcp = Silent(f) /\ b.ipcp.state = f.state
               /\ b.lcp = a.lcp /\ b.pending = a.pending /\ b.success = a.success
  <1> DEFINE b == IpcpDrop(a, f)
  <1>1. Linked(a) /\ (a.ipcpUp => a.ipcp.state = "OPENED")
    BY DEF Sound, Linked
  <1>2. Linked(b) /\ Lowered(a, b) /\ b.ipcp = Silent(f) /\ b.ipcp.state = f.state
    BY <1>1, IpcpDropEffect
  <1> HIDE DEF b
  <1>3. /\ b.lcp = a.lcp /\ b.pending = a.pending /\ b.success = a.success
        /\ b.chapS = a.chapS
        /\ b.phase = a.phase \/ (a.ipcp.state = "OPENED" /\ b.phase = "NETWORK")
    BY <1>1, <1>2 DEF Lowered
  <1>4. Quiet(a) => Quiet(b)
    BY <1>2, <1>3 DEF Quiet, InNetwork, Proved
  <1>5. Proved(a) => Proved(b)
    BY <1>2, <1>3 DEF Proved, InNetwork
  <1>6. Sound(b)
    BY <1>2, <1>4, <1>5 DEF Sound
  <1>7. QED
    BY <1>2, <1>3, <1>4, <1>6 DEF b

LEMMA IpcpQuitSound ==
    ASSUME NEW a, Sound(a), NEW f, Moves(a.ipcp, f),
           f.state = "OPENED" => a.ipcp.state = "OPENED"
    PROVE  LET b == IpcpQuit(a, f)
           IN  Sound(b) /\ (Quiet(a) => Quiet(b)) /\ Still(a, b)
  <1> DEFINE b == IpcpDrop(a, f)
  <1>1. /\ Sound(b) /\ (Quiet(a) => Quiet(b)) /\ b.ipcp.state = f.state
        /\ b.lcp = a.lcp /\ b.success = a.success
    BY DropSound
  <1>2. IpcpQuit(a, f) = IpcpFinish(b, f)
    BY DEF IpcpQuit
  <1> HIDE DEF b
  <1>3. Still(a, b)
    BY <1>1 DEF Still
  <1>4. QED
    BY <1>1, <1>2, <1>3, IpcpFinishEffect, StillTwice

\* The network is up: IPCP is open, and every authentication is done.
LEMMA NpUpEffect ==
    ASSUME NEW a, Linked(a), Proved(a), a.pending = {}
    PROVE  LET b == NpUp(a)
           IN  /\ Linked(b) /\ Proved(b) /\ b.pending = {}
               /\ b.ipcp = a.ipcp /\ b.lcp = a.lcp /\ b.success = a.success
  <1> DEFINE first == Phase([a EXCEPT !.unsuccess = 0, !.slow = FALSE], "RUNNING")
             armed == Arm(first, "idle")
             t == IF a.npUp > 0 THEN a ELSE IF IdleLimit THEN armed ELSE first
  <1>1. NpUp(a) = [t EXCEPT !.npUp = @ + 1]
    BY DEF NpUp
  <1>2. first \in Session
    BY DEF Phase, Linked, Session, Phases
  <1>3. /\ first.phase = "RUNNING" /\ first.lcp = a.lcp /\ first.ipcp = a.ipcp
        /\ first.pending = a.pending /\ first.success = a.success
        /\ first.ipcpUp = a.ipcpUp
    BY DEF Phase, Linked, Session
  <1> HIDE DEF first
  <1>4. Linked(first) /\ Proved(first)
    BY <1>2, <1>3 DEF Linked, Proved
  <1>5. "idle" \in Timers
    BY DEF Timers
  <1>6. Aside(first, armed)
    BY <1>2, <1>5, TimerAside
  <1>7. /\ Linked(armed) /\ Proved(armed) /\ armed.pending = {}
        /\ armed.ipcp = a.ipcp /\ armed.lcp = a.lcp /\ armed.success = a.success
    BY <1>3, <1>4, <1>6, AsideKeeps DEF Aside
  <1> HIDE DEF armed
  <1>8. /\ Linked(t) /\ Proved(t) /\ t.pending = {}
        /\ t.ipcp = a.ipcp /\ t.lcp = a.lcp /\ t.success = a.success
    BY <1>3, <1>4, <1>7
  <1> HIDE DEF t
  <1>9. t \in Session /\ t.npUp + 1 \in Int
    BY <1>8, SessionFields DEF Linked
  <1>10. Aside(t, [t EXCEPT !.npUp = @ + 1])
    BY <1>9, FieldAside
  <1>11. QED
    BY <1>1, <1>8, <1>10, AsideKeeps DEF Aside

LEMMA IpcpUpSound ==
    ASSUME NEW a, Linked(a), Proved(a), a.pending = {}, a.ipcp.state = "OPENED", NEW ok
    PROVE  Sound(IpcpUp(a, ok)) /\ Still(a, IpcpUp(a, ok))
  <1> DEFINE t == NpUp(a)
             u == [t EXCEPT !.ipcpUp = TRUE]
  <1>1. /\ Linked(t) /\ Proved(t) /\ t.pending = {}
        /\ t.ipcp = a.ipcp /\ t.lcp = a.lcp /\ t.success = a.success
    BY NpUpEffect
  <1>2. IpcpUp(a, ok) \in {IpUpScript(u), IpcpQuit(a, Close(a.ipcp))}
    BY DEF IpcpUp
  <1> HIDE DEF t
  <1>3. u \in Session
    BY <1>1 DEF Linked, Session
  <1>4. /\ u.phase = t.phase /\ u.lcp = t.lcp /\ u.ipcp = t.ipcp
        /\ u.pending = t.pending /\ u.success = t.success
    BY <1>1 DEF Linked, Session
  <1> HIDE DEF u
  <1>5. Sound(u)
    BY <1>1, <1>3, <1>4 DEF Sound, Linked, Proved, InNetwork
  <1>6. Sound(IpUpScript(u)) /\ Still(a, IpUpScript(u))
    <2>1. Aside(u, IpUpScript(u)) /\ Still(a, u)
      BY <1>1, <1>3, <1>4, ScriptsAside DEF Still
    <2>2. QED
      BY <1>5, <2>1, AsideKeeps, StillHere, StillTwice
  <1>7. LET b == IpcpQuit(a, Close(a.ipcp)) IN Sound(b) /\ Still(a, b)
    <2>1. Sound(a)
      BY DEF Sound
    <2>2. Moves(a.ipcp, Close(a.ipcp))
      BY FsmMoves DEF Linked
    <2>3. QED
      BY <2>1, <2>2, IpcpQuitSound
  <1>8. QED
    BY <1>2, <1>6, <1>7

\* Any function of IPCP, which opens it in the network phase only
LEMMA IpcpRunSound ==
    ASSUME NEW a, Sound(a), NEW f, Moves(a.ipcp, f), NEW ok,
           f.state = "OPENED" => a.ipcp.state = "OPENED" \/ (Proved(a) /\ a.pending = {})
    PROVE  LET b == IpcpRun(a, f, ok)
           IN  Sound(b) /\ (Quiet(a) => Quiet(b)) /\ Lawful(a, b)
  <1> DEFINE b == IpcpDrop(a, f)
             c == IF "up" \in Calls(f) THEN IpcpUp(b, ok) ELSE b
  <1>1. /\ Sound(b) /\ (Quiet(a) => Quiet(b))
        /\ b.ipcp.state = f.state /\ b.lcp = a.lcp /\ b.pending = a.pending
        /\ b.success = a.success
    BY DropSound
  <1>2. IpcpRun(a, f, ok) = IpcpFinish(c, f)
    BY MadeCalls DEF IpcpRun
  <1> HIDE DEF b
  <1>3. Lawful(a, b)
    BY <1>1 DEF Lawful, Sound, Quiet, InNetwork
  <1>4. CASE "up" \in Calls(f)
    <2>1. f.state = "OPENED" /\ a.ipcp.state # "OPENED"
      BY <1>4 DEF Moves, Candid
    <2>2. ~Quiet(b) /\ ~Quiet(a) /\ b.pending = {}
      BY <1>1, <2>1 DEF Quiet, Proved, InNetwork
    <2>3. Sound(IpcpUp(b, ok)) /\ Still(b, IpcpUp(b, ok))
      BY <1>1, <2>1, <2>2, IpcpUpSound DEF Sound
    <2>4. QED
      BY <1>2, <1>3, <1>4, <2>2, <2>3, IpcpFinishEffect, StillTwice, LawfulStill
  <1>5. CASE "up" \notin Calls(f)
    BY <1>1, <1>2, <1>3, <1>5, IpcpFinishEffect, LawfulStill
  <1>6. QED
    BY <1>4, <1>5

\* What may go on to the network phase
Ready(a) ==
    /\ Linked(a) /\ a.lcp.state = "OPENED"
    /\ a.pending = {} /\ Agreed(a.lcp) \subseteq a.success

LEMMA NetworkPhaseSound ==
    ASSUME NEW a, Ready(a)
    PROVE  Sound(NetworkPhase(a)) /\ Still(a, NetworkPhase(a))
  <1> DEFINE t == [a EXCEPT !.authState = "up"]
             u == IF t.authScript = "down" /\ ~t.authPid
                    THEN [t EXCEPT !.authScript = "up", !.authPid = TRUE]
                    ELSE t
             v == IF a.lcp.go # NoOpt THEN u ELSE a
             w == Phase(v, "NETWORK")
             x == IpcpQuit(w, Open(w.ipcp))
             y == [x EXCEPT !.ipcpOpen = TRUE]
  <1>1. Aside(a, t)
    BY FieldAside DEF Ready, Linked
  <1>2. t \in Session
    BY <1>1 DEF Aside
  <1>3. NetworkPhase(a) = StartNetworks(v)
    BY DEF NetworkPhase
  <1> HIDE DEF t
  <1>4. Aside(t, u)
    BY <1>2, FieldAside, AsideSelf
  <1>5. Aside(a, v)
    BY <1>1, <1>4, AsideTwice, AsideSelf DEF Ready, Linked
  <1> HIDE DEF v
  <1>6. Ready(v)
    BY <1>5, AsideKeeps DEF Ready, Aside
  <1>7. "NETWORK" \in Phases
    BY DEF Phases
  <1>8. /\ Linked(w) /\ w.phase = "NETWORK" /\ w.lcp = v.lcp /\ w.ipcp = v.ipcp
        /\ w.pending = v.pending /\ w.success = v.success
    BY <1>6, <1>7, PhaseEffect DEF Ready
  <1>9. StartNetworks(v) = [y EXCEPT !.npOpen = @ + 1]
    <2>1. w.ipcp = v.ipcp
      BY <1>8
    <2>2. QED
      BY <2>1 DEF StartNetworks
  <1> HIDE DEF w
  <1>10. Sound(w)
    BY <1>6, <1>8 DEF Sound, Ready, Proved
  <1>11. Moves(w.ipcp, Open(w.ipcp)) /\ (Open(w.ipcp).state = "OPENED" => w.ipcp.state = "OPENED")
    BY <1>8, FsmMoves DEF Linked
  <1>12. Sound(x) /\ Still(a, x)
    <2>1. Still(a, v) /\ Still(v, w)
      BY <1>5, <1>8, StillHere DEF Still
    <2>2. QED
      BY <1>10, <1>11, <2>1, IpcpQuitSound, StillTwice
  <1> HIDE DEF x
  <1>13. Aside(x, y)
    BY <1>12, FieldAside DEF Sound, Linked
  <1>14. Sound(y) /\ y \in Session
    BY <1>12, <1>13, AsideKeeps DEF Aside
  <1> HIDE DEF y
  <1>15. Aside(y, [y EXCEPT !.npOpen = @ + 1])
    <2>1. y.npOpen + 1 \in Int
      BY <1>14, SessionFields
    <2>2. QED
      BY <1>14, <2>1, FieldAside
  <1>16. QED
    BY <1>3, <1>9, <1>12, <1>13, <1>14, <1>15, AsideTwice, AsideKeeps, StillHere, StillTwice

\* An authentication that has been acknowledged is done.
LEMMA AuthSuccessSound ==
    ASSUME NEW a, Sound(a), a.lcp.state = "OPENED", NEW x \in a.success
    PROVE  Sound(AuthSuccess(a, x)) /\ Still(a, AuthSuccess(a, x))
  <1> DEFINE t == [a EXCEPT !.pending = @ \ {x}]
  <1>1. Linked(a) /\ Proved(a) /\ a.pending \subseteq Auths
    BY SessionFields DEF Sound, Linked, Quiet
  <1>2. t \in Session
    BY <1>1 DEF Linked, Session
  <1>3. /\ t.pending = a.pending \ {x} /\ t.lcp = a.lcp /\ t.ipcp = a.ipcp
        /\ t.phase = a.phase /\ t.success = a.success /\ t.ipcpUp = a.ipcpUp
    BY <1>1 DEF Linked, Session
  <1>4. AuthSuccess(a, x) = IF t.pending = {} THEN NetworkPhase(t) ELSE t
    BY DEF AuthSuccess
  <1> HIDE DEF t
  <1>5. Linked(t) /\ Proved(t)
    BY <1>1, <1>2, <1>3 DEF Linked, Proved, InNetwork
  <1>6. t.pending = {} => Ready(t)
    BY <1>5 DEF Ready, Proved
  <1>7. Still(a, t)
    BY <1>3 DEF Still
  <1>8. QED
    BY <1>4, <1>5, <1>6, <1>7, NetworkPhaseSound, StillTwice DEF Sound

-----------------------------------------------------------------------------
(* CHAP and PAP. *)

\* b is a, but for what is aside, or the link is being closed.
Ends(a, b) == Aside(a, b) \/ (Linked(b) /\ Quiet(b))

LEMMA EndsKeeps ==
    ASSUME NEW a, NEW b, Ends(a, b)
    PROVE  /\ Sound(a) => Sound(b)
           /\ Loose(a) => Loose(b)
           /\ Quiet(a) => Quiet(b)
           /\ Still(a, b)
  BY AsideKeeps, StillHere DEF Ends, Sound, Loose

LEMMA EndsTwice ==
    ASSUME NEW a, NEW b, NEW c, Ends(a, b), Ends(b, c)
    PROVE  Ends(a, c)
  <1>1. Aside(a, b) /\ Aside(b, c) => Aside(a, c)
    BY AsideTwice
  <1>2. Linked(b) /\ Quiet(b) /\ Aside(b, c) => Linked(c) /\ Quiet(c)
    BY AsideKeeps
  <1>3. QED
    BY <1>1, <1>2 DEF Ends

LEMMA CloseEnds ==
    ASSUME NEW a, NEW b, Loose(a), Aside(a, b)
    PROVE  Ends(a, LcpClose(b))
  BY AsideKeeps, LcpCloseEffect DEF Ends

LEMMA ChapFields ==
    ASSUME NEW a \in Session, NEW x \in SUBSET ChapFlags,
           "STARTED" \in x => "STARTED" \in a.chapS
    PROVE  LET b == [a EXCEPT !.chapS = x]
           IN  /\ Aside(a, b) /\ b \in Session
               /\ b.chapS = x /\ b.chapXmits = a.chapXmits /\ b.success = a.success
  <1>1. Aside(a, [a EXCEPT !.chapS = x])
    BY FieldAside
  <1>2. QED
    BY <1>1 DEF Aside, Session

LEMMA ChapTimeoutEnds ==
    ASSUME NEW a, Loose(a)
    PROVE  Ends(a, ChapTimeout(a))
  <1> DEFINE t == [a EXCEPT !.chapS = @ \ {"PENDING"}]
             c == [t EXCEPT !.chapS = (@ \ {"VALID"}) \cup {"DONE", "FAILED"}]
             n == [t EXCEPT !.chapXmits = 0]
             v == [n EXCEPT !.chapS = @ \cup {"VALID"}]
             u == IF "VALID" \in a.chapS THEN t ELSE v
             w == [u EXCEPT !.chapXmits = @ + 1]
             x == [w EXCEPT !.chapS = @ \cup {"PENDING"}]
  <1>1. a \in Session /\ a.chapS \subseteq ChapFlags /\ 0 \in Nat
    BY SessionFields DEF Loose, Linked
  <1>2. {"PENDING", "VALID", "DONE", "FAILED"} \subseteq ChapFlags /\ "chap" \in Timers
    BY DEF ChapFlags, Timers
  <1>3. ChapTimeout(a) \in {LcpClose(c), Arm(x, "chap")}
    BY DEF ChapTimeout
  <1>4. Aside(a, t) /\ t \in Session
    BY <1>1, ChapFields
  <1> HIDE DEF t
  <1>5. t.chapS \subseteq ChapFlags
    BY <1>4, SessionFields
  <1>6. Aside(t, c)
    BY <1>2, <1>4, <1>5, ChapFields
  <1>7. Aside(t, n) /\ n \in Session
    BY <1>1, <1>4, FieldAside, AsideSession
  <1> HIDE DEF n, c
  <1>8. n.chapS \subseteq ChapFlags
    BY <1>7, SessionFields
  <1>9. Aside(n, v)
    BY <1>2, <1>7, <1>8, ChapFields
  <1>10. Aside(a, u)
    BY <1>4, <1>7, <1>9, AsideTwice
  <1> HIDE DEF u
  <1>11. u \in Session /\ u.chapXmits + 1 \in Nat
    <2>1. u \in Session
      BY <1>10 DEF Aside
    <2>2. QED
      BY <2>1, SessionFields
  <1>12. Aside(u, w) /\ w \in Session
    BY <1>11, FieldAside, AsideSession
  <1> HIDE DEF w
  <1>13. w.chapS \subseteq ChapFlags
    BY <1>12, SessionFields
  <1>14. Aside(w, x) /\ x \in Session
    BY <1>2, <1>12, <1>13, ChapFields
  <1> HIDE DEF x
  <1>15. Aside(x, Arm(x, "chap"))
    BY <1>2, <1>14, TimerAside
  <1>16. Aside(a, Arm(x, "chap"))
    BY <1>10, <1>12, <1>14, <1>15, AsideTwice
  <1>17. Ends(a, LcpClose(c))
    BY <1>4, <1>6, AsideTwice, CloseEnds
  <1>18. QED
    BY <1>3, <1>16, <1>17 DEF Ends

\* The answer was sent: an authentication that did not fail was acknowledged.
LEMMA ChapJudgedSound ==
    ASSUME NEW a, Sound(a), a.lcp.state = "OPENED",
           "FAILED" \notin a.chapS => "chapPeer" \in a.success
    PROVE  Sound(ChapJudged(a)) /\ Still(a, ChapJudged(a))
  <1> DEFINE t == [a EXCEPT !.chapS = @ \ {"VALID"}]
             v == IF "DONE" \in t.chapS THEN t ELSE AuthSuccess(t, "chapPeer")
             w == [v EXCEPT !.chapS = @ \cup {"PENDING"}]
             x == IF Rechallenge THEN Arm(w, "chap") ELSE v
             y == IF "FAILED" \in t.chapS THEN LcpClose(t) ELSE x
  <1>1. a \in Session /\ a.chapS \subseteq ChapFlags
    BY SessionFields DEF Sound, Linked
  <1>2. {"PENDING", "DONE"} \subseteq ChapFlags /\ "chap" \in Timers
    BY DEF ChapFlags, Timers
  <1>3. Aside(a, t) /\ t.chapS = a.chapS \ {"VALID"} /\ t.success = a.success
    BY <1>1, ChapFields
  <1>4. ChapJudged(a) = [y EXCEPT !.chapS = @ \cup {"DONE"}]
    BY DEF ChapJudged
  <1> HIDE DEF t
  <1>5. Sound(t) /\ t.lcp.state = "OPENED"
    BY <1>3, AsideKeeps DEF Aside
  <1>6. ASSUME "FAILED" \notin t.chapS PROVE Sound(x) /\ Still(t, x)
    <2>1. "chapPeer" \in t.success
      BY <1>3, <1>6
    <2>2. Sound(v) /\ Still(t, v)
      BY <1>5, <2>1, AuthSuccessSound, StillHere
    <2> HIDE DEF v
    <2>3. v \in Session /\ v.chapS \subseteq ChapFlags
      BY <2>2, SessionFields DEF Sound, Linked
    <2>4. Aside(v, w) /\ w \in Session
      BY <1>2, <2>3, ChapFields
    <2> HIDE DEF w
    <2>5. Aside(w, Arm(w, "chap"))
      BY <1>2, <2>4, TimerAside
    <2>6. QED
      BY <2>2, <2>4, <2>5, AsideTwice, AsideKeeps, StillHere, StillTwice
  <1>7. Sound(LcpClose(t)) /\ Still(t, LcpClose(t))
    BY <1>5, SoundLoose, LcpCloseSound, StillHere
  <1>8. Sound(y) /\ Still(t, y)
    BY <1>6, <1>7
  <1> HIDE DEF y
  <1>9. y \in Session /\ y.chapS \subseteq ChapFlags
    BY <1>8, SessionFields DEF Sound, Linked
  <1>10. Aside(y, [y EXCEPT !.chapS = @ \cup {"DONE"}])
    BY <1>2, <1>9, ChapFields
  <1>11. QED
    BY <1>3, <1>4, <1>8, <1>10, AsideKeeps, StillHere, StillTwice

LEMMA ChapResponseSound ==
    ASSUME NEW a, Sound(a), a.lcp.state = "OPENED", NEW ok
    PROVE  Sound(ChapResponse(a, ok)) /\ Lawful(a, ChapResponse(a, ok))
  <1> DEFINE t == IF "PENDING" \in a.chapS THEN Cancel(a, "chap") ELSE a
             flags == (t.chapS \ {"PENDING"}) \cup (IF ok THEN {} ELSE {"FAILED"})
             u == [t EXCEPT !.chapS = flags]
             tell(v) == IF "FAILED" \in v.chapS THEN v
                        ELSE [v EXCEPT !.success = @ \cup {"chapPeer"}]
  <1>1. "chap" \in Timers /\ "FAILED" \in ChapFlags /\ "chapPeer" \in Auths
    BY DEF Timers, ChapFlags, Auths
  <1>2. a \in Session
    BY DEF Sound, Linked
  <1>3. Aside(a, t) /\ t \in Session
    BY <1>1, <1>2, TimerAside, AsideSelf DEF Aside
  <1>4. ChapResponse(a, ok) \in {a, tell(a), ChapJudged(tell(u))}
    BY DEF ChapResponse
  <1> HIDE DEF t
  <1>5. flags \in SUBSET ChapFlags /\ ("STARTED" \in flags => "STARTED" \in t.chapS)
    BY <1>1, <1>3, SessionFields
  <1> HIDE DEF flags
  <1>6. Aside(t, u) /\ u \in Session
    BY <1>3, <1>5, ChapFields
  <1> HIDE DEF u
  <1>7. ASSUME NEW v \in Session
        PROVE  /\ Credited(v, tell(v)) \/ tell(v) = v
               /\ "FAILED" \notin tell(v).chapS => "chapPeer" \in tell(v).success
    <2>1. LET x == [v EXCEPT !.success = @ \cup {"chapPeer"}]
          IN  Credited(v, x) /\ x.success = v.success \cup {"chapPeer"}
      BY <1>1, CreditedField
    <2>2. QED
      BY <2>1 DEF Credited
  <1>8. Sound(tell(a)) /\ Lawful(a, tell(a))
    BY <1>2, <1>7, CreditedKeeps, StillHere, StillLawful
  <1>9. Aside(a, u) /\ Sound(u) /\ u.lcp.state = "OPENED"
    BY <1>3, <1>6, AsideTwice, AsideKeeps DEF Aside
  <1> DEFINE w == tell(u)
  <1>10. /\ Credited(u, w) \/ w = u
         /\ "FAILED" \notin w.chapS => "chapPeer" \in w.success
    BY <1>6, <1>7
  <1> HIDE DEF w
  <1>11. Sound(w) /\ w.lcp.state = "OPENED"
    BY <1>9, <1>10, CreditedKeeps DEF Credited
  <1>12. Sound(ChapJudged(w)) /\ Still(w, ChapJudged(w))
    BY <1>10, <1>11, ChapJudgedSound
  <1>13. Lawful(a, ChapJudged(w))
    BY <1>9, <1>10, <1>12, CreditedKeeps, StillLawful, AsideLawful
  <1>14. QED
    BY <1>4, <1>8, <1>12, <1>13, StillHere, StillLawful DEF w

LEMMA ChapStatusSound ==
    ASSUME NEW a, Sound(a), a.lcp.state = "OPENED", NEW ok
    PROVE  Sound(ChapStatus(a, ok)) /\ Lawful(a, ChapStatus(a, ok))
  <1> DEFINE t == [a EXCEPT !.chapC = @ \cup {"DONE"}]
             good == [t EXCEPT !.success = @ \cup {"chapWith"}]
             bad == [t EXCEPT !.chapC = @ \cup {"FAILED"}]
  <1>1. {"DONE", "FAILED"} \subseteq ChapFlags /\ "chapWith" \in Auths
    BY DEF ChapFlags, Auths
  <1>2. a \in Session /\ a.chapC \subseteq ChapFlags
    BY SessionFields DEF Sound, Linked
  <1>3. ChapStatus(a, ok) \in {a, AuthSuccess(good, "chapWith"), LcpClose(bad)}
    BY DEF ChapStatus
  <1>4. Aside(a, t) /\ t \in Session
    BY <1>1, <1>2, FieldAside, AsideSession
  <1> HIDE DEF t
  <1>5. t.chapC \cup {"FAILED"} \in SUBSET ChapFlags
    BY <1>1, <1>4, SessionFields
  <1>6. Aside(t, bad)
    BY <1>4, <1>5, FieldAside
  <1>7. Credited(t, good) /\ "chapWith" \in good.success
    BY <1>1, <1>4, CreditedField
  <1> HIDE DEF good, bad
  <1>8. Sound(t) /\ t.lcp.state = "OPENED" /\ Sound(bad)
    BY <1>4, <1>6, AsideTwice, AsideKeeps DEF Aside
  <1>9. Sound(good) /\ good.lcp.state = "OPENED"
    BY <1>7, <1>8, CreditedKeeps DEF Credited
  <1>10. LET b == AuthSuccess(good, "chapWith") IN Sound(b) /\ Lawful(a, b)
    BY <1>4, <1>7, <1>8, <1>9, AuthSuccessSound, CreditedKeeps, AsideLawful
  <1>11. Sound(LcpClose(bad)) /\ Lawful(a, LcpClose(bad))
    BY <1>8, SoundLoose, LcpCloseSound, QuietLawful
  <1>12. QED
    BY <1>3, <1>10, <1>11, StillHere, StillLawful

LEMMA ChapProtrejEnds ==
    ASSUME NEW a, Sound(a)
    PROVE  Ends(a, ChapProtrej(a))
  <1> DEFINE c == Cancel(a, "chap")
             t == IF "PENDING" \in a.chapS THEN [c EXCEPT !.chapS = @ \ {"PENDING"}] ELSE a
             u == IF "STARTED" \in t.chapS THEN LcpClose([t EXCEPT !.chapS = {}]) ELSE t
             v == [u EXCEPT !.chapC = @ \ {"STARTED"}]
  <1>1. "chap" \in Timers /\ a \in Session
    BY DEF Timers, Sound, Linked
  <1>2. Aside(a, c) /\ c \in Session
    BY <1>1, TimerAside DEF Aside
  <1>3. ChapProtrej(a) \in {u, LcpClose(v)}
    BY DEF ChapProtrej
  <1> HIDE DEF c
  <1>4. c.chapS \ {"PENDING"} \in SUBSET ChapFlags
    BY <1>2, SessionFields
  <1>5. Aside(c, [c EXCEPT !.chapS = @ \ {"PENDING"}])
    BY <1>2, <1>4, FieldAside
  <1>6. Aside(a, t)
    BY <1>1, <1>2, <1>5, AsideTwice, AsideSelf
  <1>7. t \in Session /\ Loose(t)
    BY <1>6, SoundLoose, AsideKeeps DEF Aside
  <1> HIDE DEF t
  <1>8. Aside(t, [t EXCEPT !.chapS = {}]) /\ Aside(t, t)
    BY <1>7, FieldAside, AsideSelf
  <1>9. Ends(t, u)
    BY <1>7, <1>8, CloseEnds DEF Ends
  <1>10. Loose(u) /\ u \in Session
    BY <1>7, <1>9, EndsKeeps DEF Loose, Linked
  <1> HIDE DEF u
  <1>11. u.chapC \ {"STARTED"} \in SUBSET ChapFlags
    BY <1>10, SessionFields
  <1>12. Aside(u, v)
    BY <1>10, <1>11, FieldAside
  <1> HIDE DEF v
  <1>13. Ends(u, LcpClose(v)) /\ Ends(a, t)
    BY <1>6, <1>10, <1>12, CloseEnds DEF Ends
  <1>14. QED
    BY <1>3, <1>9, <1>13, EndsTwice

LEMMA PapEnds ==
    ASSUME NEW a, Sound(a)
    PROVE  /\ Ends(a, PapTimeout(a))
           /\ Ends(a, PapReqTimeout(a))
           /\ Ends(a, PapNak(a))
           /\ Ends(a, PapProtrej(a))
  <1>1. a \in Session /\ Loose(a) /\ "BADAUTH" \in PapStates
    BY SoundLoose DEF Sound, Linked, PapStates
  <1>2. Aside(a, a) /\ Ends(a, a)
    BY <1>1, AsideSelf DEF Ends
  <1>3. Aside(a, [a EXCEPT !.papC = "BADAUTH"])
    BY <1>1, FieldAside
  <1>4. Ends(a, LcpClose([a EXCEPT !.papC = "BADAUTH"]))
    BY <1>1, <1>3, CloseEnds
  <1>5. Ends(a, PapTimeout(a))
    <2>1. Ends(a, PapSend(a))
      BY <1>1, PapSendAside DEF Ends
    <2>2. QED
      BY <1>2, <1>4, <2>1 DEF PapTimeout
  <1>6. Ends(a, PapReqTimeout(a))
    <2> DEFINE c == LcpClose(a)
    <2>1. Linked(c) /\ Quiet(c)
      BY <1>1, LcpCloseEffect
    <2>2. PapReqTimeout(a) \in {a, [c EXCEPT !.papS = "BADAUTH"]}
      BY DEF PapReqTimeout
    <2> HIDE DEF c
    <2>3. Aside(c, [c EXCEPT !.papS = "BADAUTH"])
      BY <1>1, <2>1, FieldAside DEF Linked
    <2>4. QED
      BY <1>2, <2>1, <2>2, <2>3, AsideKeeps DEF Ends
  <1>7. Ends(a, PapNak(a))
    BY <1>2, <1>4 DEF PapNak
  <1>8. Ends(a, PapProtrej(a))
    <2> DEFINE c == IF a.papC = "AUTHREQ" THEN LcpClose(a) ELSE a
               d == IF c.papS = "LISTEN" THEN LcpClose(c) ELSE c
    <2>1. Ends(a, c)
      BY <1>1, <1>2, CloseEnds
    <2>2. PapProtrej(a) = PapLowerdown(d)
      BY DEF PapProtrej
    <2> HIDE DEF c
    <2>3. Loose(c) /\ c \in Session
      BY <1>1, <2>1, EndsKeeps DEF Loose, Linked
    <2>4. Ends(c, d)
      BY <2>3, CloseEnds, AsideSelf DEF Ends
    <2> HIDE DEF d
    <2>5. d \in Session
      BY <2>3, <2>4, EndsKeeps DEF Loose, Linked
    <2>6. Ends(d, PapLowerdown(d))
      BY <2>5, PapLowerdownAside DEF Ends
    <2>7. QED
      BY <2>1, <2>2, <2>4, <2>6, EndsTwice
  <1>9. QED
    BY <1>5, <1>6, <1>7, <1>8

LEMMA PapRequestSound ==
    ASSUME NEW a, Sound(a), a.lcp.state = "OPENED", NEW ok
    PROVE  Sound(PapRequest(a, ok)) /\ Lawful(a, PapRequest(a, ok))
  <1> DEFINE t == [a EXCEPT !.papS = "OPEN"]
             good == [t EXCEPT !.success = @ \cup {"papPeer"}]
             bad == [a EXCEPT !.papS = "BADAUTH"]
             c == IF ok THEN AuthSuccess(good, "papPeer") ELSE LcpClose(bad)
  <1>1. /\ a \in Session /\ {"OPEN", "BADAUTH"} \subseteq PapStates
        /\ "papPeer" \in Auths /\ "papReq" \in Timers
    BY DEF Sound, Linked, PapStates, Auths, Timers
  <1>2. PapRequest(a, ok) \in {a, Cancel(c, "papReq")}
    BY DEF PapRequest
  <1>3. Aside(a, t) /\ Aside(a, bad)
    BY <1>1, FieldAside
  <1>4. t \in Session
    BY <1>3, AsideSession
  <1> HIDE DEF t, bad
  <1>5. Credited(t, good) /\ "papPeer" \in good.success
    BY <1>1, <1>4, CreditedField
  <1> HIDE DEF good
  <1>6. Sound(t) /\ t.lcp.state = "OPENED" /\ Sound(bad)
    BY <1>3, AsideKeeps DEF Aside
  <1>7. Sound(good) /\ good.lcp.state = "OPENED"
    BY <1>5, <1>6, CreditedKeeps DEF Credited
  <1>8. LET b == AuthSuccess(good, "papPeer") IN Sound(b) /\ Lawful(a, b)
    BY <1>3, <1>5, <1>6, <1>7, AuthSuccessSound, CreditedKeeps, AsideLawful
  <1>9. Sound(LcpClose(bad)) /\ Lawful(a, LcpClose(bad))
    BY <1>6, SoundLoose, LcpCloseSound, QuietLawful
  <1>10. Sound(c) /\ Lawful(a, c)
    BY <1>8, <1>9
  <1> HIDE DEF c
  <1>11. Aside(c, Cancel(c, "papReq"))
    BY <1>1, <1>10, TimerAside DEF Sound, Linked
  <1>12. Sound(Cancel(c, "papReq")) /\ Lawful(a, Cancel(c, "papReq"))
    BY <1>10, <1>11, AsideKeeps, StillHere, LawfulStill
  <1>13. QED
    BY <1>2, <1>12, StillHere, StillLawful

LEMMA PapAckSound ==
    ASSUME NEW a, Sound(a), a.lcp.state = "OPENED"
    PROVE  Sound(PapAck(a)) /\ Lawful(a, PapAck(a))
  <1> DEFINE t == [a EXCEPT !.papC = "OPEN"]
             good == [t EXCEPT !.success = @ \cup {"papWith"}]
  <1>1. a \in Session /\ "OPEN" \in PapStates /\ "papWith" \in Auths
    BY DEF Sound, Linked, PapStates, Auths
  <1>2. PapAck(a) \in {a, AuthSuccess(good, "papWith")}
    BY DEF PapAck
  <1>3. Aside(a, t)
    BY <1>1, FieldAside
  <1>4. t \in Session
    BY <1>3, AsideSession
  <1> HIDE DEF t
  <1>5. Credited(t, good) /\ "papWith" \in good.success
    BY <1>1, <1>4, CreditedField
  <1> HIDE DEF good
  <1>6. Sound(t) /\ t.lcp.state = "OPENED"
    BY <1>3, AsideKeeps DEF Aside
  <1>7. Sound(good) /\ good.lcp.state = "OPENED"
    BY <1>5, <1>6, CreditedKeeps DEF Credited
  <1>8. LET b == AuthSuccess(good, "papWith") IN Sound(b) /\ Lawful(a, b)
    BY <1>3, <1>5, <1>6, <1>7, AuthSuccessSound, CreditedKeeps, AsideLawful
  <1>9. QED
    BY <1>2, <1>8, StillHere, StillLawful

-----------------------------------------------------------------------------
(* LCP comes up. *)

LEMMA EchoCheckEnds ==
    ASSUME NEW a, Loose(a)
    PROVE  Ends(a, EchoCheck(a)) /\ (a.echos = 0 => Aside(a, EchoCheck(a)))
  <1> DEFINE c == IF a.lcp.state = "OPENED" THEN LcpClose(a) ELSE a
             d == IF a.echos < EchoFails THEN a ELSE [c EXCEPT !.echos = 0]
             e == IF d.lcp.state = "OPENED" THEN [d EXCEPT !.echos = @ + 1] ELSE d
             f == [e EXCEPT !.echo = TRUE]
             g == IF e.lcp.state = "OPENED" THEN Arm(f, "echo") ELSE e
  <1>1. a \in Session /\ 0 \in Nat /\ "echo" \in Timers
    BY DEF Loose, Linked, Timers
  <1>2. EchoCheck(a) = g
    BY DEF EchoCheck, EchoSend
  <1>3. Ends(a, c)
    BY <1>1, AsideSelf, CloseEnds DEF Ends
  <1> HIDE DEF c
  <1>4. c \in Session
    BY <1>3, AsideSession DEF Ends, Linked
  <1>5. Ends(c, [c EXCEPT !.echos = 0])
    BY <1>1, <1>4, FieldAside DEF Ends
  <1>6. Ends(a, d) /\ (a.echos = 0 => d = a)
    <2>1. Ends(a, a) /\ Ends(a, [c EXCEPT !.echos = 0])
      BY <1>1, <1>3, <1>5, EndsTwice, AsideSelf DEF Ends
    <2>2. a.echos = 0 => a.echos < EchoFails
      BY SessionAssumption
    <2>3. QED
      BY <2>1, <2>2
  <1> HIDE DEF d
  <1>7. d \in Session
    BY <1>6, AsideSession DEF Ends, Linked
  <1>8. d.echos + 1 \in Nat
    BY <1>7, SessionFields
  <1>9. Aside(d, e)
    BY <1>7, <1>8, FieldAside, AsideSelf
  <1>10. e \in Session
    BY <1>9, AsideSession
  <1> HIDE DEF e
  <1>11. Aside(e, f)
    BY <1>10, FieldAside
  <1>12. f \in Session
    BY <1>11, AsideSession
  <1> HIDE DEF f
  <1>13. Aside(f, Arm(f, "echo"))
    BY <1>1, <1>12, TimerAside
  <1>14. Aside(e, g)
    BY <1>10, <1>11, <1>13, AsideTwice, AsideSelf
  <1> HIDE DEF g
  <1>15. Aside(d, g)
    BY <1>9, <1>14, AsideTwice
  <1>16. Ends(d, g)
    BY <1>15 DEF Ends
  <1>17. QED
    BY <1>2, <1>6, <1>15, <1>16, EndsTwice

\* LCP has just come up: nothing above it has started yet.
Fresh(a) ==
    /\ Linked(a) /\ a.lcp.state = "OPENED" /\ ~InNetwork(a)
    /\ "STARTED" \notin a.chapS

LEMMA FreshAside ==
    ASSUME NEW a, NEW b, Fresh(a), Aside(a, b)
    PROVE  Fresh(b) /\ b.lcp = a.lcp /\ b \in Session
  BY AsideKeeps DEF Fresh, Aside, InNetwork

LEMMA UpperLayersUpFresh ==
    ASSUME NEW a, Fresh(a)
    PROVE  LET b == UpperLayersUp(a) IN Fresh(b) /\ b.lcp = a.lcp
  <1> DEFINE p == PapLowerup(a)
             t == [p EXCEPT !.chapC = @ \cup {"LOWERUP"}]
             c == [t EXCEPT !.chapS = @ \cup {"LOWERUP"}]
             f == Lowerup(c.ipcp)
             d == IpcpDrop(c, f)
  <1>1. Fresh(p) /\ p.lcp = a.lcp /\ p \in Session
    BY PapLowerupAside, FreshAside DEF Fresh, Linked
  <1>2. UpperLayersUp(a) = IpcpLowerup(ChapLowerup(p))
    BY DEF UpperLayersUp
  <1> HIDE DEF p
  <1>3. "LOWERUP" \in ChapFlags
    BY DEF ChapFlags
  <1>4. p.chapC \cup {"LOWERUP"} \in SUBSET ChapFlags
    BY <1>1, <1>3, SessionFields
  <1>5. Aside(p, t)
    BY <1>1, <1>4, FieldAside
  <1>6. ChapLowerup(p) = c
    BY <1>1 DEF ChapLowerup, Fresh
  <1>7. Fresh(t) /\ t.lcp = a.lcp /\ t \in Session
    BY <1>1, <1>5, FreshAside
  <1> HIDE DEF t
  <1>8. t.chapS \cup {"LOWERUP"} \in SUBSET ChapFlags
    BY <1>3, <1>7, SessionFields
  <1>9. Aside(t, c)
    BY <1>7, <1>8, FieldAside
  <1>10. Fresh(c) /\ c.lcp = a.lcp
    BY <1>7, <1>9, FreshAside
  <1>11. UpperLayersUp(a) = d
    BY <1>2, <1>6 DEF IpcpLowerup
  <1> HIDE DEF c
  <1>12. Moves(c.ipcp, f) /\ (f.state = "OPENED" => c.ipcp.state = "OPENED")
    BY <1>10, FsmMoves DEF Fresh, Linked
  <1> HIDE DEF f
  <1>13. Linked(d) /\ Lowered(c, d) /\ d.ipcp.state = f.state
    BY <1>10, <1>12, IpcpDropEffect DEF Fresh
  <1> HIDE DEF d
  <1>14. QED
    BY <1>10, <1>11, <1>12, <1>13 DEF Fresh, Lowered, InNetwork, Linked

LEMMA LinkEstablishedSound ==
    ASSUME NEW a, Fresh(a)
    PROVE  Sound(LinkEstablished(a)) /\ LinkEstablished(a).ipcp.state # "OPENED"
  <1> DEFINE u == UpperLayersUp(a)
             p == Phase(u, "AUTHENTICATE")
             t == [p EXCEPT !.chapS = @ \cup {"STARTED"}]
             q == AuthPeer(p)
             r == AuthWithPeer(q)
             x == [r EXCEPT !.pending = Agreed(a.lcp)]
             Opening(b) == /\ Linked(b) /\ b.lcp = a.lcp
                           /\ b.phase = "AUTHENTICATE" /\ b.ipcp.state # "OPENED"
             Closing(b) == Linked(b) /\ Quiet(b) /\ a.lcp.go = chap
  <1>1. Fresh(u) /\ u.lcp = a.lcp
    BY UpperLayersUpFresh
  <1>2. LinkEstablished(a) =
          IF Wanted[lcp] # NoOpt /\ a.lcp.go = NoOpt THEN LcpClose(u)
          ELSE IF x.pending = {} THEN NetworkPhase(x) ELSE x
    BY DEF LinkEstablished
  <1> HIDE DEF u
  <1>3. Sound(LcpClose(u)) /\ LcpClose(u).ipcp.state # "OPENED"
    BY <1>1, LcpCloseSound DEF Fresh, Loose, Quiet, InNetwork
  <1>4. Opening(p) /\ "STARTED" \notin p.chapS /\ p \in Session
    <2>1. "AUTHENTICATE" \in Phases
      BY DEF Phases
    <2>2. QED
      BY <1>1, <2>1, PhaseEffect DEF Fresh, Linked, InNetwork
  <1> HIDE DEF p
  <1>5. \A b, c : Opening(b) /\ Aside(b, c) => Opening(c)
    BY AsideKeeps DEF Aside
  <1>6. \A b, c : Opening(b) /\ Ends(b, c) => Opening(c) \/ (Linked(c) /\ Quiet(c))
    BY <1>5 DEF Ends
  <1>7. Opening(t)
    <2>1. p.chapS \cup {"STARTED"} \in SUBSET ChapFlags
      BY <1>4, SessionFields DEF ChapFlags
    <2>2. t \in Session
      BY <1>4, <2>1 DEF Session
    <2>3. /\ t.lcp = p.lcp /\ t.ipcp = p.ipcp /\ t.phase = p.phase
          /\ t.ipcpUp = p.ipcpUp
      BY <1>4 DEF Session
    <2>4. QED
      BY <1>4, <2>2, <2>3 DEF Linked
  <1>8. Loose(t)
    BY <1>1, <1>7 DEF Loose, Fresh
  <1>9. Opening(ChapTimeout(t)) \/ (Linked(ChapTimeout(t)) /\ Quiet(ChapTimeout(t)))
    BY <1>6, <1>7, <1>8, ChapTimeoutEnds
  <1>10. ChapAuthPeer(p) \in {ChapTimeout(t), t}
    BY <1>4 DEF ChapAuthPeer
  <1>11. Opening(PapAuthPeer(p))
    BY <1>4, <1>5, AuthStartAside
  <1> HIDE DEF t
  <1>12. Opening(q) \/ Closing(q)
    <2>1. p.lcp.go = a.lcp.go
      BY <1>4
    <2>2. CASE a.lcp.go = chap
      <3>1. q \in {ChapTimeout(t), t}
        BY <1>10, <2>1, <2>2, SessionAssumption DEF AuthPeer
      <3>2. QED
        BY <1>7, <1>9, <2>2, <3>1
    <2>3. CASE a.lcp.go # chap
      <3>1. q \in {PapAuthPeer(p), p}
        BY <2>1, <2>3 DEF AuthPeer
      <3>2. QED
        BY <1>4, <1>11, <3>1
    <2>4. QED
      BY <2>2, <2>3
  <1> HIDE DEF q
  <1>13. q \in Session
    BY <1>12 DEF Linked
  <1>14. Aside(q, r)
    <2>1. r \in {q, PapAuthWithPeer(q), ChapAuthWithPeer(q)}
      BY DEF AuthWithPeer
    <2>2. QED
      BY <1>13, <2>1, AuthStartAside, AsideSelf
  <1> HIDE DEF r
  <1>15. Opening(r) \/ Closing(r)
    BY <1>5, <1>12, <1>14, AsideKeeps
  <1>16. Agreed(a.lcp) \subseteq Auths /\ (a.lcp.go = chap => "chapPeer" \in Agreed(a.lcp))
    BY DEF Agreed, Auths
  <1>17. r \in Session
    BY <1>15 DEF Linked
  <1>18. x \in Session
    BY <1>16, <1>17 DEF Session
  <1>19. /\ x.pending = Agreed(a.lcp) /\ x.lcp = r.lcp /\ x.ipcp = r.ipcp
         /\ x.phase = r.phase /\ x.chapS = r.chapS /\ x.ipcpUp = r.ipcpUp
    BY <1>17 DEF Session
  <1> HIDE DEF x
  <1>20. Linked(x)
    BY <1>15, <1>18, <1>19 DEF Linked
  <1>21. CASE Opening(r)
    <2>1. Proved(x)
      BY <1>1, <1>19, <1>21 DEF Proved, InNetwork, Fresh
    <2>2. x.pending = {} => Ready(x)
      BY <1>1, <1>19, <1>20, <1>21 DEF Ready, Fresh
    <2>3. x.pending = {} =>
            Sound(NetworkPhase(x)) /\ NetworkPhase(x).ipcp.state # "OPENED"
      BY <1>19, <1>21, <2>2, NetworkPhaseSound DEF Still, Sound, Quiet, Proved, InNetwork
    <2>4. QED
      BY <1>2, <1>3, <1>19, <1>20, <1>21, <2>1, <2>3 DEF Sound
  <1>22. CASE Closing(r)
    <2>1. Quiet(x)
      BY <1>19, <1>22 DEF Quiet, InNetwork
    <2>2. x.pending # {}
      BY <1>16, <1>19, <1>22
    <2>3. QED
      BY <1>2, <1>3, <1>20, <2>1, <2>2 DEF Sound, Quiet, InNetwork
  <1>23. QED
    BY <1>15, <1>21, <1>22

LEMMA LcpUpSound ==
    ASSUME NEW a, Fresh(a)
    PROVE  Sound(LcpUp(a)) /\ LcpUp(a).ipcp.state # "OPENED"
  <1> DEFINE t == [a EXCEPT !.echos = 0]
             u == [t EXCEPT !.echo = FALSE]
             v == EchoCheck(u)
  <1>1. LcpUp(a) = LinkEstablished(v)
    BY DEF LcpUp
  <1>2. Aside(a, t)
    BY FieldAside DEF Fresh, Linked
  <1>3. t \in Session /\ t.echos = 0
    <2>1. a \in Session
      BY DEF Fresh, Linked
    <2>2. QED
      BY <1>2, <2>1, AsideSession DEF Session
  <1> HIDE DEF t
  <1>4. Aside(t, u)
    BY <1>3, FieldAside
  <1>5. u.echos = 0
    BY <1>3 DEF Session
  <1> HIDE DEF u
  <1>6. Fresh(u)
    BY <1>2, <1>4, AsideTwice, FreshAside
  <1>7. Aside(u, v)
    BY <1>5, <1>6, EchoCheckEnds DEF Fresh, Loose
  <1> HIDE DEF v
  <1>8. Fresh(v)
    BY <1>6, <1>7, FreshAside
  <1>9. QED
    BY <1>1, <1>8, LinkEstablishedSound

\* Any function of LCP; one that does not open it leaves a quiet session quiet.
LEMMA LcpRunSound ==
    ASSUME NEW a, Sound(a), NEW f, Moves(a.lcp, f)
    PROVE  /\ Sound(LcpRun(a, f))
           /\ Quiet(a) /\ f.state # "OPENED" => Quiet(LcpRun(a, f))
           /\ Lawful(a, LcpRun(a, f))
  <1> DEFINE t == LcpFall(a, f)
             u == IF "up" \in Calls(f) THEN LcpUp(t) ELSE t
  <1>1. Linked(a)
    BY DEF Sound
  <1>2. /\ Linked(t) /\ t.lcp = Silent(f) /\ t.lcp.state = f.state
        /\ IF a.lcp.state = "OPENED" /\ f.state # "OPENED"
             THEN Quiet(t)
             ELSE /\ t.phase = a.phase /\ t.ipcp = a.ipcp
                  /\ t.pending = a.pending /\ t.success = a.success
                  /\ t.chapS = a.chapS
    BY <1>1, LcpFallEffect
  <1>3. LcpRun(a, f) = LcpFinish(u, f)
    BY MadeCalls DEF LcpRun
  <1> HIDE DEF t
  <1>4. CASE "up" \in Calls(f)
    <2>1. a.lcp.state # "OPENED" /\ f.state = "OPENED"
      BY <1>4 DEF Moves, Candid
    <2>2. Fresh(t)
      BY <1>2, <2>1 DEF Fresh, Sound, Quiet, Proved, InNetwork
    <2>3. Sound(u) /\ u.ipcp.state # "OPENED"
      BY <1>4, <2>2, LcpUpSound
    <2> HIDE DEF u
    <2>4. Lawful(a, u)
      BY <2>1, <2>3 DEF Lawful
    <2>5. QED
      BY <1>3, <2>1, <2>3, <2>4, LcpFinishEffect, LawfulStill
  <1>5. CASE "up" \notin Calls(f)
    <2>1. f.state = "OPENED" => a.lcp.state = "OPENED" /\ f.go = a.lcp.go /\ f.ho = a.lcp.ho
      BY <1>5 DEF Moves, Candid
    <2>2. Silent(f).go = f.go /\ Silent(f).ho = f.ho
      BY SilentSteady DEF Moves
    <2>3. f.state = "OPENED" => Agreed(t.lcp) = Agreed(a.lcp)
      BY <1>2, <2>1, <2>2 DEF Agreed
    <2>4. f.state # "OPENED" => Quiet(t)
      BY <1>2 DEF Sound, Quiet, Proved, InNetwork
    <2>5. f.state = "OPENED" => Proved(t)
      BY <1>2, <2>1, <2>3 DEF Sound, Quiet, Proved, InNetwork
    <2>6. Sound(t)
      BY <1>2, <2>4, <2>5 DEF Sound
    <2>7. Lawful(a, t)
      BY <1>2, <2>1, <2>2 DEF Lawful
    <2>8. QED
      BY <1>3, <1>5, <2>4, <2>6, <2>7, LcpFinishEffect, LawfulStill
  <1>6. QED
    BY <1>4, <1>5

\* A link that is open stays as it is, and one that is not does not open.
Alike(a, b) ==
    IF a.lcp.state = "OPENED"
      THEN /\ b.lcp.state = "OPENED" /\ b.lcp.go = a.lcp.go /\ b.lcp.ho = a.lcp.ho
           /\ b.success = a.success /\ b.ipcp.state = a.ipcp.state
      ELSE b.lcp.state # "OPENED"

LEMMA AlikeLawful ==
    ASSUME NEW a, NEW b, Alike(a, b)
    PROVE  /\ Lawful(a, b)
           /\ \A c : Lawful(b, c) => Lawful(a, c)
  BY DEF Alike, Lawful

LEMMA AsideAlike ==
    ASSUME NEW a, NEW b, NEW c, Aside(a, b)
    PROVE  /\ Alike(a, b)
           /\ Alike(b, c) => Alike(a, c)
  BY DEF Aside, Alike

\* fsm_lowerup of an fsm that is up does nothing.
LEMMA LowerupAlike ==
    ASSUME NEW a, Sound(a)
    PROVE  Alike(a, LcpRun(a, Lowerup(a.lcp)))
  <1> DEFINE f == Lowerup(a.lcp)
             t == LcpFall(a, f)
  <1>1. /\ Linked(a) /\ Steady(a.lcp) /\ Moves(a.lcp, f)
        /\ f.state = "OPENED" => a.lcp.state = "OPENED"
    BY FsmMoves DEF Sound, Linked
  <1>2. CASE a.lcp.state # "OPENED"
    <2>1. Quiet(a) /\ f.state # "OPENED"
      BY <1>1, <1>2 DEF Sound, Proved
    <2>2. Quiet(LcpRun(a, f))
      BY <1>1, <2>1, LcpRunSound
    <2>3. QED
      BY <1>2, <2>2 DEF Alike, Quiet
  <1>3. CASE a.lcp.state = "OPENED"
    <2>1. f = a.lcp
      BY <1>3 DEF Lowerup
    <2>2. f.calls = <<>> /\ f \in Fsm
      BY <1>1, <2>1 DEF Steady
    <2>3. Calls(f) = {}
      BY <2>2, NoCalls
    <2>4. LcpRun(a, f) = t
      BY <2>3, MadeCalls DEF LcpRun, LcpFinish
    <2>5. /\ t.lcp = Silent(f) /\ t.lcp.state = f.state
          /\ t.ipcp = a.ipcp /\ t.success = a.success
      BY <1>1, <1>3, <2>1, LcpFallEffect
    <2>6. Silent(f).go = f.go /\ Silent(f).ho = f.ho
      BY <1>1, SilentSteady DEF Moves
    <2> HIDE DEF f, t
    <2>7. QED
      BY <1>3, <2>1, <2>4, <2>5, <2>6 DEF Alike, f
  <1>4. QED
    BY <1>2, <1>3

LEMMA LcpLowerupSound ==
    ASSUME NEW a, Sound(a)
    PROVE  /\ Sound(LcpDelayedUp(a)) /\ (Quiet(a) => Quiet(LcpDelayedUp(a)))
           /\ Sound(LcpLowerup(a)) /\ (Quiet(a) => Quiet(LcpLowerup(a)))
           /\ Alike(a, LcpDelayedUp(a)) /\ Alike(a, LcpLowerup(a))
  <1>1. Linked(a) /\ a \in Session
    BY DEF Sound, Linked
  <1>2. ASSUME NEW b, Sound(b)
        PROVE  LET c == LcpRun(b, Lowerup(b.lcp))
               IN  Sound(c) /\ (Quiet(b) => Quiet(c)) /\ Alike(b, c)
    <2>1. Moves(b.lcp, Lowerup(b.lcp)) /\ (Lowerup(b.lcp).state = "OPENED" => b.lcp.state = "OPENED")
      BY <1>2, FsmMoves DEF Sound, Linked
    <2>2. QED
      BY <1>2, <2>1, LcpRunSound, LowerupAlike DEF Quiet
  <1>3. LET c == LcpDelayedUp(a)
        IN  Sound(c) /\ (Quiet(a) => Quiet(c)) /\ Alike(a, c)
    <2> DEFINE b == [a EXCEPT !.delayed = FALSE]
    <2>1. Aside(a, b)
      BY <1>1, FieldAside
    <2>2. Sound(b) /\ (Quiet(a) => Quiet(b)) /\ b.lcp = a.lcp
      BY <2>1, AsideKeeps DEF Aside
    <2>3. LcpDelayedUp(a) \in {a, LcpRun(b, Lowerup(b.lcp))}
      BY <2>2 DEF LcpDelayedUp
    <2> HIDE DEF b
    <2>4. Alike(a, a)
      BY <1>1, AsideSelf, AsideAlike
    <2>5. QED
      BY <1>2, <2>1, <2>2, <2>3, <2>4, AsideAlike
  <1>4. LET c == LcpLowerup(a)
        IN  Sound(c) /\ (Quiet(a) => Quiet(c)) /\ Alike(a, c)
    <2> DEFINE b == [a EXCEPT !.delayed = TRUE]
    <2>1. Aside(a, b)
      BY <1>1, FieldAside
    <2>2. b \in Session /\ "delayed" \in Timers
      BY <2>1, AsideSession DEF Timers
    <2>3. LcpLowerup(a) \in {Arm(b, "delayed"), LcpRun(a, Lowerup(a.lcp))}
      BY DEF LcpLowerup
    <2> HIDE DEF b
    <2>4. Aside(b, Arm(b, "delayed"))
      BY <2>2, TimerAside
    <2>5. Aside(a, Arm(b, "delayed"))
      BY <2>1, <2>4, AsideTwice
    <2>6. QED
      BY <1>2, <2>3, <2>5, AsideKeeps, AsideAlike
  <1>5. QED
    BY <1>3, <1>4

-----------------------------------------------------------------------------
(* Frames. *)

LEMMA RProtRejSound ==
    ASSUME NEW a, Sound(a), NEW proto
    PROVE  Sound(RProtRej(a, proto)) /\ Lawful(a, RProtRej(a, proto))
  <1>1. \A b \in {PapProtrej(a), ChapProtrej(a)} : Sound(b) /\ Lawful(a, b)
    BY PapEnds, ChapProtrejEnds, EndsKeeps, StillLawful
  <1>2. Sound(IpcpLowerdown(a)) /\ Lawful(a, IpcpLowerdown(a))
    <2>1. Moves(a.ipcp, Lowerdown(a.ipcp)) /\ Lowerdown(a.ipcp).state # "OPENED"
      BY FsmMoves DEF Sound, Linked
    <2> DEFINE b == IpcpDrop(a, Lowerdown(a.ipcp))
    <2>2. /\ Sound(b) /\ b.lcp = a.lcp /\ b.success = a.success
          /\ b.ipcp.state # "OPENED"
      BY <2>1, DropSound
    <2>3. IpcpLowerdown(a) = b
      BY DEF IpcpLowerdown
    <2> HIDE DEF b
    <2>4. QED
      BY <2>2, <2>3, StillLawful DEF Still
  <1>3. LET b == LcpRun(a, ProtReject(a.lcp)) IN Sound(b) /\ Lawful(a, b)
    BY FsmMoves, LcpRunSound DEF Sound, Linked
  <1>4. QED
    BY <1>1, <1>2, <1>3 DEF RProtRej

LEMMA LcpInputSound ==
    ASSUME NEW a, Sound(a), NEW e \in PeerEvents, e.proto = "lcp"
    PROVE  Sound(LcpInput(a, e)) /\ Lawful(a, LcpInput(a, e))
  <1> DEFINE b == LcpDelayedUp(a)
             m == [code |-> e.code, id |-> 0, val |-> e.val]
  <1>1. Sound(b) /\ (\A c : Lawful(b, c) => Lawful(a, c))
    BY LcpLowerupSound, AlikeLawful
  <1>2. LcpInput(a, e) = LcpFrame(b, e)
    BY DEF LcpInput
  <1> HIDE DEF b
  <1> SUFFICES Sound(LcpFrame(b, e)) /\ Lawful(b, LcpFrame(b, e))
    BY <1>1, <1>2
  <1>3. b \in Session /\ Lawful(b, b)
    BY <1>1, StillHere, StillLawful DEF Sound, Linked
  <1>4. CASE e.code = "EchoRep"
    <2>1. Aside(b, [b EXCEPT !.echos = 0])
      BY <1>3, FieldAside
    <2>2. LcpFrame(b, e) \in {b, [b EXCEPT !.echos = 0]}
      BY <1>4 DEF LcpFrame
    <2>3. QED
      BY <1>1, <1>3, <2>1, <2>2, AsideKeeps, StillHere, StillLawful
  <1>5. CASE e.code = "ProtRej"
    BY <1>1, <1>3, <1>5, RProtRejSound DEF LcpFrame
  <1>6. CASE e.code \notin {"EchoRep", "ProtRej"}
    <2>1. m \in Frame
      BY <1>6, EventsAssumption, BoundsAssumption DEF Frame, Ids
    <2>2. LcpFrame(b, e) = LcpRun(b, Input(b.lcp, m))
      BY <1>6 DEF LcpFrame
    <2> HIDE DEF m
    <2>3. Moves(b.lcp, Input(b.lcp, m))
      BY <1>1, <2>1, FsmMoves DEF Sound, Linked
    <2>4. QED
      BY <1>1, <2>2, <2>3, LcpRunSound
  <1>7. QED
    BY <1>4, <1>5, <1>6

LEMMA DeliverSound ==
    ASSUME NEW a, Sound(a), a.lcp.state = "OPENED",
           NEW e \in PeerEvents, e.proto \notin {"eof", "lcp"},
           e.proto = "ipcp" => a.pending = {}
    PROVE  Sound(Deliver(a, e)) /\ Lawful(a, Deliver(a, e))
  <1>1. CASE e.proto = "ipcp"
    <2> DEFINE m == [code |-> e.code, id |-> 0, val |-> e.val]
    <2>1. m \in Frame
      BY <1>1, EventsAssumption, BoundsAssumption DEF Frame, Ids
    <2>2. Deliver(a, e) = IpcpRun(a, Input(a.ipcp, m), e.ok)
      BY <1>1 DEF Deliver
    <2> HIDE DEF m
    <2>3. Moves(a.ipcp, Input(a.ipcp, m))
      BY <2>1, FsmMoves DEF Sound, Linked
    <2>4. Proved(a) /\ a.pending = {}
      BY <1>1 DEF Sound, Quiet
    <2>5. QED
      BY <2>2, <2>3, <2>4, IpcpRunSound
  <1>2. CASE e.proto = "pap"
    <2>1. Sound(PapNak(a)) /\ Lawful(a, PapNak(a))
      BY PapEnds, EndsKeeps, StillLawful
    <2>2. e.code \in {"Req", "Ack", "Nak"}
      BY <1>2, EventsAssumption
    <2>3. QED
      BY <1>2, <2>1, <2>2, PapRequestSound, PapAckSound DEF Deliver
  <1>3. CASE e.proto = "chap"
    <2>1. e.code \in {"Response", "Status"}
      BY <1>3, EventsAssumption
    <2>2. QED
      BY <1>3, <2>1, ChapResponseSound, ChapStatusSound DEF Deliver
  <1>4. QED
    BY <1>1, <1>2, <1>3, EventsAssumption

\* get_input; before the network phase it hands nothing to IPCP.
LEMMA GetInputSound ==
    ASSUME NEW a, Sound(a), NEW e \in PeerEvents
    PROVE  Sound(GetInput(a, e)) /\ Lawful(a, GetInput(a, e))
  <1>1. CASE e.proto = "eof"
    <2> DEFINE b == [a EXCEPT !.hungup = TRUE]
    <2>1. Aside(a, b)
      BY FieldAside DEF Sound, Linked
    <2>2. GetInput(a, e) = LinkTerminated(LcpLowerdown(b))
      BY <1>1 DEF GetInput
    <2> HIDE DEF b
    <2>3. Sound(b) /\ Still(a, b)
      BY <2>1, AsideKeeps, StillHere
    <2> DEFINE c == LcpLowerdown(b)
    <2>4. Sound(c) /\ Still(a, c)
      BY <2>3, LcpLowerdownEffect, StillTwice
    <2> HIDE DEF c
    <2>5. Sound(LinkTerminated(c)) /\ Still(a, LinkTerminated(c))
      BY <2>4, LinkTerminatedEffect, StillTwice
    <2>6. QED
      BY <2>2, <2>5, StillLawful DEF c
  <1>2. CASE e.proto = "lcp"
    BY <1>2, LcpInputSound DEF GetInput
  <1>3. CASE e.proto \notin {"eof", "lcp"}
    <2>1. CASE GetInput(a, e) = a
      BY <2>1, StillHere, StillLawful
    <2>2. CASE GetInput(a, e) # a
      <3>1. /\ GetInput(a, e) = Deliver(a, e) /\ a.lcp.state = "OPENED"
            /\ e.proto = "ipcp" =>
                 a.phase \notin {"DEAD", "SERIALCONN", "DORMANT", "ESTABLISH", "AUTHENTICATE"}
        BY <1>3, <2>2 DEF GetInput
      <3>2. a.phase \in Phases
        BY SessionFields DEF Sound, Linked
      <3>3. e.proto = "ipcp" => a.pending = {}
        BY <3>1, <3>2 DEF Sound, Quiet, Proved, InNetwork, Phases
      <3>4. QED
        BY <1>3, <3>1, <3>3, DeliverSound
    <2>3. QED
      BY <2>1, <2>2
  <1>4. QED
    BY <1>1, <1>2, <1>3

-----------------------------------------------------------------------------
(* main(): the steps of PppSession. *)

IndInv ==
    /\ Sound(s)
    /\ pc \in Places /\ (pc # "session" => Quiet(s))
    /\ {persist, quit, alive} \subseteq BOOLEAN /\ got \subseteq {"hup", "term"}

LEMMA InitSound == Init => IndInv
  <1> SUFFICES ASSUME Init PROVE IndInv
    OBVIOUS
  <1>1. \A u \in Units : Steady(FsmInit(u)) /\ FsmInit(u).state = "INITIAL"
    <2> TAKE u \in Units
    <2>1. 0 \in Ids /\ NoOpt \in Options /\ "INITIAL" \in States
      BY BoundsAssumption DEF Ids, Options, States
    <2>2. <<>> \in Seq(Frame) /\ <<>> \in Seq(Callbacks)
      OBVIOUS
    <2>3. FsmInit(u) \in Fsm
      BY <2>1, <2>2 DEF FsmInit, Fsm
    <2>4. Inv(FsmInit(u))
      BY BoundsAssumption DEF FsmInit, Inv, Waiting, Negotiating, Terminating
    <2>5. QED
      BY <2>3, <2>4 DEF Steady, FsmInit
  <1>2. lcp \in Units /\ ipcp \in Units
    BY SessionAssumption
  <1>3. FsmInit(lcp) \in Fsm /\ FsmInit(ipcp) \in Fsm
    BY <1>1, <1>2 DEF Steady
  <1>4. [t \in Timers |-> 0] \in [Timers -> Nat]
    OBVIOUS
  <1>5. SessionInit \in Session
    BY <1>3, <1>4 DEF SessionInit, Session, Phases, PapStates
  <1>6. Linked(SessionInit)
    BY <1>1, <1>2, <1>5 DEF Linked, SessionInit
  <1>7. Quiet(SessionInit)
    BY <1>1, <1>2 DEF Quiet, InNetwork, SessionInit
  <1>8. QED
    BY <1>6, <1>7, MainAssumption DEF Init, IndInv, Sound, Places

LEMMA AfterSessionQuiet ==
    ASSUME NEW a, Sound(a), NEW p, NEW q, AfterSession(a, p, q)
    PROVE  Sound(s') /\ Quiet(s') /\ pc' \in {"wait", "holdoff", "top"}
  <1> DEFINE t == LcpClose(a)
             slow == t.slow \/ t.unsuccess > SlowAfter
             u == [t EXCEPT !.slow = slow]
             v == Phase(u, "HOLDOFF")
  <1>1. Linked(t) /\ Quiet(t)
    BY SoundLoose, LcpCloseEffect
  <1>2. s' \in {t, u, Arm(v, "holdoff")} /\ pc' \in {"wait", "holdoff", "top"}
    BY DEF AfterSession, Redial
  <1> HIDE DEF t
  <1>3. slow \in BOOLEAN
    BY <1>1, SessionFields DEF Linked
  <1> HIDE DEF slow
  <1>4. Aside(t, u)
    BY <1>1, <1>3, FieldAside DEF Linked
  <1>5. Linked(u) /\ Quiet(u)
    BY <1>1, <1>4, AsideKeeps
  <1> HIDE DEF u
  <1>6. "HOLDOFF" \in Phases /\ "holdoff" \in Timers
    BY DEF Phases, Timers
  <1>7. Linked(v) /\ Quiet(v)
    BY <1>5, <1>6, PhaseEffect DEF Quiet, InNetwork
  <1> HIDE DEF v
  <1>8. Aside(v, Arm(v, "holdoff"))
    BY <1>6, <1>7, TimerAside DEF Linked
  <1>9. Linked(Arm(v, "holdoff")) /\ Quiet(Arm(v, "holdoff"))
    BY <1>7, <1>8, AsideKeeps
  <1>10. QED
    BY <1>1, <1>2, <1>5, <1>9 DEF Sound

\* What a step leaves of the session
Kept ==
    /\ Sound(s') /\ pc' \in Places /\ (pc' # "session" => Quiet(s'))
    /\ Lawful(s, s')

LEMMA EndRoundKept ==
    ASSUME NEW a, Sound(a), Lawful(s, a), NEW p, NEW q, EndRound(a, p, q)
    PROVE  Kept
  <1>1. CASE a.phase = "DEAD"
    BY <1>1, AfterSessionQuiet, QuietLawful DEF EndRound, Kept, Places
  <1>2. CASE a.phase # "DEAD"
    BY <1>2 DEF EndRound, Kept, Places
  <1>3. QED
    BY <1>1, <1>2

LEMMA PhaseQuiet ==
    ASSUME NEW a, Linked(a), Quiet(a), NEW p \in Phases \ {"NETWORK", "RUNNING"}
    PROVE  LET b == Phase(a, p)
           IN  Linked(b) /\ Quiet(b) /\ Sound(b) /\ (\A c : Lawful(c, b))
  BY PhaseEffect, QuietLawful DEF Quiet, InNetwork, Sound

LEMMA BetweenKept == ASSUME IndInv, Between PROVE Kept
  <1>1. Sound(s) /\ (pc # "session" => Quiet(s)) /\ s \in Session /\ pc \in Places
    BY DEF IndInv, Sound, Linked
  <1>2. CASE Dial
    <2> DEFINE limit == IF MaxFail > SlowAfter THEN MaxFail ELSE SlowAfter + 1
               n == IF s.unsuccess >= limit THEN limit ELSE s.unsuccess + 1
               a == [s EXCEPT !.needHoldoff = TRUE]
               b == [a EXCEPT !.hungup = FALSE]
               t == [b EXCEPT !.unsuccess = n]
               f == Open(t.lcp)
               u == [t EXCEPT !.lcp = Silent(f)]
    <2>1. s' = Phase(u, "SERIALCONN") /\ pc' = "dial"
      BY <1>2 DEF Dial
    <2>2. Quiet(s) /\ n \in Nat
      BY <1>1, <1>2, MainAssumption, SessionFields DEF Dial
    <2> HIDE DEF limit, n
    <2>3. Aside(s, a) /\ a \in Session
      BY <1>1, FieldAside, AsideSession
    <2> HIDE DEF a
    <2>4. Aside(a, b) /\ b \in Session
      BY <2>3, FieldAside, AsideSession
    <2> HIDE DEF b
    <2>5. Aside(b, t)
      BY <2>2, <2>4, FieldAside
    <2>6. Sound(t) /\ Quiet(t) /\ Linked(t)
      BY <1>1, <2>2, <2>3, <2>4, <2>5, AsideTwice, AsideKeeps DEF Sound
    <2> HIDE DEF t
    <2>7. Moves(t.lcp, f) /\ f.state # "OPENED"
      BY <2>6, FsmMoves DEF Linked, Quiet
    <2> HIDE DEF f
    <2>8. Steady(Silent(f)) /\ Silent(f).state # "OPENED"
      BY <2>7, SilentSteady DEF Moves
    <2>9. u \in Session
      BY <2>6, <2>8 DEF Linked, Steady, Session
    <2>10. /\ u.lcp = Silent(f) /\ u.ipcp = t.ipcp /\ u.phase = t.phase
           /\ u.ipcpUp = t.ipcpUp /\ u.chapS = t.chapS
      BY <2>6 DEF Linked, Session
    <2> HIDE DEF u
    <2>11. Linked(u) /\ Quiet(u)
      BY <2>6, <2>8, <2>9, <2>10 DEF Linked, Quiet, InNetwork
    <2>12. QED
      BY <2>1, <2>11, PhaseQuiet DEF Kept, Phases, Places
  <1>3. CASE EndHoldoff
    BY <1>1, <1>3, PhaseQuiet DEF EndHoldoff, Kept, Phases, Places, Sound
  <1>4. CASE HoldoffOver
    BY <1>1, <1>4, QuietLawful DEF HoldoffOver, Kept, Places
  <1>5. CASE Exit
    BY <1>1, <1>5, QuietLawful DEF Exit, Kept, Places
  <1>6. QED
    BY <1>2, <1>3, <1>4, <1>5 DEF Between

LEMMA RoundKept == ASSUME IndInv, Round PROVE Kept
  <1>1. Sound(s) /\ (pc # "session" => Quiet(s)) /\ s \in Session /\ Linked(s)
    BY DEF IndInv, Sound, Linked
  <1>2. CASE Connect
    <2> DEFINE p == Phase(s, "ESTABLISH")
               b == [p EXCEPT !.fd = TRUE]
    <2>1. Linked(p) /\ Quiet(p)
      BY <1>1, <1>2, PhaseQuiet DEF Connect, Phases
    <2>2. s' = LcpLowerup(b) /\ pc' = "session"
      BY <1>2 DEF Connect
    <2> HIDE DEF p
    <2>3. Aside(p, b)
      BY <2>1, FieldAside DEF Linked
    <2>4. Sound(b) /\ Quiet(b)
      BY <2>1, <2>3, AsideKeeps DEF Sound
    <2>5. QED
      BY <2>2, <2>4, LcpLowerupSound, QuietLawful DEF Kept, Places
  <1>3. CASE ConnectFails
    <2>1. Sound(Phase(s, "DEAD"))
      BY <1>1, <1>3, PhaseQuiet DEF ConnectFails, Phases
    <2>2. QED
      BY <1>3, <2>1, AfterSessionQuiet, QuietLawful DEF ConnectFails, Kept, Places
  <1>4. CASE Leave
    BY <1>1, <1>4, EndRoundKept, StillHere, StillLawful DEF Leave
  <1>5. CASE TakeSignals
    <2>1. Sound(LcpClose(s)) /\ Lawful(s, LcpClose(s))
      BY <1>1, SoundLoose, LcpCloseSound, QuietLawful
    <2>2. ASSUME NEW e \in PeerEvents
          PROVE  LET b == LcpClose(GetInput(s, e)) IN Sound(b) /\ Lawful(s, b)
      BY <1>1, GetInputSound, SoundLoose, LcpCloseSound, QuietLawful
    <2>3. QED
      BY <1>5, <2>1, <2>2, EndRoundKept DEF TakeSignals
  <1>6. QED
    BY <1>2, <1>3, <1>4, <1>5 DEF Round

LEMMA ReceiveKept ==
    ASSUME IndInv, NEW e \in PeerEvents, Receive(e)
    PROVE  Kept
  BY GetInputSound, EndRoundKept DEF IndInv, Receive

LEMMA TimersKept == ASSUME IndInv, NEW timer \in Timers, Timeouts(timer) PROVE Kept
  <1> DEFINE t == Cancel(s, timer)
  <1>1. Sound(s) /\ (pc # "session" => Quiet(s)) /\ s \in Session /\ pc \in Places
    BY DEF IndInv, Sound, Linked
  <1>2. /\ Aside(s, t) /\ Sound(t) /\ (Quiet(s) => Quiet(t))
        /\ t \in Session /\ Linked(t)
    BY <1>1, TimerAside, AsideKeeps, AsideSession DEF Sound
  <1>3. Fire(t, timer) /\ pc' = pc
    BY DEF Timeouts
  <1> HIDE DEF t
  <1> SUFFICES Sound(s') /\ (Quiet(t) => Quiet(s')) /\ Lawful(t, s')
    BY <1>1, <1>2, <1>3, AsideLawful DEF Kept
  <1>4. \A b : Ends(t, b) => Sound(b) /\ (Quiet(t) => Quiet(b)) /\ Lawful(t, b)
    BY <1>2, EndsKeeps, StillLawful
  <1>5. Loose(t) /\ Ends(t, t)
    BY <1>2, SoundLoose, AsideSelf DEF Ends
  <1>6. CASE timer = "echo"
    <2> DEFINE b == [t EXCEPT !.echo = FALSE]
    <2>1. Aside(t, b)
      BY <1>2, FieldAside
    <2>2. s' \in {EchoCheck(b), t}
      BY <1>3, <1>6 DEF Fire
    <2> HIDE DEF b
    <2>3. Loose(b) /\ Ends(t, b)
      BY <1>5, <2>1, AsideKeeps DEF Ends
    <2>4. Ends(t, EchoCheck(b))
      BY <2>3, EchoCheckEnds, EndsTwice
    <2>5. QED
      BY <1>4, <1>5, <2>2, <2>4
  <1>7. CASE timer = "idle"
    <2> DEFINE c == LcpClose(t)
    <2>1. s' \in {[c EXCEPT !.needHoldoff = FALSE], Arm(t, "idle"), t}
      BY <1>3, <1>7 DEF Fire, CheckIdle
    <2>2. Linked(c) /\ Quiet(c)
      BY <1>5, LcpCloseEffect
    <2> HIDE DEF c
    <2>3. Aside(c, [c EXCEPT !.needHoldoff = FALSE])
      BY <2>2, FieldAside DEF Linked
    <2>4. Ends(t, [c EXCEPT !.needHoldoff = FALSE])
      BY <2>2, <2>3, AsideKeeps DEF Ends
    <2>5. Ends(t, Arm(t, "idle"))
      BY <1>2, <1>7, TimerAside DEF Ends
    <2>6. QED
      BY <1>4, <1>5, <2>1, <2>4, <2>5
  <1>8. CASE timer = "chap"
    BY <1>3, <1>4, <1>5, <1>8, ChapTimeoutEnds DEF Fire
  <1>9. CASE timer = "pap"
    BY <1>2, <1>3, <1>4, <1>9, PapEnds DEF Fire
  <1>10. CASE timer = "papReq"
    BY <1>2, <1>3, <1>4, <1>10, PapEnds DEF Fire
  <1>11. CASE timer = "delayed"
    BY <1>2, <1>3, <1>11, LcpLowerupSound, AlikeLawful DEF Fire
  <1>12. CASE timer = "holdoff"
    <2>1. s' = Phase(t, "DORMANT") /\ "DORMANT" \in Phases
      BY <1>3, <1>12 DEF Fire, Phases
    <2>2. /\ Linked(s') /\ s'.phase = "DORMANT" /\ s'.lcp = t.lcp /\ s'.ipcp = t.ipcp
          /\ s'.pending = t.pending /\ s'.success = t.success /\ s'.chapS = t.chapS
      BY <1>2, <2>1, PhaseEffect
    <2>3. Lawful(t, s')
      BY <2>2, StillLawful DEF Still
    <2>4. QED
      BY <1>2, <2>2, <2>3 DEF Sound, Quiet, Proved, InNetwork
  <1>13. QED
    BY <1>6, <1>7, <1>8, <1>9, <1>10, <1>11, <1>12 DEF Timers

LEMMA DueKept == ASSUME IndInv, Due PROVE Kept
  <1>1. Sound(s) /\ (pc # "session" => Quiet(s)) /\ pc \in Places /\ Linked(s)
    BY DEF IndInv, Sound
  <1>2. CASE LcpTimeout
    <2> DEFINE f == Expire(Untimeout(s.lcp))
    <2>1. s' = LcpRun(s, f) /\ pc' = pc /\ s.lcp.timers > 0
      BY <1>2 DEF LcpTimeout
    <2>2. Moves(s.lcp, f) /\ (f.state = "OPENED" => s.lcp.state = "OPENED")
      BY <1>1, <2>1, FsmMoves DEF Linked
    <2> HIDE DEF f
    <2>3. QED
      BY <1>1, <2>1, <2>2, LcpRunSound DEF Kept, Quiet
  <1>3. CASE IpcpTimeout
    <2> DEFINE f == Expire(Untimeout(s.ipcp))
    <2>1. s' = IpcpRun(s, f, TRUE) /\ pc' = pc /\ s.ipcp.timers > 0
      BY <1>3 DEF IpcpTimeout
    <2>2. Moves(s.ipcp, f) /\ (f.state = "OPENED" => s.ipcp.state = "OPENED")
      BY <1>1, <2>1, FsmMoves DEF Linked
    <2> HIDE DEF f
    <2>3. QED
      BY <1>1, <2>1, <2>2, IpcpRunSound DEF Kept
  <1>4. QED
    BY <1>2, <1>3, TimersKept DEF Due

LEMMA ScriptsKept == ASSUME IndInv, Scripts PROVE Kept
  <1>1. Sound(s) /\ (pc # "session" => Quiet(s)) /\ pc \in Places /\ s \in Session
    BY DEF IndInv, Sound, Linked
  <1>2. Aside(s, s') /\ pc' = pc
    <2>1. CASE AuthScriptDone
      <3>1. s.authState \in {"up", "down"} /\ (s.authState # s.authScript) \in BOOLEAN
        BY <1>1, SessionFields
      <3>2. QED
        BY <1>1, <2>1, <3>1, FieldAside DEF AuthScriptDone
    <2>2. CASE IpScriptDone
      BY <1>1, <2>2, FieldAside DEF IpScriptDone
    <2>3. QED
      BY <2>1, <2>2 DEF Scripts
  <1>3. QED
    BY <1>1, <1>2, AsideKeeps, StillHere, StillLawful DEF Kept

LEMMA StepIsKept == ASSUME IndInv, [Next]_vars PROVE Kept
  <1>1. CASE UNCHANGED <<s, pc>>
    BY <1>1, StillHere, StillLawful DEF IndInv, Kept
  <1>2. CASE Between \/ Round \/ Due \/ Scripts
    BY <1>2, BetweenKept, RoundKept, DueKept, ScriptsKept
  <1>3. CASE \E e \in PeerEvents : Receive(e)
    BY <1>3, ReceiveKept
  <1>4. CASE UNCHANGED vars \/ PeerDies \/ \E sig \in Signals : Signal(sig)
    BY <1>1, <1>4 DEF vars, PeerDies, Signal
  <1>5. QED
    BY <1>2, <1>3, <1>4 DEF Next

LEMMA StepKept == IndInv /\ [Next]_vars => IndInv'
  <1> SUFFICES ASSUME IndInv, [Next]_vars PROVE IndInv'
    OBVIOUS
  <1>1. {persist', quit', alive'} \subseteq BOOLEAN /\ got' \subseteq {"hup", "term"}
    <2>1. CASE UNCHANGED vars
      BY <2>1 DEF IndInv, vars
    <2>2. CASE Between
      BY <2>2 DEF IndInv, Between, Dial, EndHoldoff, HoldoffOver, Exit, Take
    <2>3. CASE Round
      BY <2>3 DEF IndInv, Round, Connect, ConnectFails, Leave, TakeSignals, Take
    <2>4. CASE Due \/ Scripts \/ PeerDies \/ \E e \in PeerEvents : Receive(e)
      BY <2>4 DEF IndInv, Due, LcpTimeout, IpcpTimeout, Timeouts, Scripts,
                  AuthScriptDone, IpScriptDone, PeerDies, Receive
    <2>5. CASE \E sig \in Signals : Signal(sig)
      BY <2>5, MainAssumption DEF IndInv, Signal
    <2>6. QED
      BY <2>1, <2>2, <2>3, <2>4, <2>5 DEF Next
  <1>2. Kept
    BY StepIsKept
  <1>3. QED
    BY <1>1, <1>2 DEF IndInv, Kept

(* Between any two steps of main() the session is quiet or what is not yet
   acknowledged is still pending. *)
THEOREM Invariance == Spec => []IndInv
  BY InitSound, StepKept, PTL DEF Spec

(* Every field of the session keeps its type, whatever the peer sends: the
   counters of the callout list are never negative. *)
THEOREM TypeCorrect == Spec => []TypeOK
  <1>1. IndInv => TypeOK
    BY DEF IndInv, TypeOK, Sound, Linked
  <1>2. QED
    BY <1>1, Invariance, PTL

(* No network before every authentication LCP agreed on was acknowledged, for
   every policy of options and authentication and every order of the frames. *)
THEOREM AuthFirstCorrect == Spec => []AuthFirst
  <1>1. IndInv => AuthFirst
    BY DEF IndInv, AuthFirst, Sound, Quiet, Proved, InNetwork
  <1>2. QED
    BY <1>1, Invariance, PTL

-----------------------------------------------------------------------------
(* pppd implements the contract of a link. *)

LEMMA Promised == ASSUME IndInv, IndInv', Lawful(s, s') PROVE [Contract!Next]_(Contract!vars)
  <1> DEFINE owed == Agreed(s.lcp) \ s.success
             up == s.lcp.state = "OPENED"
             net == s.ipcp.state = "OPENED"
  <1>1. /\ up => (net => owed = {})
        /\ ~up => ~net
    BY DEF IndInv, Sound, Quiet, Proved, InNetwork
  <1>2. /\ up' => (net' => owed' = {})
        /\ ~up' => ~net'
    BY DEF IndInv, Sound, Quiet, Proved, InNetwork
  <1>3. owed \in SUBSET Auths /\ owed' \in SUBSET Auths
    BY DEF Agreed
  <1> DEFINE now == IF up THEN owed ELSE {}
  <1>4. /\ Contract!vars = <<up, now, net>>
    BY DEF Contract!vars
  <1>5. CASE ~up /\ ~up'
    BY <1>1, <1>2, <1>5 DEF Contract!vars
  <1>6. CASE up /\ ~up'
    BY <1>2, <1>6 DEF Contract!Next, Contract!Drop
  <1>7. CASE ~up /\ up'
    BY <1>3, <1>7 DEF Lawful, Contract!Next, Contract!Establish
  <1>8. CASE up /\ up'
    <2>1. Agreed(s'.lcp) = Agreed(s.lcp)
      BY <1>8 DEF Lawful, Agreed
    <2>2. CASE owed' = owed
      BY <1>2, <1>8, <2>2 DEF Contract!Next, Contract!StartNetwork, Contract!StopNetwork, Contract!vars
    <2>3. CASE owed' # owed
      <3>1. PICK x \in Auths : s'.success = s.success \cup {x} /\ (net' => net)
        BY <1>8, <2>1, <2>3 DEF Lawful
      <3>2. owed' = owed \ {x} /\ x \in owed
        BY <2>1, <2>3, <3>1
      <3>3. ~net /\ ~net'
        BY <1>1, <1>8, <3>1, <3>2
      <3>4. QED
        BY <1>8, <3>2, <3>3 DEF Contract!Next, Contract!Authenticate
    <2>4. QED
      BY <2>2, <2>3
  <1>9. QED
    BY <1>5, <1>6, <1>7, <1>8

(* Whatever the peer sends and whichever signals and timers come in between, a
   link is established without a network, each authentication is taken off what
   is owed by its own acknowledgement, and the network starts when nothing is. *)
THEOREM ContractRefined == Spec => ContractSpec
  <1>1. Init => Contract!Init
    BY DEF Init, SessionInit, FsmInit, Contract!Init
  <1>2. IndInv /\ IndInv' /\ [Next]_vars => [Contract!Next]_(Contract!vars)
    BY StepIsKept, Promised DEF Kept
  <1>3. QED
    BY <1>1, <1>2, Invariance, PTL DEF Spec, ContractSpec, Contract!Spec
=============================================================================
