----------------------------- MODULE SessionOps -----------------------------
(***************************************************************************)
(* The life of one PPP link in pppd, between the negotiation automaton and *)
(* the main loop: the glue of lcp.c and ipcp.c, the phases and the         *)
(* authentication of auth.c, CHAP (chap-new.c) and PAP (upap.c).           *)
(*                                                                         *)
(* The globals of these files are one record s, and every function is an   *)
(* operator from s to s; a function that calls another one is written as   *)
(* that composition, in the order of the calls.  LCP and IPCP are fsms of  *)
(* FsmOps.  The option of LCP is the authentication protocol: go is what   *)
(* we ask of the peer, ho what the peer asks of us.                        *)
(*                                                                         *)
(* Not here: EAP, CCP, IPv6, multilink, demand dialling and callback, all  *)
(* off, and the limits maxconnect and maxoctets, which are 0.              *)
(***************************************************************************)
EXTENDS FsmOps

CONSTANTS
    lcp, ipcp,    \* the units of FsmOps that stand for LCP and IPCP
    pap, chap,    \* the option values of LCP
    EchoFails,    \* lcp_echo_fails
    AuthXmits,    \* us_maxtransmits and chap_max_transmits
    Rechallenge,  \* chap_rechallenge_time # 0
    IdleLimit,    \* idle_time_limit # 0
    ListenTime    \* listen_time # 0: a connect script has run

ASSUME SessionAssumption ==
    /\ {lcp, ipcp} \subseteq Units /\ lcp # ipcp
    /\ {pap, chap} \subseteq Values /\ pap # chap
    /\ EchoFails \in Nat \ {0} /\ AuthXmits \in Nat
    /\ {Rechallenge, IdleLimit, ListenTime} \subseteq BOOLEAN
-----------------------------------------------------------------------------
Phases == {"DEAD", "SERIALCONN", "DORMANT", "ESTABLISH", "AUTHENTICATE",
           "NETWORK", "RUNNING", "TERMINATE", "HOLDOFF"}
Auths == {"papPeer", "chapPeer", "papWith", "chapWith"}
PapStates == {"INITIAL", "CLOSED", "PENDING", "AUTHREQ", "LISTEN", "OPEN", "BADAUTH"}
ChapFlags == {"LOWERUP", "STARTED", "DONE", "FAILED", "PENDING", "VALID"}
Timers == {"echo", "idle", "chap", "pap", "papReq", "delayed", "holdoff"}

\* timers counts the entries of each kind in the callout list; success is what
\* was told on the line: the authentications acknowledged since LCP came up.
Session ==
    [phase : Phases, lcp : Fsm, ipcp : Fsm, fd : BOOLEAN, hungup : BOOLEAN,
     delayed : BOOLEAN, pending : SUBSET Auths, success : SUBSET Auths,
     papC : PapStates, papS : PapStates, papXmits : Nat,
     chapC : SUBSET ChapFlags, chapS : SUBSET ChapFlags, chapXmits : Nat,
     echo : BOOLEAN, echos : Nat, npOpen : Int, npUp : Int,
     ipcpOpen : BOOLEAN, ipcpUp : BOOLEAN,
     authState : {"up", "down"}, authScript : {"up", "down"}, authPid : BOOLEAN,
     ipScript : {"up", "down"}, ipPid : BOOLEAN,
     needHoldoff : BOOLEAN, unsuccess : Nat, slow : BOOLEAN,
     timers : [Timers -> Nat]]

SessionInit ==
    [phase |-> "DEAD", lcp |-> FsmInit(lcp), ipcp |-> FsmInit(ipcp),
     fd |-> FALSE, hungup |-> FALSE, delayed |-> FALSE,
     pending |-> {}, success |-> {},
     papC |-> "INITIAL", papS |-> "INITIAL", papXmits |-> 0,
     chapC |-> {}, chapS |-> {}, chapXmits |-> 0,
     echo |-> FALSE, echos |-> 0, npOpen |-> 0, npUp |-> 0,
     ipcpOpen |-> FALSE, ipcpUp |-> FALSE,
     authState |-> "down", authScript |-> "down", authPid |-> FALSE,
     ipScript |-> "down", ipPid |-> FALSE,
     needHoldoff |-> TRUE, unsuccess |-> 0, slow |-> FALSE,
     timers |-> [t \in Timers |-> 0]]

Phase(s, p) == [s EXCEPT !.phase = p]
Arm(s, t) == [s EXCEPT !.timers[t] = @ + 1]

\* Mutant: UNTIMEOUT takes an entry off the list whether it is there or not
CancelAlways(s, t) == [s EXCEPT !.timers[t] = @ - 1]

Cancel(s, t) == [s EXCEPT !.timers[t] = IF @ = 0 THEN 0 ELSE @ - 1]

\* An fsm function makes each callback at most once, down before the others.
Made(f, call) == \E i \in DOMAIN f.calls : f.calls[i] = call
Silent(f) == [f EXCEPT !.out = <<>>, !.calls = <<>>]
-----------------------------------------------------------------------------
(***************************************************************************)
(* Going down.  None of these functions calls lcp_close.                   *)
(***************************************************************************)

\* Mutant: the phase stays RUNNING
NpDownQuietly(s) ==
    LET t == [s EXCEPT !.npUp = @ - 1]
    IN  IF t.npUp = 0 THEN Cancel(t, "idle") ELSE t

\* np_down
NpDown(s) ==
    LET t == [s EXCEPT !.npUp = @ - 1]
    IN  IF t.npUp = 0 THEN Phase(Cancel(t, "idle"), "NETWORK") ELSE t

\* auth-down and ip-down are not started while the other script still runs.
AuthDownScript(s) ==
    IF s.authScript = "up" /\ ~s.authPid
      THEN [s EXCEPT !.authScript = "down", !.authPid = TRUE]
      ELSE s
IpDownScript(s) ==
    IF s.ipScript = "up" /\ ~s.ipPid
      THEN [s EXCEPT !.ipScript = "down", !.ipPid = TRUE]
      ELSE s

\* ipcp_down
IpcpDown(s) ==
    IpDownScript(IF s.ipcpUp THEN NpDown([s EXCEPT !.ipcpUp = FALSE]) ELSE s)

\* A fsm function of IPCP that may call down
IpcpDrop(s, f) ==
    LET t == [s EXCEPT !.ipcp = Silent(f)]
    IN  IF Made(f, "down") THEN IpcpDown(t) ELSE t

\* ipcp_lowerup, ipcp_lowerdown, and ipcp_close when the lower layer has gone
IpcpLowerup(s) == IpcpDrop(s, Lowerup(s.ipcp))
IpcpLowerdown(s) == IpcpDrop(s, Lowerdown(s.ipcp))
IpcpClose(s) == IpcpDrop(s, Close(s.ipcp))

\* upap_lowerdown
PapLowerdown(s) ==
    LET t == IF s.papC = "AUTHREQ" THEN Cancel(s, "pap") ELSE s
        u == IF s.papS = "LISTEN" THEN Cancel(t, "papReq") ELSE t
    IN  [u EXCEPT !.papC = "INITIAL", !.papS = "INITIAL"]

\* Mutant: the flags are reset and the timer of the challenge goes on
ChapLowerdownKeepsTimer(s) == [s EXCEPT !.chapC = {}, !.chapS = {}]

\* chap_lowerdown
ChapLowerdown(s) ==
    LET t == IF "PENDING" \in s.chapS THEN Cancel(s, "chap") ELSE s
    IN  [t EXCEPT !.chapC = {}, !.chapS = {}]

\* Mutant: the network protocols are not told
UpperLayersDownAuthOnly(s) == ChapLowerdown(PapLowerdown(s))

\* upper_layers_down
UpperLayersDown(s) ==
    [IpcpClose(IpcpLowerdown(ChapLowerdown(PapLowerdown(s))))
       EXCEPT !.npOpen = 0, !.npUp = 0]

\* link_down
LinkDown(s) ==
    LET a == IF s.authState = "up"
               THEN AuthDownScript([s EXCEPT !.authState = "down"])
               ELSE s
        establish(t) == IF t.phase = "DEAD" THEN t ELSE Phase(t, "ESTABLISH")
    IN  establish(UpperLayersDown(a))

\* Mutant: the echo timer goes on
EchoLowerdownKeepsTimer(s) == [s EXCEPT !.echo = FALSE]

\* lcp_echo_lowerdown
EchoLowerdown(s) ==
    IF s.echo THEN [Cancel(s, "echo") EXCEPT !.echo = FALSE] ELSE s

\* lcp_down
LcpDown(s) == [LinkDown(EchoLowerdown(s)) EXCEPT !.success = {}]

\* The callback down of a fsm function of LCP
LcpFall(s, f) ==
    LET t == [s EXCEPT !.lcp = Silent(f)]
    IN  IF Made(f, "down") THEN LcpDown(t) ELSE t

\* lcp_lowerdown
LcpLowerdown(s) ==
    IF s.delayed THEN [s EXCEPT !.delayed = FALSE] ELSE LcpFall(s, Lowerdown(s.lcp))

\* link_terminated
LinkTerminated(s) ==
    LET t == [s EXCEPT !.fd = FALSE]
    IN  IF s.phase = "DEAD" THEN s
        ELSE Phase(IF s.hungup THEN t ELSE LcpLowerdown(t), "DEAD")

\* lcp_finished, the callback finished of a fsm function of LCP
LcpFinish(s, f) == IF Made(f, "finished") THEN LinkTerminated(s) ELSE s

\* lcp_close; a passive LCP that is STOPPED finishes at once
LcpClose(s) ==
    LET t == IF s.phase = "DEAD" THEN s ELSE Phase(s, "TERMINATE")
        f == Close(s.lcp)
    IN  IF s.lcp.state = "STOPPED" /\ (Has(s.lcp, "passive") \/ Has(s.lcp, "silent"))
          THEN LinkTerminated([t EXCEPT !.lcp.state = "CLOSED"])
          ELSE LcpFinish(LcpFall(t, f), f)
-----------------------------------------------------------------------------
(***************************************************************************)
(* The network phase.                                                      *)
(***************************************************************************)

\* np_finished
NpFinished(s) ==
    LET t == [s EXCEPT !.npOpen = @ - 1]
    IN  IF t.npOpen <= 0 THEN LcpClose(t) ELSE t

\* ipcp_finished, the callback finished of a fsm function of IPCP
IpcpFinished(s) ==
    IF s.ipcpOpen THEN NpFinished([s EXCEPT !.ipcpOpen = FALSE]) ELSE s
IpcpFinish(s, f) == IF Made(f, "finished") THEN IpcpFinished(s) ELSE s

\* np_up
NpUp(s) ==
    LET first == Phase([s EXCEPT !.unsuccess = 0, !.slow = FALSE], "RUNNING")
        t == IF s.npUp > 0 THEN s
             ELSE IF IdleLimit THEN Arm(first, "idle") ELSE first
    IN  [t EXCEPT !.npUp = @ + 1]

\* A fsm function of IPCP that does not call up
IpcpQuit(s, f) == IpcpFinish(IpcpDrop(s, f), f)

IpUpScript(s) ==
    IF s.ipScript = "down" /\ ~s.ipPid
      THEN [s EXCEPT !.ipScript = "up", !.ipPid = TRUE]
      ELSE s

\* ipcp_up; it closes IPCP when the addresses or the interface are not ok
IpcpUp(s, ok) ==
    IF ok THEN IpUpScript([NpUp(s) EXCEPT !.ipcpUp = TRUE])
          ELSE IpcpQuit(s, Close(s.ipcp))

\* Any fsm function of IPCP
IpcpRun(s, f, ok) ==
    LET rise(t) == IF Made(f, "up") THEN IpcpUp(t, ok) ELSE t
    IN  IpcpFinish(rise(IpcpDrop(s, f)), f)

\* start_networks and continue_networks: IPCP is the only network protocol
StartNetworks(s) ==
    [IpcpQuit(Phase(s, "NETWORK"), Open(s.ipcp))
       EXCEPT !.ipcpOpen = TRUE, !.npOpen = @ + 1]

\* network_phase; the auth-up script is for a peer that authenticated itself
NetworkPhase(s) ==
    LET t == [s EXCEPT !.authState = "up"]
        u == IF t.authScript = "down" /\ ~t.authPid
               THEN [t EXCEPT !.authScript = "up", !.authPid = TRUE]
               ELSE t
    IN  StartNetworks(IF s.lcp.go # NoOpt THEN u ELSE s)

\* Mutant: tests what was pending before
AuthSuccessStale(s, a) ==
    LET t == [s EXCEPT !.pending = @ \ {a}]
    IN  IF s.pending = {} THEN NetworkPhase(t) ELSE t

\* auth_peer_success and auth_withpeer_success
AuthSuccess(s, a) ==
    LET t == [s EXCEPT !.pending = @ \ {a}]
    IN  IF t.pending = {} THEN NetworkPhase(t) ELSE t
-----------------------------------------------------------------------------
(***************************************************************************)
(* CHAP.  chapS and chapC are the flags of the server and of the client.   *)
(***************************************************************************)

\* chap_timeout: send a challenge, the same one or a new one
ChapTimeout(s) ==
    LET t == [s EXCEPT !.chapS = @ \ {"PENDING"}]
        u == IF "VALID" \in s.chapS THEN t
             ELSE [t EXCEPT !.chapXmits = 0, !.chapS = @ \cup {"VALID"}]
    IN  IF "VALID" \in s.chapS /\ s.chapXmits >= AuthXmits
          THEN LcpClose([t EXCEPT !.chapS = (@ \ {"VALID"}) \cup {"DONE", "FAILED"}])
          ELSE Arm([u EXCEPT !.chapXmits = @ + 1, !.chapS = @ \cup {"PENDING"}],
                   "chap")

\* chap_lowerup
ChapLowerup(s) ==
    LET t == [s EXCEPT !.chapC = @ \cup {"LOWERUP"}, !.chapS = @ \cup {"LOWERUP"}]
    IN  IF "STARTED" \in s.chapS THEN ChapTimeout(t) ELSE t

\* chap_auth_peer
ChapAuthPeer(s) ==
    LET t == [s EXCEPT !.chapS = @ \cup {"STARTED"}]
    IN  IF "STARTED" \in s.chapS THEN s
        ELSE IF "LOWERUP" \in s.chapS THEN ChapTimeout(t) ELSE t

\* chap_auth_with_peer
ChapAuthWithPeer(s) == [s EXCEPT !.chapC = @ \cup {"STARTED"}]

\* Mutant: a wrong response counts when the link was authenticated before
ChapJudgedLenient(s) ==
    LET t == [s EXCEPT !.chapS = @ \ {"VALID"}]
        done(v) == [v EXCEPT !.chapS = @ \cup {"DONE"}]
    IN  done(IF "DONE" \in t.chapS THEN t ELSE AuthSuccess(t, "chapPeer"))

\* The part of chap_handle_response after the answer was sent
ChapJudged(s) ==
    LET t == [s EXCEPT !.chapS = @ \ {"VALID"}]
        again(v) == IF Rechallenge
                      THEN Arm([v EXCEPT !.chapS = @ \cup {"PENDING"}], "chap")
                      ELSE v
        done(v) == [v EXCEPT !.chapS = @ \cup {"DONE"}]
    IN  done(IF "FAILED" \in t.chapS THEN LcpClose(t)
             ELSE again(IF "DONE" \in t.chapS THEN t ELSE AuthSuccess(t, "chapPeer")))

\* chap_handle_response: the response to our challenge, right or not
ChapResponse(s, ok) ==
    LET t == IF "PENDING" \in s.chapS THEN Cancel(s, "chap") ELSE s
        u == [t EXCEPT !.chapS = (@ \ {"PENDING"}) \cup (IF ok THEN {} ELSE {"FAILED"})]
        tell(v) == IF "FAILED" \in v.chapS THEN v
                   ELSE [v EXCEPT !.success = @ \cup {"chapPeer"}]
    IN  IF "LOWERUP" \notin s.chapS THEN s
        ELSE IF "VALID" \in s.chapS THEN ChapJudged(tell(u))
        ELSE IF "DONE" \in s.chapS THEN tell(s)
        ELSE s

\* chap_handle_status: the verdict of the peer on our response
ChapStatus(s, ok) ==
    LET t == [s EXCEPT !.chapC = @ \cup {"DONE"}]
    IN  IF s.chapC \cap {"DONE", "STARTED", "LOWERUP"} # {"STARTED", "LOWERUP"} THEN s
        ELSE IF ok THEN AuthSuccess([t EXCEPT !.success = @ \cup {"chapWith"}], "chapWith")
        ELSE LcpClose([t EXCEPT !.chapC = @ \cup {"FAILED"}])

\* chap_protrej
ChapProtrej(s) ==
    LET server(t) ==
          IF "STARTED" \in t.chapS THEN LcpClose([t EXCEPT !.chapS = {}]) ELSE t
        client(t) ==
          IF t.chapC \cap {"STARTED", "DONE"} = {"STARTED"}
            THEN LcpClose([t EXCEPT !.chapC = @ \ {"STARTED"}])
            ELSE t
    IN  client(server(IF "PENDING" \in s.chapS
                        THEN [Cancel(s, "chap") EXCEPT !.chapS = @ \ {"PENDING"}]
                        ELSE s))
-----------------------------------------------------------------------------
(***************************************************************************)
(* PAP.  papC and papS are the states of the client and of the server.     *)
(***************************************************************************)

\* upap_sauthreq
PapSend(s) ==
    Arm([s EXCEPT !.papXmits = @ + 1, !.papC = "AUTHREQ"], "pap")

\* upap_authwithpeer
PapAuthWithPeer(s) ==
    LET t == [s EXCEPT !.papXmits = 0]
    IN  IF s.papC \in {"INITIAL", "PENDING"} THEN [t EXCEPT !.papC = "PENDING"]
                                             ELSE PapSend(t)

\* upap_authpeer
PapAuthPeer(s) ==
    IF s.papS \in {"INITIAL", "PENDING"} THEN [s EXCEPT !.papS = "PENDING"]
    ELSE Arm([s EXCEPT !.papS = "LISTEN"], "papReq")

\* upap_timeout
PapTimeout(s) ==
    IF s.papC # "AUTHREQ" THEN s
    ELSE IF s.papXmits >= AuthXmits THEN LcpClose([s EXCEPT !.papC = "BADAUTH"])
    ELSE PapSend(s)

\* upap_reqtimeout
PapReqTimeout(s) ==
    IF s.papS # "LISTEN" THEN s
    ELSE [LcpClose(s) EXCEPT !.papS = "BADAUTH"]

\* upap_lowerup
PapLowerup(s) ==
    LET t == CASE s.papC = "INITIAL" -> [s EXCEPT !.papC = "CLOSED"]
               [] s.papC = "PENDING" -> PapSend(s)
               [] OTHER              -> s
    IN  CASE t.papS = "INITIAL" -> [t EXCEPT !.papS = "CLOSED"]
          [] t.papS = "PENDING" -> Arm([t EXCEPT !.papS = "LISTEN"], "papReq")
          [] OTHER              -> t

\* upap_protrej
PapProtrej(s) ==
    LET client(t) == IF t.papC = "AUTHREQ" THEN LcpClose(t) ELSE t
        server(t) == IF t.papS = "LISTEN" THEN LcpClose(t) ELSE t
    IN  PapLowerdown(server(client(s)))

\* upap_rauthreq: the name and password of the peer, right or not
PapRequest(s, ok) ==
    LET good == [s EXCEPT !.papS = "OPEN", !.success = @ \cup {"papPeer"}]
        bad == [s EXCEPT !.papS = "BADAUTH"]
    IN  IF s.papS # "LISTEN" THEN s
        ELSE Cancel(IF ok THEN AuthSuccess(good, "papPeer") ELSE LcpClose(bad), "papReq")

\* upap_rauthack and upap_rauthnak
PapAck(s) ==
    IF s.papC # "AUTHREQ" THEN s
    ELSE AuthSuccess([s EXCEPT !.papC = "OPEN", !.success = @ \cup {"papWith"}], "papWith")
PapNak(s) ==
    IF s.papC # "AUTHREQ" THEN s ELSE LcpClose([s EXCEPT !.papC = "BADAUTH"])
-----------------------------------------------------------------------------
(***************************************************************************)
(* LCP comes up.                                                           *)
(***************************************************************************)

\* What LCP agreed on must be done before the network phase.
Agreed(f) ==
    {a \in Auths : \/ a = "chapPeer" /\ f.go = chap
                   \/ a = "papPeer" /\ f.go = pap
                   \/ a = "chapWith" /\ f.ho = chap
                   \/ a = "papWith" /\ f.ho = pap}

\* link_established: tell the protocols, start the authentications
UpperLayersUp(s) == IpcpLowerup(ChapLowerup(PapLowerup(s)))
AuthPeer(s) ==
    CASE s.lcp.go = chap -> ChapAuthPeer(s)
      [] s.lcp.go = pap  -> PapAuthPeer(s)
      [] OTHER           -> s
AuthWithPeer(s) ==
    CASE s.lcp.ho = chap -> ChapAuthWithPeer(s)
      [] s.lcp.ho = pap  -> PapAuthWithPeer(s)
      [] OTHER           -> s
LinkEstablished(s) ==
    LET begin(t) == IF t.pending = {} THEN NetworkPhase(t) ELSE t
    IN  IF Wanted[lcp] # NoOpt /\ s.lcp.go = NoOpt
          THEN LcpClose(UpperLayersUp(s))
          ELSE begin([AuthWithPeer(AuthPeer(Phase(UpperLayersUp(s), "AUTHENTICATE")))
                        EXCEPT !.pending = Agreed(s.lcp)])

\* LcpSendEchoRequest with LcpLinkFailure
EchoSend(s) ==
    LET request(t) == IF t.lcp.state = "OPENED" THEN [t EXCEPT !.echos = @ + 1] ELSE t
    IN  request(IF s.echos < EchoFails THEN s
                ELSE [IF s.lcp.state = "OPENED" THEN LcpClose(s) ELSE s EXCEPT !.echos = 0])

\* Mutant: the echo timer is not started again
EchoCheckOnce(s) == EchoSend(s)

\* LcpEchoCheck
EchoCheck(s) ==
    LET next(t) == IF t.lcp.state = "OPENED" THEN Arm([t EXCEPT !.echo = TRUE], "echo")
                                             ELSE t
    IN  next(EchoSend(s))

\* lcp_up, with lcp_echo_lowerup
LcpUp(s) == LinkEstablished(EchoCheck([s EXCEPT !.echos = 0, !.echo = FALSE]))

\* Any fsm function of LCP
LcpRun(s, f) ==
    LET rise(t) == IF Made(f, "up") THEN LcpUp(t) ELSE t
    IN  LcpFinish(rise(LcpFall(s, f)), f)

\* lcp_lowerup, lcp_delayed_up and the first lines of lcp_input.  ppp_send_config and
\* ppp_recv_config succeed here: their ioctls are to the kernel.  Were one to fail, LCP
\* would stay in STARTING without a timer (lcp.c:433).
LcpLowerup(s) ==
    IF ListenTime THEN Arm([s EXCEPT !.delayed = TRUE], "delayed")
                  ELSE LcpRun(s, Lowerup(s.lcp))
\* Mutant: does not look at DELAYED_UP
LcpDelayedUpAlways(s) == LcpRun([s EXCEPT !.delayed = FALSE], Lowerup(s.lcp))

LcpDelayedUp(s) ==
    IF s.delayed THEN LcpRun([s EXCEPT !.delayed = FALSE], Lowerup(s.lcp)) ELSE s
=============================================================================
