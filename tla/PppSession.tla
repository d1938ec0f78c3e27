----------------------------- MODULE PppSession -----------------------------
(***************************************************************************)
(* pppd from main() of main.c: dial, run the session, hold off, redial,    *)
(* until it is told to quit or gives up.                                   *)
(*                                                                         *)
(* main() sleeps in handle_events().  Each thing that wakes it up is one   *)
(* action here, run to its end: a due entry of the callout list, a frame,  *)
(* a signal, a child that has exited.  Signals set their flags at any      *)
(* time; one that comes while an action runs, after main() looked at the   *)
(* flags, is one that comes after the action, so that no other action      *)
(* starts with a flag set.  The peer may send any frame until it dies.     *)
(***************************************************************************)
EXTENDS SessionOps

CONSTANTS
    Tty,         \* the channel is a serial line, not PPPoE
    Persist,     \* the persist option
    Holdoff,     \* init_holdoff # 0
    ChildWait,   \* child_wait # 0
    MaxFail,     \* maxfail; 0 is no limit
    SlowAfter,   \* unsuccessful attempts until redialling slows down: 60
    Signals,     \* the signals that may come, of {"hup", "term"}
    PeerEvents,  \* what the line may deliver
    Mortal,      \* the peer may die
    MaxStale     \* bound on the callout entries left over from earlier requests

ASSUME MainAssumption ==
    /\ {Tty, Persist, Holdoff, ChildWait, Mortal} \subseteq BOOLEAN
    /\ MaxFail \in Nat /\ SlowAfter \in Nat /\ MaxStale \in Nat
    /\ Signals \subseteq {"hup", "term"}

\* What may come: the end of the line, or a well-formed frame.  A Protocol-Reject
\* may name any protocol.
ASSUME EventsAssumption ==
    \A e \in PeerEvents :
        \/ e.proto = "eof"
        \/ e.proto = "lcp" /\ e.code \in {"EchoRep", "ProtRej"}
        \/ /\ e.proto \in {"lcp", "ipcp"}
           /\ e.code \in Codes /\ e.val \in Options \cup {Garbage}
        \/ e.proto = "pap" /\ e.code \in {"Req", "Ack", "Nak"}
        \/ e.proto = "chap" /\ e.code \in {"Response", "Status"}

VARIABLES
    s,        \* the link
    pc,       \* where main() is
    persist,  \* the variable persist
    quit,     \* asked_to_quit
    got,      \* got_sighup and got_sigterm
    alive     \* the peer answers

vars == <<s, pc, persist, quit, got, alive>>

\* The top of the loop, start_link, the loop around a session, the loop of the
\* holdoff, the loop that waits for the scripts, the end
Places == {"top", "dial", "session", "holdoff", "wait", "exit"}

Init ==
    /\ s = SessionInit
    /\ pc = "top" /\ persist = Persist /\ quit = FALSE
    /\ got = {} /\ alive = TRUE
-----------------------------------------------------------------------------
\* Mutant: SIGTERM does not clear persist
TakeKeepsPersist ==
    /\ persist' = persist
    /\ quit' = (quit \/ "term" \in got)
    /\ got' = {}

\* main() looks at the signals that have come.
Take ==
    /\ persist' = (persist /\ "term" \notin got)
    /\ quit' = (quit \/ "term" \in got)
    /\ got' = {}

\* Nothing cancels these entries when their session ends.
Bounded == s'.timers["pap"] <= MaxStale /\ s'.timers["delayed"] <= MaxStale

\* After a session: restore the fsms, then stop, hold off or redial
Redial(t, p, q) ==
    LET slow == t.slow \/ t.unsuccess > SlowAfter
        u == [t EXCEPT !.slow = slow]
    IN  IF ~p \/ q \/ (MaxFail > 0 /\ t.unsuccess >= MaxFail)
          THEN s' = t /\ pc' = "wait"
        ELSE IF t.needHoldoff /\ (Holdoff \/ slow)
          THEN s' = Arm(Phase(u, "HOLDOFF"), "holdoff") /\ pc' = "holdoff"
        ELSE s' = u /\ pc' = "top"
AfterSession(t, p, q) == Redial(LcpClose(t), p, q)

\* Mutant: the attempts are not counted
DialUncounted ==
    /\ pc = "top"
    /\ s' = Phase([s EXCEPT !.needHoldoff = TRUE, !.hungup = FALSE,
                            !.lcp = Silent(Open(s.lcp))], "SERIALCONN")
    /\ pc' = "dial"
    /\ got' = IF Tty THEN got \ {"term"} ELSE got
    /\ UNCHANGED <<persist, quit, alive>>

\* The first lines of the loop, lcp_open and start_link, up to the connect of
\* the channel; the one of a tty forgets a SIGTERM.  unsuccess is only compared
\* with maxfail and 60, and stops above both.
Dial ==
    LET limit == IF MaxFail > SlowAfter THEN MaxFail ELSE SlowAfter + 1
        t == [s EXCEPT !.needHoldoff = TRUE, !.hungup = FALSE,
                       !.unsuccess = IF @ >= limit THEN limit ELSE @ + 1]
    IN  /\ pc = "top"
        /\ s' = Phase([t EXCEPT !.lcp = Silent(Open(t.lcp))], "SERIALCONN")
        /\ pc' = "dial"
        /\ got' = IF Tty THEN got \ {"term"} ELSE got
        /\ UNCHANGED <<persist, quit, alive>>

\* start_link: the channel is there, and LCP gets its lower layer
Connect ==
    /\ pc = "dial"
    /\ s' = LcpLowerup([Phase(s, "ESTABLISH") EXCEPT !.fd = TRUE])
    /\ Bounded
    /\ pc' = "session"
    /\ UNCHANGED <<persist, quit, got, alive>>

\* start_link fails; the signals that came meanwhile are taken
ConnectFails ==
    /\ pc = "dial"
    /\ Take
    /\ AfterSession(Phase(s, "DEAD"), persist', quit')
    /\ UNCHANGED alive

\* The end of a round of the session loop, which goes on until the phase is DEAD
EndRound(t, p, q) ==
    IF t.phase = "DEAD" THEN AfterSession(t, p, q) ELSE s' = t /\ pc' = "session"

\* A timer has ended the link; there is nothing to read.
Leave ==
    /\ pc = "session" /\ s.phase = "DEAD" /\ got = {}
    /\ EndRound(s, persist, quit)
    /\ UNCHANGED <<persist, quit, got, alive>>

\* lcp_rprotrej
RProtRej(t, proto) ==
    CASE proto = pap  -> PapProtrej(t)
      [] proto = chap -> ChapProtrej(t)
      [] proto = ipcp -> IpcpLowerdown(t)
      [] OTHER        -> LcpRun(t, ProtReject(t.lcp))

\* fsm_input with lcp_extcode; lcp_input ends the delay of lcp_lowerup first
LcpFrame(t, e) ==
    CASE e.code = "EchoRep" ->
           IF t.lcp.state \in {"INITIAL", "STARTING"} THEN t ELSE [t EXCEPT !.echos = 0]
      [] e.code = "ProtRej" -> IF t.lcp.state = "OPENED" THEN RProtRej(t, e.val) ELSE t
      [] OTHER -> LcpRun(t, Input(t.lcp, [code |-> e.code, id |-> 0, val |-> e.val]))
LcpInput(t, e) == LcpFrame(LcpDelayedUp(t), e)

\* The input functions of the other protocols
Deliver(t, e) ==
    CASE e.proto = "ipcp" ->
           IpcpRun(t, Input(t.ipcp, [code |-> e.code, id |-> 0, val |-> e.val]), e.ok)
      [] e.proto = "pap" /\ e.code = "Req" -> PapRequest(t, e.ok)
      [] e.proto = "pap" /\ e.code = "Ack" -> PapAck(t)
      [] e.proto = "pap" /\ e.code = "Nak" -> PapNak(t)
      [] e.proto = "chap" /\ e.code = "Response" -> ChapResponse(t, e.ok)
      [] e.proto = "chap" /\ e.code = "Status"   -> ChapStatus(t, e.ok)

\* get_input.  Before LCP is open it listens to LCP only, and before the
\* network phase to LCP and the authentication protocols.
GetInput(t, e) ==
    LET early == t.phase \in {"DEAD", "SERIALCONN", "DORMANT", "ESTABLISH", "AUTHENTICATE"}
    IN  CASE e.proto = "eof" -> LinkTerminated(LcpLowerdown([t EXCEPT !.hungup = TRUE]))
          [] e.proto = "lcp" -> LcpInput(t, e)
          [] OTHER -> IF t.lcp.state # "OPENED" \/ (e.proto = "ipcp" /\ early)
                        THEN t ELSE Deliver(t, e)

CanRead(e) == s.fd /\ (alive \/ e.proto = "eof")

Receive(e) ==
    /\ pc = "session" /\ s.phase # "DEAD" /\ got = {} /\ CanRead(e)
    /\ EndRound(GetInput(s, e), persist, quit)
    /\ Bounded
    /\ UNCHANGED <<persist, quit, got, alive>>

\* A round that has seen a signal: read a frame if there is one, then close
TakeSignals ==
    /\ pc = "session" /\ got # {}
    /\ Take
    /\ \/ EndRound(LcpClose(s), persist', quit')
       \/ \E e \in PeerEvents :
            CanRead(e) /\ EndRound(LcpClose(GetInput(s, e)), persist', quit')
    /\ Bounded
    /\ UNCHANGED alive

\* The same in the holdoff: a signal ends it
EndHoldoff ==
    /\ pc = "holdoff" /\ got # {}
    /\ s' = Phase(s, "DORMANT")
    /\ Take
    /\ UNCHANGED <<pc, alive>>

HoldoffOver ==
    /\ pc = "holdoff" /\ s.phase # "HOLDOFF" /\ got = {}
    /\ pc' = IF persist THEN "top" ELSE "wait"
    /\ UNCHANGED <<s, persist, quit, got, alive>>

\* The scripts have exited, or are sent a SIGTERM, on a signal or after a while
Exit ==
    /\ pc = "wait"
    /\ (s.authPid \/ s.ipPid) => (ChildWait \/ got # {})
    /\ pc' = "exit"
    /\ UNCHANGED <<s, persist, quit, got, alive>>
-----------------------------------------------------------------------------
\* main() calls handle_events() in these places, which sleeps if no signal has come.
Sleeping == pc \in {"session", "holdoff", "wait"} /\ got = {}

\* check_idle: the link is idle, or was used since, or the kernel cannot tell
CheckIdle(t) ==
    \/ s' = [LcpClose(t) EXCEPT !.needHoldoff = FALSE]
    \/ s' = Arm(t, "idle")
    \/ s' = t

\* calltimeout takes the first entry off the list and calls its function
Fire(t, timer) ==
    CASE timer = "echo"    -> s' = IF t.echo THEN EchoCheck([t EXCEPT !.echo = FALSE]) ELSE t
      [] timer = "idle"    -> CheckIdle(t)
      [] timer = "chap"    -> s' = ChapTimeout(t)
      [] timer = "pap"     -> s' = PapTimeout(t)
      [] timer = "papReq"  -> s' = PapReqTimeout(t)
      [] timer = "delayed" -> s' = LcpDelayedUp(t)
      [] timer = "holdoff" -> s' = Phase(t, "DORMANT")

Timeouts(timer) ==
    /\ Sleeping /\ s.timers[timer] > 0
    /\ Fire(Cancel(s, timer), timer)
    /\ UNCHANGED <<pc, persist, quit, got, alive>>

LcpTimeout ==
    /\ Sleeping /\ s.lcp.timers > 0
    /\ s' = LcpRun(s, Expire(Untimeout(s.lcp)))
    /\ UNCHANGED <<pc, persist, quit, got, alive>>

IpcpTimeout ==
    /\ Sleeping /\ s.ipcp.timers > 0
    /\ s' = IpcpRun(s, Expire(Untimeout(s.ipcp)), TRUE)
    /\ UNCHANGED <<pc, persist, quit, got, alive>>

\* Mutant: does not look whether the link has changed meanwhile
IpScriptDoneOnce ==
    /\ pc \notin {"top", "dial", "exit"} /\ s.ipPid
    /\ s' = [s EXCEPT !.ipPid = FALSE]
    /\ UNCHANGED <<pc, persist, quit, got, alive>>

\* reap_kids: auth_script_done and ipcp_script_done
AuthScriptDone ==
    /\ pc \notin {"top", "dial", "exit"} /\ s.authPid
    /\ s' = [s EXCEPT !.authScript = s.authState, !.authPid = s.authState # s.authScript]
    /\ UNCHANGED <<pc, persist, quit, got, alive>>
IpScriptDone ==
    /\ pc \notin {"top", "dial", "exit"} /\ s.ipPid
    /\ LET now == IF s.ipcp.state = "OPENED" THEN "up" ELSE "down"
       IN  s' = [s EXCEPT !.ipScript = now, !.ipPid = now # s.ipScript]
    /\ UNCHANGED <<pc, persist, quit, got, alive>>

\* A SIGHUP in the holdoff leaves its entry behind, up to MaxStale of them.
Signal(sig) ==
    /\ pc # "exit" /\ ~quit /\ got' = got \cup {sig}
    /\ sig = "hup" /\ pc = "holdoff" => s.timers["holdoff"] <= MaxStale
    /\ UNCHANGED <<s, pc, persist, quit, alive>>

PeerDies ==
    /\ Mortal /\ alive /\ alive' = FALSE
    /\ UNCHANGED <<s, pc, persist, quit, got>>

\* The steps of main() between two sessions, and the ones around and in a session
Between == Dial \/ EndHoldoff \/ HoldoffOver \/ Exit
Round == Connect \/ ConnectFails \/ Leave \/ TakeSignals
Due == LcpTimeout \/ IpcpTimeout \/ \E timer \in Timers : Timeouts(timer)
Scripts == AuthScriptDone \/ IpScriptDone

Next ==
    \/ Between \/ Round \/ Due \/ Scripts
    \/ \E e \in PeerEvents : Receive(e)
    \/ \E sig \in Signals : Signal(sig)
    \/ PeerDies

Spec == Init /\ [][Next]_vars

\* In every round calltimeout calls what is due and main() takes the signals: weak
\* fairness of Between, Round and Due, with the condition under which Round and Due
\* are enabled spelled out.  Nothing is assumed of the peer, the signals, or the
\* scripts.
RoundReady == pc = "dial" \/ (pc = "session" /\ (s.phase = "DEAD" \/ got # {}))
TimerRuns ==
    /\ Sleeping
    /\ s.lcp.timers + s.ipcp.timers > 0 \/ \E timer \in Timers : s.timers[timer] > 0
Fairness ==
    /\ WF_vars(Between)
    /\ []<>~RoundReady \/ []<><<Round>>_vars
    /\ []<>~TimerRuns \/ []<><<Due>>_vars

FairSpec == Spec /\ Fairness
-----------------------------------------------------------------------------
\* Every field keeps its type; main() is in one of its loops.
TypeOK ==
    /\ s \in Session
    /\ pc \in Places /\ {persist, quit, alive} \subseteq BOOLEAN
    /\ got \subseteq {"hup", "term"}

\* Network traffic only after every authentication LCP agreed on was acknowledged
\* on the line, in this session: the phases of auth.c and IPCP together, whatever
\* the order of the frames of LCP, PAP, CHAP and IPCP.
AuthFirst ==
    s.phase \in {"NETWORK", "RUNNING"} \/ s.ipcp.state = "OPENED" =>
      s.lcp.state = "OPENED" /\ s.pending = {} /\ Agreed(s.lcp) \subseteq s.success

\* The callout list is what the flags of the protocols say: one echo entry while
\* lcp_echo_timer_running, one of CHAP while it waits, one of PAP while it listens,
\* none of them when LCP is not open, and none idles for a network that is not up.
CalloutInv ==
    /\ s.timers["echo"] = (IF s.echo THEN 1 ELSE 0)
    /\ s.timers["chap"] = (IF "PENDING" \in s.chapS THEN 1 ELSE 0)
    /\ s.timers["papReq"] = (IF s.papS = "LISTEN" THEN 1 ELSE 0)
    /\ s.timers["pap"] >= (IF s.papC = "AUTHREQ" THEN 1 ELSE 0)
    /\ s.timers["idle"] <= s.npUp
    /\ s.lcp.state # "OPENED" =>
         \A timer \in {"echo", "chap", "papReq", "idle"} : s.timers[timer] = 0

\* When LCP is not open nothing it carried goes on: the protocols above are down, no
\* network is counted, no authentication stands, and no entry of theirs waits in the
\* callout list; without a device LCP itself does not negotiate.  What outlives the
\* session: auth_pending and ipcp_is_open, which the next one sets; the BADAUTH of a
\* PAP server that timed out (upap.c:234); AUTH_DONE (chap-new.c:382); the entries of
\* upap_timeout (upap.c:276), lcp_delayed_up (lcp.c:441), holdoff_end (main.c:611).
CleanSlate ==
    /\ s.lcp.state # "OPENED" =>
         /\ s.ipcp.state = "INITIAL" /\ s.ipcp.timers = 0
         /\ s.npOpen = 0 /\ s.npUp = 0 /\ ~s.ipcpUp
         /\ s.authState = "down" /\ s.success = {}
         /\ s.papC = "INITIAL" /\ s.papS \in {"INITIAL", "BADAUTH"}
         /\ s.chapC = {} /\ s.chapS \subseteq {"DONE"}
         /\ ~s.echo
         /\ \A timer \in Timers \ {"pap", "delayed", "holdoff"} : s.timers[timer] = 0
    /\ ~s.fd => s.lcp.state \in {"INITIAL", "STARTING"} /\ s.lcp.timers = 0 /\ ~s.delayed

\* num_np_up counts the interface, which is configured in the phase RUNNING and in no
\* other one.  A pppd that takes SIGHUP is no exception but for one case: holdoff_end,
\* left in the callout list by a SIGHUP in the holdoff (main.c:611), may set the phase
\* of a later link to DORMANT, and leaves its interface and its count alone.
Misnamed == IF "hup" \in Signals THEN {"DORMANT"} ELSE {}
RunningInv ==
    /\ s.npUp = (IF s.ipcpUp THEN 1 ELSE 0)
    /\ s.phase = "RUNNING" => s.ipcpUp
    /\ s.ipcpUp => s.ipcp.state = "OPENED" /\ s.phase \in {"RUNNING"} \cup Misnamed

\* When no script runs, the last one that ran told of the present state: however
\* often the link went up and down while it ran, ip-up and ip-down, auth-up and
\* auth-down agree with IPCP and with the authentication.
ScriptsInv ==
    /\ ~s.authPid => s.authScript = s.authState
    /\ ~s.ipPid => (s.ipScript = "up" <=> s.ipcp.state = "OPENED")

\* While the phase is AUTHENTICATE there is an authentication to wait for, as the
\* comment in auth_peer_success has it.
AuthCompletes ==
    s.phase = "AUTHENTICATE" /\ s.lcp.state = "OPENED" => s.pending \ s.success # {}

\* While LCP is open the authentications still to be done are the ones whose success
\* was not told: the phase is AUTHENTICATE only while there is one of them, and each
\* leaves the list when it is acknowledged, whatever the order of the two directions,
\* of renegotiations and of rechallenges.  Only a CHAP server that was DONE before it
\* started tells success and keeps waiting; the run of AuthCompletes shows how.
AuthWaits ==
    s.lcp.state = "OPENED" =>
      /\ s.phase = "AUTHENTICATE" => s.pending # {}
      /\ s.pending \cap s.success \subseteq (IF "DONE" \in s.chapS THEN {"chapPeer"} ELSE {})

\* LCP waits for its lower layer only while there is a device and a timer that will
\* bring it up: a delayed lcp_lowerup is done or called off, never forgotten.
DelayedInv ==
    s.delayed => s.fd /\ s.timers["delayed"] > 0 /\ s.lcp.state \in {"INITIAL", "STARTING"}

\* pppd implements the contract of a link.
Contract ==
    INSTANCE SessionContract WITH
        Proofs <- Auths,
        link <- s.lcp.state = "OPENED",
        owed <- IF s.lcp.state = "OPENED" THEN Agreed(s.lcp) \ s.success ELSE {},
        net <- s.ipcp.state = "OPENED"
ContractSpec == Contract!Spec

\* pppd that was told to terminate exits, whatever it is doing and whatever the
\* peer sends.
TermObeyed == "term" \in got ~> pc = "exit"

\* pppd that has taken the signal to terminate exits.
QuitEnds == quit ~> pc = "exit"

\* A dead peer is noticed: the link it was on is given up.
DeathNoticed == ~alive /\ s.fd ~> ~s.fd

\* With a limit on failed attempts pppd gives a dead peer up.
GivesUp == ~alive ~> pc = "exit"
=============================================================================
