--------------------------- MODULE PppoeDiscovery ---------------------------
(***************************************************************************)
(* The discovery phase of PPPoE (plugins/rp-pppoe/discovery.c, plugin.c).  *)
(*                                                                         *)
(* pppd broadcasts a PADI, takes the first PADO whose tags are right, asks *)
(* the access concentrator (AC) it came from for a session with a PADR,    *)
(* and opens the session of the PADS.  It waits for PADO and PADS in       *)
(* select(), sends again when the time is up, and gives up after           *)
(* MaxAttempts.  The segment delays frames for any time, beyond the end of *)
(* a wait or of a whole connect, and may lose or double them.              *)
(***************************************************************************)
EXTENDS Naturals, FiniteSets

CONSTANTS
    ACs,          \* the access concentrators, by their ethernet address
    NoAC,         \* no address, no cookie
    Named,        \* the ACs that have the wanted name
    Serving,      \* the ACs that offer the wanted service
    Sloppy,       \* the ACs whose PADO may lack a tag that RFC 2516 requires
    Cookies,      \* the ACs that send a cookie and insist on having it back
    Options,      \* sets of options: rp_pppoe_ac, rp_pppoe_service, verbose
    MaxAttempts,  \* MAX_PADI_ATTEMPTS
    MaxSid,       \* bound on the sessions of an AC
    MaxFrames     \* bound on the frames on the segment when an AC answers

ASSUME DiscoveryAssumption ==
    /\ NoAC \notin ACs
    /\ Named \subseteq ACs /\ Serving \subseteq ACs
    /\ Sloppy \subseteq ACs /\ Cookies \subseteq ACs
    /\ Options \subseteq SUBSET {"ac", "service", "verbose"}
    /\ MaxAttempts \in Nat \ {0} /\ MaxSid \in Nat /\ MaxFrames \in Nat

Sids == 1 .. MaxSid
NoSid == 0
Clients == {"us", "other"}  \* by Host-Uniq: this pppd, another one beside it
Tags == {"AcName", "Service", "Error"}

Frame == [code : {"PADI", "PADO", "PADR", "PADS"},
          ac : ACs \cup {NoAC},   \* the AC it comes from or goes to
          to : Clients,
          tags : SUBSET Tags,
          cookie : ACs \cup {NoAC},
          sid : Sids \cup {NoSid}]

VARIABLES
    opt,       \* the options given to pppd
    at,        \* where pppd is: in waitForPADO, in waitForPADS, ...
    attempts,  \* padiAttempts or padrAttempts
    conn,      \* struct PPPoEConnection
    pc,        \* struct PacketCriteria of waitForPADO
    net,       \* frames on the segment
    granted,   \* granted[a]: the sessions the AC a has, and whose they are
    offers     \* history: the tags read in the wait for a PADO of this connect, with
               \* the AC that sent each of them; no action reads it

vars == <<opt, at, attempts, conn, pc, net, granted, offers>>

Conn == [peerEth : ACs \cup {NoAC}, cookie : ACs \cup {NoAC},
         session : Sids \cup {NoSid}, seenPADO : BOOLEAN]
Criteria == [acNameOK : BOOLEAN, serviceNameOK : BOOLEAN,
             seenACName : BOOLEAN, seenServiceName : BOOLEAN]

Verbose == "verbose" \in opt

FreshCriteria ==
    [acNameOK |-> "ac" \notin opt, serviceNameOK |-> "service" \notin opt,
     seenACName |-> FALSE, seenServiceName |-> FALSE]

\* PPPOEInitDevice
Init ==
    /\ opt \in Options
    /\ at = "idle" /\ attempts = 0
    /\ conn = [peerEth |-> NoAC, cookie |-> NoAC, session |-> NoSid, seenPADO |-> FALSE]
    /\ pc = FreshCriteria
    /\ net = {}
    /\ granted = [a \in ACs |-> {}]
    /\ offers = {}

Padi == [code |-> "PADI", ac |-> NoAC, to |-> "us", tags |-> {}, cookie |-> NoAC, sid |-> NoSid]
Padr(c) == [Padi EXCEPT !.code = "PADR", !.ac = c.peerEth, !.cookie = c.cookie]
Pado(a, tags) ==
    [Padi EXCEPT !.code = "PADO", !.ac = a, !.tags = tags,
                 !.cookie = IF a \in Cookies THEN a ELSE NoAC]
Pads(a, s, who) == [Padi EXCEPT !.code = "PADS", !.ac = a, !.to = who, !.sid = s]
-----------------------------------------------------------------------------
\* Mutant: the criteria are set up once and not in every wait
AwaitPADOAgain(n) ==
    /\ at' = "PADO" /\ attempts' = n
    /\ net' = net \cup {Padi}
    /\ pc' = pc
    /\ offers' = {}

\* Enter waitForPADO or waitForPADS after sending the request
AwaitPADO(n) ==
    /\ at' = "PADO" /\ attempts' = n
    /\ net' = net \cup {Padi}
    /\ pc' = FreshCriteria
    /\ offers' = {}

AwaitPADS(n, c) ==
    /\ at' = "PADS" /\ attempts' = n
    /\ net' = net \cup {Padr(c)}

\* discovery() gave up or pppd exits
Leave(where) ==
    /\ at' = where
    /\ offers' = IF where = "up" THEN offers ELSE {}
    /\ UNCHANGED <<attempts, net>>

\* PPPOEConnectDevice.  conn is the one of the last connect.
Connect ==
    /\ at = "idle"
    /\ AwaitPADO(1)
    /\ UNCHANGED <<opt, conn, granted>>

\* The flags add up over the PADOs of one wait.
ParsePADOTags(p, m) ==
    [acNameOK |-> p.acNameOK
       \/ ("ac" \in opt /\ "AcName" \in m.tags /\ m.ac \in Named),
     serviceNameOK |-> p.serviceNameOK
       \/ ("service" \in opt /\ "Service" \in m.tags /\ m.ac \in Serving),
     seenACName |-> p.seenACName \/ "AcName" \in m.tags,
     seenServiceName |-> p.seenServiceName \/ "Service" \in m.tags]

Copied(c, m) == [c EXCEPT !.cookie = IF m.cookie = NoAC THEN @ ELSE m.cookie]

\* An Error tag is fatal, whoever sends it.
ReceivePADO(m) ==
    /\ at = "PADO"
    /\ m.code = "PADO" /\ m.to = "us"
    /\ UNCHANGED <<opt, granted>>
    /\ LET p == ParsePADOTags(pc, m)
           c == Copied(conn, m)
           seen == p.seenACName /\ p.seenServiceName
           right == seen /\ p.acNameOK /\ p.serviceNameOK
           chosen == [c EXCEPT !.seenPADO = @ \/ seen,
                               !.peerEth = IF right THEN m.ac ELSE @]
       IN  \/ /\ "Error" \in m.tags /\ ~Verbose
              /\ conn' = c /\ pc' = p
              /\ Leave("exit")
           \/ /\ "Error" \notin m.tags \/ Verbose
              /\ conn' = chosen /\ pc' = p
              /\ offers' = offers \cup ({m.ac} \X m.tags)
              /\ IF right /\ ~Verbose
                   THEN AwaitPADS(1, chosen)
                   ELSE UNCHANGED <<at, attempts, net>>

\* Mutant: the source address is not compared
ReceivePADSAnyAC(m) ==
    /\ at = "PADS"
    /\ m.code = "PADS" /\ m.to = "us"
    /\ conn' = [conn EXCEPT !.session = m.sid]
    /\ Leave(IF "Error" \in m.tags THEN "exit" ELSE "up")
    /\ UNCHANGED <<opt, pc, granted>>

\* Frames of other ACs and for other processes are read and dropped.
ReceivePADS(m) ==
    /\ at = "PADS"
    /\ m.code = "PADS" /\ m.to = "us"
    /\ m.ac = conn.peerEth
    /\ conn' = [conn EXCEPT !.session = m.sid]
    /\ Leave(IF "Error" \in m.tags THEN "exit" ELSE "up")
    /\ UNCHANGED <<opt, pc, granted>>

\* Mutant: the attempts are not counted
PADOTimeoutUncounted ==
    /\ at = "PADO"
    /\ IF conn.seenPADO /\ Verbose
         THEN Leave("exit") /\ UNCHANGED pc
         ELSE AwaitPADO(attempts)
    /\ UNCHANGED <<opt, conn, granted>>

\* The time is up, or the clock was set back
PADOTimeout ==
    /\ at = "PADO"
    /\ IF conn.seenPADO /\ Verbose
         THEN Leave("exit") /\ UNCHANGED pc
         ELSE IF attempts < MaxAttempts
           THEN AwaitPADO(attempts + 1)
           ELSE Leave("idle") /\ UNCHANGED pc
    /\ UNCHANGED <<opt, conn, granted>>

\* waitForPADS copies the session of a packet it has perhaps not received.
PADSTimeout ==
    /\ at = "PADS"
    /\ \E s \in Sids \cup {NoSid} : conn' = [conn EXCEPT !.session = s]
    /\ IF attempts < MaxAttempts
         THEN AwaitPADS(attempts + 1, conn) /\ UNCHANGED offers
         ELSE Leave("idle")
    /\ UNCHANGED <<opt, pc, granted>>

\* select() is interrupted by a signal: no more attempts
Interrupted ==
    /\ at \in {"PADO", "PADS"}
    /\ Leave(IF at = "PADO" /\ conn.seenPADO /\ Verbose THEN "exit" ELSE "idle")
    /\ UNCHANGED <<opt, conn, pc, granted>>

\* PPPOEDisconnectDevice sends no PADT: the AC keeps the session.
Disconnect ==
    /\ at = "up"
    /\ Leave("idle")
    /\ UNCHANGED <<opt, conn, pc, granted>>
-----------------------------------------------------------------------------
\* The access concentrators.  A PADI or PADR may be answered late and often.
Quiet == Cardinality(net) < MaxFrames
Room(a) == Cardinality(granted[a]) < MaxSid
NextSid(a) == Cardinality(granted[a]) + 1

\* The tags of a PADO: both of them, or one if the AC is sloppy, or an error
OfferTags(a) ==
    {{"AcName", "Service"}, {"AcName", "Service", "Error"}}
      \cup (IF a \in Sloppy THEN {{"AcName"}, {"Service"}} ELSE {})

Offer(a) ==
    /\ Quiet /\ Padi \in net
    /\ \E tags \in OfferTags(a) : net' = net \cup {Pado(a, tags)}
    /\ UNCHANGED <<opt, at, attempts, conn, pc, granted, offers>>

Accepts(a, m) == m.code = "PADR" /\ m.ac = a /\ (a \in Cookies => m.cookie = a)

GrantTo(a, who) ==
    /\ Quiet /\ Room(a)
    /\ granted' = [granted EXCEPT ![a] = @ \cup {<<NextSid(a), who>>}]
    /\ net' = net \cup {Pads(a, NextSid(a), who)}
    /\ UNCHANGED <<opt, at, attempts, conn, pc, offers>>

Grant(a) == (\E m \in net : Accepts(a, m)) /\ GrantTo(a, "us")

GrantOther(a) == GrantTo(a, "other")

Refuse(a) ==
    /\ Quiet
    /\ \E m \in net : Accepts(a, m)
    /\ net' = net \cup {[Pads(a, NoSid, "us") EXCEPT !.tags = {"Error"}]}
    /\ UNCHANGED <<opt, at, attempts, conn, pc, granted, offers>>

Lose ==
    /\ \E m \in net : net' = net \ {m}
    /\ UNCHANGED <<opt, at, attempts, conn, pc, granted, offers>>

Next ==
    \/ Connect \/ Disconnect
    \/ \E m \in net : ReceivePADO(m) \/ ReceivePADS(m)
    \/ PADOTimeout \/ PADSTimeout \/ Interrupted
    \/ \E a \in ACs : Offer(a) \/ Grant(a) \/ GrantOther(a) \/ Refuse(a)
    \/ Lose

\* The waits compare the clock with their end in every round, so they end
\* however many frames come.
Fairness == WF_vars(PADOTimeout) /\ WF_vars(PADSTimeout)

Spec == Init /\ [][Next]_vars /\ Fairness
-----------------------------------------------------------------------------
TypeOK ==
    /\ opt \in Options
    /\ at \in {"idle", "PADO", "PADS", "up", "exit"}
    /\ attempts \in 0 .. MaxAttempts
    /\ conn \in Conn /\ pc \in Criteria
    /\ net \subseteq Frame
    /\ granted \in [ACs -> SUBSET (Sids \X Clients)]
    /\ offers \subseteq (ACs \cup {NoAC}) \X Tags

(* The session pppd opens is one that the AC it talks to gave to this pppd,
   in spite of PADS frames that are late, that come from an AC of an earlier
   connect or that are meant for another pppd of this machine, and of the
   session id that waitForPADS leaves behind when it got nothing. *)
SessionOfPeer == at = "up" => <<conn.session, "us">> \in granted[conn.peerEth]

(* The AC that pppd asks, and whose session it opens, was chosen by the PADOs of this
   wait alone: it sent one of them itself, and between them they had both tags, the
   wanted name and the wanted service, each from an AC that has it.  PADOs of a wait
   that timed out or of an earlier connect count for nothing, late ones that are read
   now do.  It is not said that one AC has it all: the flags add up (discovery.c:122),
   so that with two criteria, or when PADOs lack tags, the AC asked may lack what
   another one offered in the same wait. *)
Offered(tag, from) == \E a \in from : <<a, tag>> \in offers
ChosenByOffers ==
    at \in {"PADS", "up"} =>
      /\ \E tag \in Tags : <<conn.peerEth, tag>> \in offers
      /\ Offered("AcName", IF "ac" \in opt THEN Named ELSE ACs)
      /\ Offered("Service", IF "service" \in opt THEN Serving ELSE ACs)

(* A connect comes to an end, with a session or without, whatever the ACs
   send and however the frames are delayed. *)
ConnectEnds == at \in {"PADO", "PADS"} ~> at \notin {"PADO", "PADS"}
=============================================================================
