----------------------------- MODULE PppoeProofs -----------------------------
(***************************************************************************)
(* Proofs about PppoeDiscovery, for every set of access concentrators,     *)
(* criteria, sessions and attempts.                                        *)
(***************************************************************************)
EXTENDS PppoeDiscovery, FiniteSetTheorems, TLAPS

-----------------------------------------------------------------------------
(* The inductive invariant. *)

(* A PADS on the segment that is no refusal names a session that its sender
   has given to the client it is meant for. *)
GrantsKept ==
    \A m \in net : m.code = "PADS" /\ "Error" \notin m.tags
      => <<m.sid, m.to>> \in granted[m.ac]

SessionInv == TypeOK /\ GrantsKept /\ SessionOfPeer

(* A set of options under which the flags of PacketCriteria cannot add up over
   the PADOs of different ACs: one criterion at most, and the ACs that meet it
   send both tags. *)
Unambiguous(o) ==
    \/ "verbose" \in o
    \/ /\ ~({"ac", "service"} \subseteq o)
       /\ "ac" \in o => Named \cap Sloppy = {}
       /\ "service" \in o => Serving \cap Sloppy = {}

(* A PADO that is no refusal has both tags, or is the PADO of a sloppy AC. *)
OffersComplete ==
    \A m \in net : m.code = "PADO" =>
      m.ac \in Sloppy \/ {"AcName", "Service"} \subseteq m.tags

(* While waitForPADO waits, no PADO so far has met a criterion. *)
NotYetMet ==
    at = "PADO" /\ ~Verbose =>
      /\ pc.acNameOK = ("ac" \notin opt)
      /\ pc.serviceNameOK = ("service" \notin opt)

(* With verbose pppd lists the ACs and asks none. *)
OnlyLists == Verbose => at \notin {"PADS", "up"}

(* The AC that pppd asks meets every criterion itself.  The flags add up, so the
   code keeps to this only under options that are Unambiguous. *)
RightAC ==
    at \in {"PADS", "up"} =>
      /\ "ac" \in opt => conn.peerEth \in Named
      /\ "service" \in opt => conn.peerEth \in Serving

ChoiceInv == TypeOK /\ OffersComplete /\ NotYetMet /\ OnlyLists /\ RightAC

(* A PADO on the segment comes from an AC and has one of the two tags at least. *)
OffersSent ==
    \A m \in net : m.code = "PADO" =>
      /\ m.ac \in ACs /\ m.tags \subseteq Tags
      /\ "AcName" \in m.tags \/ "Service" \in m.tags

(* A flag that is set in the wait for a PADO stands for a tag read in this wait,
   or for a criterion that was not asked for. *)
FlagsOffered ==
    at = "PADO" =>
      /\ pc.acNameOK => "ac" \notin opt \/ Offered("AcName", Named)
      /\ pc.serviceNameOK => "service" \notin opt \/ Offered("Service", Serving)
      /\ pc.seenACName => Offered("AcName", ACs)
      /\ pc.seenServiceName => Offered("Service", ACs)

OfferInv == TypeOK /\ OffersSent /\ FlagsOffered /\ ChosenByOffers

-----------------------------------------------------------------------------
(* Types *)

LEMMA PacketTypes ==
    ASSUME TypeOK
    PROVE  /\ Padi \in Frame /\ Padr(conn) \in Frame
           /\ FreshCriteria \in Criteria
  BY DEF TypeOK, Padi, Padr, Frame, Conn, Clients, Criteria, FreshCriteria

(* A session that is given next is one of the sessions. *)
LEMMA NextSidType ==
    ASSUME TypeOK, NEW a \in ACs, Room(a)
    PROVE  NextSid(a) \in Sids
  <1>1. IsFiniteSet(Sids) /\ IsFiniteSet(Clients)
    <2>1. IsFiniteSet(Sids)
      BY FS_Interval, DiscoveryAssumption DEF Sids
    <2>2. IsFiniteSet({"us"}) /\ Clients = {"us"} \cup {"other"}
      BY FS_Singleton DEF Clients
    <2>3. QED
      BY <2>1, <2>2, FS_AddElement, FS_Singleton, FS_Union
  <1>2. IsFiniteSet(Sids \X Clients)
    BY <1>1, FS_Product
  <1>3. granted[a] \subseteq Sids \X Clients
    BY DEF TypeOK
  <1>4. Cardinality(granted[a]) \in Nat
    BY <1>2, <1>3, FS_Subset, FS_CardinalityType
  <1>5. QED
    BY <1>4, DiscoveryAssumption DEF Room, NextSid, Sids

LEMMA ConnectType == TypeOK /\ Connect => TypeOK'
  BY PacketTypes, DiscoveryAssumption DEF TypeOK, Connect, AwaitPADO

LEMMA CopiedType ==
    ASSUME TypeOK, NEW m \in Frame
    PROVE  /\ Copied(conn, m) \in Conn
           /\ ParsePADOTags(pc, m) \in Criteria
  <1>1. Copied(conn, m) \in Conn
    BY DEF TypeOK, Copied, Conn, Frame
  <1>2. ParsePADOTags(pc, m) \in Criteria
    BY DEF TypeOK, ParsePADOTags, Criteria
  <1>3. QED
    BY <1>1, <1>2

LEMMA RequestType ==
    ASSUME NEW c \in Conn
    PROVE  Padr(c) \in Frame
  BY DEF Padr, Padi, Frame, Conn, Clients

LEMMA ReceivePADOType ==
    ASSUME TypeOK, NEW m \in net, ReceivePADO(m)
    PROVE  TypeOK'
  <1> DEFINE p == ParsePADOTags(pc, m)
             c == Copied(conn, m)
             seen == p.seenACName /\ p.seenServiceName
             right == seen /\ p.acNameOK /\ p.serviceNameOK
             chosen == [c EXCEPT !.seenPADO = @ \/ seen,
                                 !.peerEth = IF right THEN m.ac ELSE @]
             read == offers \cup ({m.ac} \X m.tags)
  <1>1. m \in Frame
    BY DEF TypeOK
  <1>0. read \subseteq (ACs \cup {NoAC}) \X Tags
    BY <1>1 DEF TypeOK, Frame
  <1>2. c \in Conn /\ p \in Criteria
    BY <1>1, CopiedType
  <1>3. seen \in BOOLEAN /\ m.ac \in ACs \cup {NoAC}
    BY <1>1, <1>2 DEF Criteria, Frame
  <1>4. chosen \in Conn
    BY <1>2, <1>3 DEF Conn
  <1>5. Padr(chosen) \in Frame
    BY <1>4, RequestType
  <1> HIDE DEF p, c, seen, right, chosen, read
  <1>6. CASE /\ conn' = c /\ pc' = p
             /\ Leave("exit")
             /\ UNCHANGED <<opt, granted>>
    BY <1>2, <1>6 DEF TypeOK, Leave
  <1>7. CASE /\ conn' = chosen /\ pc' = p
             /\ offers' = read
             /\ AwaitPADS(1, chosen)
             /\ UNCHANGED <<opt, granted>>
    BY <1>0, <1>2, <1>4, <1>5, <1>7, DiscoveryAssumption DEF TypeOK, AwaitPADS
  <1>8. CASE /\ conn' = chosen /\ pc' = p
             /\ offers' = read
             /\ UNCHANGED <<at, attempts, net, opt, granted>>
    BY <1>0, <1>2, <1>4, <1>8 DEF TypeOK
  <1>9. QED
    BY <1>6, <1>7, <1>8 DEF ReceivePADO, p, c, seen, right, chosen, read

LEMMA ReceivePADSType ==
    ASSUME TypeOK, NEW m \in net, ReceivePADS(m)
    PROVE  TypeOK'
  <1>1. m.sid \in Sids \cup {NoSid}
    BY DEF TypeOK, Frame
  <1>2. [conn EXCEPT !.session = m.sid] \in Conn
    BY <1>1 DEF TypeOK, Conn
  <1>3. QED
    BY <1>2 DEF ReceivePADS, Leave, TypeOK

LEMMA TimeoutType == TypeOK /\ (PADOTimeout \/ PADSTimeout) => TypeOK'
  <1> SUFFICES ASSUME TypeOK, PADOTimeout \/ PADSTimeout
               PROVE  TypeOK'
    OBVIOUS
  <1>1. CASE PADOTimeout
    <2>1. CASE Leave("exit") \/ Leave("idle")
      BY <1>1, <2>1, PacketTypes DEF PADOTimeout, AwaitPADO, Leave, TypeOK
    <2>2. CASE AwaitPADO(attempts + 1) /\ attempts < MaxAttempts
      BY <1>1, <2>2, PacketTypes, DiscoveryAssumption DEF PADOTimeout, AwaitPADO, TypeOK
    <2>3. QED
      BY <1>1, <2>1, <2>2 DEF PADOTimeout
  <1>2. CASE PADSTimeout
    <2>1. conn' \in Conn
      BY <1>2 DEF PADSTimeout, TypeOK, Conn
    <2>2. CASE Leave("idle")
      BY <1>2, <2>1, <2>2 DEF PADSTimeout, Leave, TypeOK
    <2>3. CASE AwaitPADS(attempts + 1, conn) /\ attempts < MaxAttempts
      BY <1>2, <2>1, <2>3, PacketTypes, DiscoveryAssumption
      DEF PADSTimeout, AwaitPADS, TypeOK
    <2>4. QED
      BY <1>2, <2>2, <2>3 DEF PADSTimeout
  <1>3. QED
    BY <1>1, <1>2

LEMMA LeaveType == TypeOK /\ (Interrupted \/ Disconnect) => TypeOK'
  BY DEF TypeOK, Interrupted, Disconnect, Leave

LEMMA OfferType ==
    ASSUME TypeOK, NEW a \in ACs, Offer(a)
    PROVE  TypeOK'
  <1>1. \A tags \in OfferTags(a) : Pado(a, tags) \in Frame
    BY DEF OfferTags, Pado, Padi, Frame, Clients, Tags
  <1>2. QED
    BY <1>1 DEF Offer, TypeOK

LEMMA GrantType ==
    ASSUME TypeOK, NEW a \in ACs, NEW who \in Clients, GrantTo(a, who)
    PROVE  TypeOK'
  <1>1. NextSid(a) \in Sids
    BY NextSidType DEF GrantTo
  <1>2. Pads(a, NextSid(a), who) \in Frame
    BY <1>1 DEF Pads, Padi, Frame, Clients
  <1>3. granted[a] \cup {<<NextSid(a), who>>} \subseteq Sids \X Clients
    BY <1>1 DEF TypeOK
  <1>4. granted' \in [ACs -> SUBSET (Sids \X Clients)]
    BY <1>3 DEF GrantTo, TypeOK
  <1>5. QED
    BY <1>2, <1>4 DEF GrantTo, TypeOK

LEMMA RefuseType ==
    ASSUME TypeOK, NEW a \in ACs, Refuse(a)
    PROVE  TypeOK'
  <1>1. [Pads(a, NoSid, "us") EXCEPT !.tags = {"Error"}] \in Frame
    BY DEF Pads, Padi, Frame, Clients, Tags
  <1>2. QED
    BY <1>1 DEF Refuse, TypeOK

LEMMA LoseType == TypeOK /\ Lose => TypeOK'
  BY DEF TypeOK, Lose

LEMMA StepType == TypeOK /\ [Next]_vars => TypeOK'
  <1> SUFFICES ASSUME TypeOK, [Next]_vars
               PROVE  TypeOK'
    OBVIOUS
  <1>1. CASE Connect \/ Disconnect \/ Interrupted
    BY <1>1, ConnectType, LeaveType
  <1>2. CASE \E m \in net : ReceivePADO(m) \/ ReceivePADS(m)
    BY <1>2, ReceivePADOType, ReceivePADSType
  <1>3. CASE PADOTimeout \/ PADSTimeout
    BY <1>3, TimeoutType
  <1>4. ASSUME NEW a \in ACs, Offer(a) \/ Grant(a) \/ GrantOther(a) \/ Refuse(a)
        PROVE  TypeOK'
    <2>1. "us" \in Clients /\ "other" \in Clients
      BY DEF Clients
    <2>2. QED
      BY <1>4, <2>1, OfferType, GrantType, RefuseType DEF Grant, GrantOther
  <1>5. CASE Lose
    BY <1>5, LoseType
  <1>6. CASE UNCHANGED vars
    BY <1>6 DEF vars, TypeOK
  <1>7. QED
    BY <1>1, <1>2, <1>3, <1>4, <1>5, <1>6 DEF Next

(* Before the first connect nothing is on the segment and nothing is given. *)
LEMMA StartType == Init => TypeOK
  BY PacketTypes, DiscoveryAssumption
  DEF Init, TypeOK, Conn, Criteria, FreshCriteria

-----------------------------------------------------------------------------
(* The session *)

(* Sending requests does not put a PADS on the segment. *)
LEMMA RequestsKeepGrants ==
    ASSUME GrantsKept, granted' = granted, NEW q, q.code # "PADS",
           net' \subseteq net \cup {q}
    PROVE  GrantsKept'
  BY DEF GrantsKept

LEMMA ClientKeepsGrants ==
    ASSUME TypeOK, GrantsKept,
           \/ Connect \/ Disconnect \/ Interrupted \/ PADOTimeout \/ PADSTimeout
           \/ \E m \in net : ReceivePADO(m) \/ ReceivePADS(m)
    PROVE  GrantsKept'
  <1>1. granted' = granted
    BY DEF Connect, Disconnect, Interrupted, PADOTimeout, PADSTimeout,
           ReceivePADO, ReceivePADS
  <1>2. Padi.code # "PADS" /\ \A c : Padr(c).code # "PADS"
    BY DEF Padi, Padr
  <1>3. net' = net \/ net' = net \cup {Padi} \/ \E c : net' = net \cup {Padr(c)}
    <2>1. CASE Connect \/ Disconnect \/ Interrupted
      BY <2>1 DEF Connect, Disconnect, Interrupted, AwaitPADO, Leave
    <2>2. CASE PADOTimeout \/ PADSTimeout
      BY <2>2 DEF PADOTimeout, PADSTimeout, AwaitPADO, AwaitPADS, Leave
    <2>3. CASE \E m \in net : ReceivePADS(m)
      BY <2>3 DEF ReceivePADS, Leave
    <2>4. CASE \E m \in net : ReceivePADO(m)
      BY <2>4, Zenon DEF ReceivePADO, AwaitPADS, Leave
    <2>5. QED
      BY <2>1, <2>2, <2>3, <2>4
  <1>4. QED
    BY <1>1, <1>2, <1>3, RequestsKeepGrants

LEMMA GrantKeepsGrants ==
    ASSUME TypeOK, GrantsKept, NEW a \in ACs, NEW who \in Clients, GrantTo(a, who)
    PROVE  GrantsKept'
  <1> DEFINE new == Pads(a, NextSid(a), who)
  <1>1. granted' = [granted EXCEPT ![a] = @ \cup {<<NextSid(a), who>>}]
    BY DEF GrantTo
  <1>2. \A b \in ACs : granted[b] \subseteq granted'[b]
    BY <1>1 DEF TypeOK
  <1>3. <<NextSid(a), who>> \in granted'[a]
    BY <1>1 DEF TypeOK
  <1>4. new.ac = a /\ new.sid = NextSid(a) /\ new.to = who
    BY DEF Pads, Padi
  <1> SUFFICES ASSUME NEW m \in net', m.code = "PADS", "Error" \notin m.tags
               PROVE  <<m.sid, m.to>> \in granted'[m.ac]
    BY DEF GrantsKept
  <1>5. CASE m = new
    BY <1>3, <1>4, <1>5
  <1>6. CASE m \in net
    <2>1. <<m.sid, m.to>> \in granted[m.ac]
      BY <1>6 DEF GrantsKept
    <2>2. CASE m.ac \in ACs
      BY <1>2, <2>1, <2>2
    <2>3. CASE m.ac \notin ACs
      BY <1>1, <2>1, <2>3
    <2>4. QED
      BY <2>2, <2>3
  <1>7. QED
    BY <1>5, <1>6 DEF GrantTo

LEMMA StepKeepsGrants == TypeOK /\ GrantsKept /\ [Next]_vars => GrantsKept'
  <1> SUFFICES ASSUME TypeOK, GrantsKept, [Next]_vars
               PROVE  GrantsKept'
    OBVIOUS
  <1>1. CASE \/ Connect \/ Disconnect \/ Interrupted \/ PADOTimeout \/ PADSTimeout
             \/ \E m \in net : ReceivePADO(m) \/ ReceivePADS(m)
    BY <1>1, ClientKeepsGrants
  <1>2. ASSUME NEW a \in ACs, Offer(a)
        PROVE  GrantsKept'
    <2>1. \A tags : Pado(a, tags).code # "PADS"
      BY DEF Pado, Padi
    <2>2. granted' = granted /\ \E tags : net' = net \cup {Pado(a, tags)}
      BY <1>2 DEF Offer
    <2>3. QED
      BY <2>1, <2>2, RequestsKeepGrants
  <1>3. ASSUME NEW a \in ACs, Grant(a) \/ GrantOther(a)
        PROVE  GrantsKept'
    BY <1>3, GrantKeepsGrants DEF Grant, GrantOther, Clients
  <1>4. ASSUME NEW a \in ACs, Refuse(a)
        PROVE  GrantsKept'
    <2> DEFINE refusal == [Pads(a, NoSid, "us") EXCEPT !.tags = {"Error"}]
    <2>1. "Error" \in refusal.tags
      BY DEF Pads, Padi
    <2>2. granted' = granted /\ net' = net \cup {refusal}
      BY <1>4 DEF Refuse
    <2>3. QED
      BY <2>1, <2>2 DEF GrantsKept
  <1>5. CASE Lose
    BY <1>5 DEF Lose, GrantsKept
  <1>6. CASE UNCHANGED vars
    BY <1>6 DEF vars, GrantsKept
  <1>7. QED
    BY <1>1, <1>2, <1>3, <1>4, <1>5, <1>6 DEF Next

LEMMA StepKeepsSession == SessionInv /\ [Next]_vars => SessionOfPeer'
  <1> SUFFICES ASSUME SessionInv, [Next]_vars, at' = "up"
               PROVE  <<conn'.session, "us">> \in granted'[conn'.peerEth]
    BY DEF SessionOfPeer
  <1>1. ASSUME NEW m \in net, ReceivePADS(m)
        PROVE  <<conn'.session, "us">> \in granted'[conn'.peerEth]
    <2>1. "Error" \notin m.tags
      BY <1>1 DEF ReceivePADS, Leave
    <2>2. <<m.sid, "us">> \in granted[m.ac]
      BY <1>1, <2>1 DEF ReceivePADS, SessionInv, GrantsKept
    <2>3. conn'.session = m.sid /\ conn'.peerEth = m.ac
      BY <1>1 DEF ReceivePADS, SessionInv, TypeOK, Conn
    <2>4. QED
      BY <1>1, <2>2, <2>3 DEF ReceivePADS
  <1>2. ASSUME NEW a \in ACs, NEW who \in Clients, GrantTo(a, who)
        PROVE  <<conn'.session, "us">> \in granted'[conn'.peerEth]
    <2>1. conn' = conn /\ at = "up"
      BY <1>2 DEF GrantTo
    <2>2. <<conn.session, "us">> \in granted[conn.peerEth]
      BY <2>1 DEF SessionInv, SessionOfPeer
    <2>3. granted' = [granted EXCEPT ![a] = @ \cup {<<NextSid(a), who>>}]
      BY <1>2 DEF GrantTo
    <2>4. CASE conn.peerEth = a
      BY <2>1, <2>2, <2>3, <2>4 DEF SessionInv, TypeOK
    <2>5. CASE conn.peerEth # a
      BY <2>1, <2>2, <2>3, <2>5 DEF SessionInv, TypeOK
    <2>6. QED
      BY <2>4, <2>5
  <1>3. CASE UNCHANGED <<at, conn, granted>>
    BY <1>3 DEF SessionInv, SessionOfPeer
  <1>4. CASE Connect \/ Disconnect \/ Interrupted
    BY <1>4 DEF Connect, AwaitPADO, Disconnect, Interrupted, Leave
  <1>5. CASE PADOTimeout \/ PADSTimeout
    BY <1>5 DEF PADOTimeout, PADSTimeout, AwaitPADO, AwaitPADS, Leave
  <1>6. ASSUME NEW m \in net, ReceivePADO(m)
        PROVE  FALSE
    BY <1>6, Zenon DEF ReceivePADO, AwaitPADS, Leave
  <1>7. ASSUME NEW a \in ACs, Offer(a) \/ Grant(a) \/ GrantOther(a) \/ Refuse(a)
        PROVE  \/ UNCHANGED <<at, conn, granted>>
               \/ GrantTo(a, "us") \/ GrantTo(a, "other")
    BY <1>7 DEF Offer, Grant, GrantOther, Refuse
  <1>8. CASE Lose \/ UNCHANGED vars
    BY <1>3, <1>8 DEF Lose, vars
  <1>9. "us" \in Clients /\ "other" \in Clients
    BY DEF Clients
  <1>10. QED
    BY <1>1, <1>2, <1>3, <1>4, <1>5, <1>6, <1>7, <1>8, <1>9 DEF Next

(* What pppd knows of its peer and what the peer has given stay together: the
   inductive invariant behind SessionOfPeer. *)
THEOREM SessionInvariance == Spec => []SessionInv
  <1>1. Init => SessionInv
    BY StartType DEF Init, SessionInv, GrantsKept, SessionOfPeer
  <1>2. SessionInv /\ [Next]_vars => SessionInv'
    BY StepType, StepKeepsGrants, StepKeepsSession DEF SessionInv
  <1>3. QED
    BY <1>1, <1>2, PTL DEF Spec

(* Every variable keeps its type, and the attempts of a connect their limit. *)
THEOREM TypeCorrect == Spec => []TypeOK
  <1>1. SessionInv => TypeOK
    BY DEF SessionInv
  <1>2. QED
    BY <1>1, SessionInvariance, PTL

(* The session that pppd opens is one its access concentrator gave to it,
   for every number of concentrators, sessions and attempts. *)
THEOREM SessionOfPeerCorrect == Spec => []SessionOfPeer
  <1>1. SessionInv => SessionOfPeer
    BY DEF SessionInv
  <1>2. QED
    BY <1>1, SessionInvariance, PTL

-----------------------------------------------------------------------------
(* The choice of the AC *)

LEMMA StepKeepsOffers == TypeOK /\ OffersComplete /\ [Next]_vars => OffersComplete'
  <1> SUFFICES ASSUME TypeOK, OffersComplete, [Next]_vars
               PROVE  OffersComplete'
    OBVIOUS
  <1>1. ASSUME NEW q, q.code # "PADO", net' \subseteq net \cup {q}
        PROVE  OffersComplete'
    BY <1>1 DEF OffersComplete
  <1>2. Padi.code # "PADO" /\ (\A c : Padr(c).code # "PADO")
        /\ \A a, s, who : Pads(a, s, who).code # "PADO"
    BY DEF Padi, Padr, Pads
  <1>3. CASE Connect \/ Disconnect \/ Interrupted \/ PADOTimeout \/ PADSTimeout
    BY <1>1, <1>2, <1>3
    DEF Connect, Disconnect, Interrupted, PADOTimeout, PADSTimeout,
        AwaitPADO, AwaitPADS, Leave
  <1>4. ASSUME NEW m \in net, ReceivePADO(m) \/ ReceivePADS(m)
        PROVE  OffersComplete'
    <2>1. net' = net \/ \E c : net' = net \cup {Padr(c)}
      BY <1>4, Zenon DEF ReceivePADO, ReceivePADS, AwaitPADS, Leave
    <2>2. QED
      BY <1>1, <1>2, <2>1
  <1>5. ASSUME NEW a \in ACs, Offer(a)
        PROVE  OffersComplete'
    <2>1. PICK tags \in OfferTags(a) : net' = net \cup {Pado(a, tags)}
      BY <1>5 DEF Offer
    <2>2. a \in Sloppy \/ {"AcName", "Service"} \subseteq tags
      BY DEF OfferTags
    <2>3. Pado(a, tags).ac = a /\ Pado(a, tags).tags = tags
      BY DEF Pado, Padi
    <2>4. QED
      BY <2>1, <2>2, <2>3 DEF OffersComplete
  <1>6. ASSUME NEW a \in ACs, Grant(a) \/ GrantOther(a)
        PROVE  OffersComplete'
    BY <1>1, <1>2, <1>6 DEF Grant, GrantOther, GrantTo
  <1>7. ASSUME NEW a \in ACs, Refuse(a)
        PROVE  OffersComplete'
    <2> DEFINE refusal == [Pads(a, NoSid, "us") EXCEPT !.tags = {"Error"}]
    <2>1. refusal.code # "PADO"
      BY DEF Pads, Padi
    <2>2. net' = net \cup {refusal}
      BY <1>7 DEF Refuse
    <2>3. QED
      BY <1>1, <2>1, <2>2
  <1>8. CASE Lose \/ UNCHANGED vars
    BY <1>8 DEF Lose, vars, OffersComplete
  <1>9. QED
    BY <1>3, <1>4, <1>5, <1>6, <1>7, <1>8 DEF Next

(* A PADO that meets the one criterion is taken at once, and one that does not
   changes no criterion. *)
LEMMA ReceivePADOChooses ==
    ASSUME ChoiceInv, Unambiguous(opt), NEW m \in net, ReceivePADO(m)
    PROVE  NotYetMet' /\ OnlyLists' /\ RightAC'
  <1> DEFINE p == ParsePADOTags(pc, m)
             c == Copied(conn, m)
             seen == p.seenACName /\ p.seenServiceName
             right == seen /\ p.acNameOK /\ p.serviceNameOK
             chosen == [c EXCEPT !.seenPADO = @ \/ seen,
                                 !.peerEth = IF right THEN m.ac ELSE @]
  <1>1. /\ TypeOK /\ m \in Frame /\ at = "PADO" /\ opt' = opt
        /\ m.code = "PADO"
    BY DEF ReceivePADO, ChoiceInv, TypeOK
  <1>2. c \in Conn /\ p \in Criteria
    BY <1>1, CopiedType
  <1>3. \/ at' = "exit"
        \/ at' = "PADO" /\ pc' = p /\ (Verbose \/ ~right)
        \/ at' = "PADS" /\ conn' = chosen /\ right /\ ~Verbose
    <2>1. \/ Leave("exit")
          \/ /\ pc' = p /\ conn' = chosen
             /\ IF right /\ ~Verbose
                  THEN AwaitPADS(1, chosen)
                  ELSE UNCHANGED <<at, attempts, net>>
      BY DEF ReceivePADO
    <2>2. QED
      BY <1>1, <2>1 DEF AwaitPADS, Leave
  <1>4. right => chosen.peerEth = m.ac
    BY <1>2 DEF Conn
  <1>5. /\ p.acNameOK = (pc.acNameOK \/ ("ac" \in opt /\ "AcName" \in m.tags /\ m.ac \in Named))
        /\ p.serviceNameOK = (pc.serviceNameOK
             \/ ("service" \in opt /\ "Service" \in m.tags /\ m.ac \in Serving))
        /\ "AcName" \in m.tags => p.seenACName
        /\ "Service" \in m.tags => p.seenServiceName
    BY DEF ParsePADOTags
  <1>6. ~Verbose => /\ pc.acNameOK = ("ac" \notin opt)
                    /\ pc.serviceNameOK = ("service" \notin opt)
    BY <1>1 DEF ChoiceInv, NotYetMet
  <1>7. m.ac \in Sloppy \/ {"AcName", "Service"} \subseteq m.tags
    BY <1>1 DEF ChoiceInv, OffersComplete
  <1> HIDE DEF p, c, chosen
  <1>8. CASE at' = "exit"
    BY <1>8 DEF NotYetMet, OnlyLists, RightAC
  <1>9. CASE at' = "PADO" /\ pc' = p /\ (Verbose \/ ~right)
    <2>1. CASE Verbose
      BY <1>1, <1>9, <2>1 DEF NotYetMet, OnlyLists, RightAC, Verbose
    <2>2. CASE ~Verbose /\ ~right
      <3>1. /\ ~({"ac", "service"} \subseteq opt)
            /\ "ac" \in opt => Named \cap Sloppy = {}
            /\ "service" \in opt => Serving \cap Sloppy = {}
        BY <2>2 DEF Unambiguous, Verbose
      <3>2. "ac" \in opt => ~p.acNameOK
        BY <1>5, <1>6, <1>7, <2>2, <3>1
      <3>3. "service" \in opt => ~p.serviceNameOK
        BY <1>5, <1>6, <1>7, <2>2, <3>1
      <3>4. /\ p.acNameOK = ("ac" \notin opt)
            /\ p.serviceNameOK = ("service" \notin opt)
        BY <1>5, <1>6, <2>2, <3>2, <3>3, <1>2 DEF Criteria
      <3>5. QED
        BY <1>1, <1>9, <2>2, <3>4 DEF NotYetMet, OnlyLists, RightAC, Verbose
    <2>3. QED
      BY <1>9, <2>1, <2>2
  <1>10. CASE at' = "PADS" /\ conn' = chosen /\ right /\ ~Verbose
    <2>1. ("ac" \in opt => m.ac \in Named) /\ ("service" \in opt => m.ac \in Serving)
      BY <1>5, <1>6, <1>10
    <2>2. QED
      BY <1>1, <1>4, <1>10, <2>1 DEF NotYetMet, OnlyLists, RightAC, Verbose
  <1>11. QED
    BY <1>3, <1>8, <1>9, <1>10

LEMMA StepKeepsChoice ==
    ASSUME ChoiceInv, Unambiguous(opt), [Next]_vars
    PROVE  ChoiceInv'
  <1>1. TypeOK' /\ OffersComplete'
    BY StepType, StepKeepsOffers DEF ChoiceInv
  <1> SUFFICES NotYetMet' /\ OnlyLists' /\ RightAC'
    BY <1>1 DEF ChoiceInv
  <1> USE DEF NotYetMet, OnlyLists, RightAC, Verbose
  <1>2. CASE Connect
    BY <1>2 DEF Connect, AwaitPADO, FreshCriteria
  <1>3. CASE Disconnect \/ Interrupted
    BY <1>3 DEF Disconnect, Interrupted, Leave
  <1>4. ASSUME NEW m \in net, ReceivePADO(m)
        PROVE  NotYetMet' /\ OnlyLists' /\ RightAC'
    BY <1>4, ReceivePADOChooses
  <1>5. ASSUME NEW m \in net, ReceivePADS(m)
        PROVE  NotYetMet' /\ OnlyLists' /\ RightAC'
    <2>1. conn'.peerEth = conn.peerEth /\ opt' = opt /\ at = "PADS" /\ at' \in {"exit", "up"}
      BY <1>5 DEF ReceivePADS, Leave, ChoiceInv, TypeOK, Conn
    <2>2. QED
      BY <2>1 DEF ChoiceInv
  <1>6. CASE PADOTimeout
    BY <1>6 DEF PADOTimeout, AwaitPADO, Leave, FreshCriteria
  <1>7. CASE PADSTimeout
    <2>1. conn'.peerEth = conn.peerEth /\ opt' = opt /\ at = "PADS" /\ at' \in {"PADS", "idle"}
      BY <1>7 DEF PADSTimeout, AwaitPADS, Leave, ChoiceInv, TypeOK, Conn
    <2>2. QED
      BY <2>1 DEF ChoiceInv
  <1>8. CASE UNCHANGED <<opt, at, conn, pc>>
    BY <1>8 DEF ChoiceInv
  <1>9. ASSUME NEW a \in ACs, Offer(a) \/ Grant(a) \/ GrantOther(a) \/ Refuse(a)
        PROVE  UNCHANGED <<opt, at, conn, pc>>
    BY <1>9 DEF Offer, Grant, GrantOther, GrantTo, Refuse
  <1>10. CASE Lose \/ UNCHANGED vars
    BY <1>8, <1>10 DEF Lose, vars
  <1>11. QED
    BY <1>2, <1>3, <1>4, <1>5, <1>6, <1>7, <1>8, <1>9, <1>10 DEF Next

(* A PADO sets flags only for tags it has, and these are noted in offers. *)
LEMMA ReceivePADOOffers ==
    ASSUME OfferInv, NEW m \in net, ReceivePADO(m)
    PROVE  FlagsOffered' /\ ChosenByOffers'
  <1> DEFINE p == ParsePADOTags(pc, m)
             c == Copied(conn, m)
             seen == p.seenACName /\ p.seenServiceName
             right == seen /\ p.acNameOK /\ p.serviceNameOK
             chosen == [c EXCEPT !.seenPADO = @ \/ seen,
                                 !.peerEth = IF right THEN m.ac ELSE @]
             read == offers \cup ({m.ac} \X m.tags)
  <1>1. /\ TypeOK /\ m \in Frame /\ at = "PADO" /\ opt' = opt
        /\ m.code = "PADO"
    BY DEF ReceivePADO, OfferInv, TypeOK
  <1>2. c \in Conn /\ p \in Criteria
    BY <1>1, CopiedType
  <1>3. \/ at' = "exit"
        \/ /\ pc' = p /\ conn' = chosen /\ offers' = read
           /\ at' = "PADO" \/ (at' = "PADS" /\ right)
    <2>1. \/ Leave("exit")
          \/ /\ pc' = p /\ conn' = chosen /\ offers' = read
             /\ IF right /\ ~Verbose
                  THEN AwaitPADS(1, chosen)
                  ELSE UNCHANGED <<at, attempts, net>>
      BY DEF ReceivePADO
    <2>2. QED
      BY <1>1, <2>1 DEF AwaitPADS, Leave
  <1>4. right => chosen.peerEth = m.ac
    BY <1>2 DEF Conn
  <1>5. /\ p.acNameOK = (pc.acNameOK \/ ("ac" \in opt /\ "AcName" \in m.tags /\ m.ac \in Named))
        /\ p.serviceNameOK = (pc.serviceNameOK
             \/ ("service" \in opt /\ "Service" \in m.tags /\ m.ac \in Serving))
        /\ p.seenACName = (pc.seenACName \/ "AcName" \in m.tags)
        /\ p.seenServiceName = (pc.seenServiceName \/ "Service" \in m.tags)
    BY DEF ParsePADOTags
  <1>6. m.ac \in ACs /\ m.tags \subseteq Tags /\ ("AcName" \in m.tags \/ "Service" \in m.tags)
    BY <1>1 DEF OfferInv, OffersSent
  <1>7. offers \subseteq read /\ \A tag \in m.tags : <<m.ac, tag>> \in read
    OBVIOUS
  <1>8. /\ pc.acNameOK => "ac" \notin opt \/ Offered("AcName", Named)
        /\ pc.serviceNameOK => "service" \notin opt \/ Offered("Service", Serving)
        /\ pc.seenACName => Offered("AcName", ACs)
        /\ pc.seenServiceName => Offered("Service", ACs)
    BY <1>1 DEF OfferInv, FlagsOffered
  <1> HIDE DEF p, c, chosen, read
  <1>9. ASSUME offers' = read
        PROVE  /\ p.acNameOK => "ac" \notin opt \/ Offered("AcName", Named)'
               /\ p.serviceNameOK => "service" \notin opt \/ Offered("Service", Serving)'
               /\ p.seenACName => Offered("AcName", ACs)'
               /\ p.seenServiceName => Offered("Service", ACs)'
    BY <1>5, <1>6, <1>7, <1>8, <1>9 DEF Offered
  <1>10. CASE at' = "exit"
    BY <1>10 DEF FlagsOffered, ChosenByOffers
  <1>11. CASE /\ pc' = p /\ conn' = chosen /\ offers' = read
              /\ at' = "PADO"
    BY <1>1, <1>9, <1>11 DEF FlagsOffered, ChosenByOffers
  <1>12. CASE /\ pc' = p /\ conn' = chosen /\ offers' = read
              /\ at' = "PADS" /\ right
    <2>1. \E tag \in Tags : <<conn'.peerEth, tag>> \in offers'
      BY <1>4, <1>6, <1>7, <1>12
    <2>2. Offered("AcName", ACs)' /\ ("ac" \in opt => Offered("AcName", Named)')
      BY <1>9, <1>12
    <2>3. Offered("Service", ACs)' /\ ("service" \in opt => Offered("Service", Serving)')
      BY <1>9, <1>12
    <2>4. QED
      BY <1>1, <1>12, <2>1, <2>2, <2>3 DEF FlagsOffered, ChosenByOffers, Offered
  <1>13. QED
    BY <1>3, <1>10, <1>11, <1>12

LEMMA StepKeepsSent == TypeOK /\ OffersSent /\ [Next]_vars => OffersSent'
  <1> SUFFICES ASSUME TypeOK, OffersSent, [Next]_vars
               PROVE  OffersSent'
    OBVIOUS
  <1>1. ASSUME NEW q, q.code # "PADO", net' \subseteq net \cup {q}
        PROVE  OffersSent'
    BY <1>1 DEF OffersSent
  <1>2. Padi.code # "PADO" /\ (\A c : Padr(c).code # "PADO")
        /\ \A a, s, who : Pads(a, s, who).code # "PADO"
    BY DEF Padi, Padr, Pads
  <1>3. CASE Connect \/ Disconnect \/ Interrupted \/ PADOTimeout \/ PADSTimeout
    BY <1>1, <1>2, <1>3
    DEF Connect, Disconnect, Interrupted, PADOTimeout, PADSTimeout,
        AwaitPADO, AwaitPADS, Leave
  <1>4. ASSUME NEW m \in net, ReceivePADO(m) \/ ReceivePADS(m)
        PROVE  OffersSent'
    <2>1. net' = net \/ \E c : net' = net \cup {Padr(c)}
      BY <1>4, Zenon DEF ReceivePADO, ReceivePADS, AwaitPADS, Leave
    <2>2. QED
      BY <1>1, <1>2, <2>1
  <1>5. ASSUME NEW a \in ACs, Offer(a)
        PROVE  OffersSent'
    <2>1. PICK tags \in OfferTags(a) : net' = net \cup {Pado(a, tags)}
      BY <1>5 DEF Offer
    <2>2. tags \subseteq Tags /\ ("AcName" \in tags \/ "Service" \in tags)
      BY DEF OfferTags, Tags
    <2>3. Pado(a, tags).ac = a /\ Pado(a, tags).tags = tags
      BY DEF Pado, Padi
    <2>4. QED
      BY <2>1, <2>2, <2>3 DEF OffersSent
  <1>6. ASSUME NEW a \in ACs, Grant(a) \/ GrantOther(a)
        PROVE  OffersSent'
    BY <1>1, <1>2, <1>6 DEF Grant, GrantOther, GrantTo
  <1>7. ASSUME NEW a \in ACs, Refuse(a)
        PROVE  OffersSent'
    <2> DEFINE refusal == [Pads(a, NoSid, "us") EXCEPT !.tags = {"Error"}]
    <2>1. refusal.code # "PADO"
      BY DEF Pads, Padi
    <2>2. net' = net \cup {refusal}
      BY <1>7 DEF Refuse
    <2>3. QED
      BY <1>1, <2>1, <2>2
  <1>8. CASE Lose \/ UNCHANGED vars
    BY <1>8 DEF Lose, vars, OffersSent
  <1>9. QED
    BY <1>3, <1>4, <1>5, <1>6, <1>7, <1>8 DEF Next

LEMMA StepKeepsChosen ==
    ASSUME OfferInv, [Next]_vars
    PROVE  OfferInv'
  <1>1. TypeOK' /\ OffersSent'
    BY StepType, StepKeepsSent DEF OfferInv
  <1> SUFFICES FlagsOffered' /\ ChosenByOffers'
    BY <1>1 DEF OfferInv
  <1> USE DEF FlagsOffered, ChosenByOffers, Offered
  <1>2. CASE Connect
    BY <1>2 DEF Connect, AwaitPADO, FreshCriteria
  <1>3. CASE Disconnect \/ Interrupted
    BY <1>3 DEF Disconnect, Interrupted, Leave
  <1>4. ASSUME NEW m \in net, ReceivePADO(m)
        PROVE  FlagsOffered' /\ ChosenByOffers'
    BY <1>4, ReceivePADOOffers
  <1>5. ASSUME NEW m \in net, ReceivePADS(m)
        PROVE  FlagsOffered' /\ ChosenByOffers'
    <2>1. /\ conn'.peerEth = conn.peerEth /\ opt' = opt /\ at = "PADS"
          /\ at' = "exit" \/ (at' = "up" /\ offers' = offers)
      BY <1>5 DEF ReceivePADS, Leave, OfferInv, TypeOK, Conn
    <2>2. QED
      BY <2>1 DEF OfferInv
  <1>6. CASE PADOTimeout
    <2>1. at' = "PADO" => pc' = FreshCriteria /\ opt' = opt
      BY <1>6 DEF PADOTimeout, AwaitPADO, Leave
    <2>2. at' \in {"PADO", "exit", "idle"}
      BY <1>6 DEF PADOTimeout, AwaitPADO, Leave
    <2>3. FreshCriteria.acNameOK = ("ac" \notin opt)
          /\ FreshCriteria.serviceNameOK = ("service" \notin opt)
          /\ FreshCriteria.seenACName = FALSE /\ FreshCriteria.seenServiceName = FALSE
      BY DEF FreshCriteria
    <2>4. CASE at' = "PADO"
      <3>1. pc' = FreshCriteria /\ opt' = opt
        BY <2>1, <2>4
      <3>2. FlagsOffered'
        BY <2>3, <3>1
      <3>3. QED
        BY <2>4, <3>2
    <2>5. QED
      BY <2>2, <2>4
  <1>7. CASE PADSTimeout
    <2>1. /\ conn'.peerEth = conn.peerEth /\ opt' = opt /\ at = "PADS"
          /\ at' = "idle" \/ (at' = "PADS" /\ offers' = offers)
      BY <1>7 DEF PADSTimeout, AwaitPADS, Leave, OfferInv, TypeOK, Conn
    <2>2. QED
      BY <2>1 DEF OfferInv
  <1>8. CASE UNCHANGED <<opt, at, conn, pc, offers>>
    BY <1>8 DEF OfferInv
  <1>9. ASSUME NEW a \in ACs, Offer(a) \/ Grant(a) \/ GrantOther(a) \/ Refuse(a)
        PROVE  UNCHANGED <<opt, at, conn, pc, offers>>
    BY <1>9 DEF Offer, Grant, GrantOther, GrantTo, Refuse
  <1>10. CASE Lose \/ UNCHANGED vars
    BY <1>8, <1>10 DEF Lose, vars
  <1>11. QED
    BY <1>2, <1>3, <1>4, <1>5, <1>6, <1>7, <1>8, <1>9, <1>10 DEF Next

(* The AC that pppd asks and whose session it opens was chosen by the PADOs read
   in the wait it was chosen in: for every set of criteria and every mixture of
   ACs, complete or sloppy. *)
THEOREM ChosenByOffersCorrect == Spec => []ChosenByOffers
  <1>1. Init => OfferInv
    <2> SUFFICES ASSUME Init PROVE OfferInv
      OBVIOUS
    <2>1. TypeOK
      BY StartType
    <2>2. QED
      BY <2>1 DEF Init, OfferInv, OffersSent, FlagsOffered, ChosenByOffers
  <1>2. OfferInv /\ [Next]_vars => OfferInv'
    BY StepKeepsChosen
  <1>3. OfferInv => ChosenByOffers
    BY DEF OfferInv
  <1>4. QED
    BY <1>1, <1>2, <1>3, PTL DEF Spec

(* With at most one criterion, met only by ACs that send both tags, pppd asks
   and opens a session only at an AC that meets it, whatever else is offered
   and in whatever order; the flags that waitForPADO keeps over several PADOs
   do no harm then. *)
THEOREM RightACCorrect ==
    ASSUME \A o \in Options : Unambiguous(o)
    PROVE  Spec => []RightAC
  <1>1. Init => ChoiceInv
    <2> SUFFICES ASSUME Init PROVE ChoiceInv
      OBVIOUS
    <2>1. TypeOK
      BY StartType
    <2>2. QED
      BY <2>1 DEF Init, ChoiceInv, OffersComplete, NotYetMet, OnlyLists, RightAC
  <1>2. ChoiceInv /\ [Next]_vars => ChoiceInv'
    <2>1. ChoiceInv => Unambiguous(opt)
      BY DEF ChoiceInv, TypeOK
    <2>2. QED
      BY <2>1, StepKeepsChoice
  <1>3. ChoiceInv => RightAC
    BY DEF ChoiceInv
  <1>4. QED
    BY <1>1, <1>2, <1>3, PTL DEF Spec

=============================================================================
