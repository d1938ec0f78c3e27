---------------------------- MODULE MCPppSession ----------------------------
(* Values of the constants of PppSession for TLC. *)
EXTENDS PppSession, TLC

CONSTANTS
    addr,    \* the option value of IPCP
    Client,  \* the authentication protocols the peer may ask of us
    Server   \* what we ask of the peer: one protocol, or NoOpt

MCUnits == {lcp, ipcp}
MCValues == {pap, chap, addr}
MCFlags == lcp :> {} @@ ipcp :> {}
MCWanted == lcp :> Server @@ ipcp :> NoOpt
MCAccepts == lcp :> Client @@ ipcp :> {addr}
MCRefuses == lcp :> {} @@ ipcp :> {}
MCHint == lcp :> chap @@ ipcp :> addr
MCAdopts == lcp :> {pap} @@ ipcp :> {}
MCMaxConfReq == lcp :> 1 @@ ipcp :> 1
MCMaxTermReq == lcp :> 1 @@ ipcp :> 1

Lcp(c, v) == [proto |-> "lcp", code |-> c, val |-> v, ok |-> TRUE]
Ipcp(c, v, ok) == [proto |-> "ipcp", code |-> c, val |-> v, ok |-> ok]
Auth(p, c, ok) == [proto |-> p, code |-> c, val |-> NoOpt, ok |-> ok]

LinkEvents ==
    {Auth("eof", "eof", TRUE), Lcp("ConfAck", Server), Lcp("TermReq", NoOpt),
     Lcp("TermAck", NoOpt), Lcp("EchoRep", NoOpt), Lcp("ProtRej", ipcp), Lcp("ProtRej", lcp)}
      \cup {Lcp("ConfReq", v) : v \in Client \cup {NoOpt}}
NetEvents ==
    {Ipcp("ConfReq", addr, TRUE), Ipcp("ConfAck", NoOpt, TRUE),
     Ipcp("ConfAck", NoOpt, FALSE), Ipcp("TermReq", NoOpt, TRUE)}
PapWithEvents == {Auth("pap", "Ack", TRUE), Auth("pap", "Nak", FALSE), Lcp("ProtRej", pap)}
ChapWithEvents == {Auth("chap", "Status", ok) : ok \in BOOLEAN} \cup {Lcp("ProtRej", chap)}
PapPeerEvents == {Auth("pap", "Req", ok) : ok \in BOOLEAN} \cup {Lcp("ProtRej", pap)}
ChapPeerEvents == {Auth("chap", "Response", ok) : ok \in BOOLEAN} \cup {Lcp("ProtRej", chap)}

MCPeerEvents ==
    LinkEvents \cup NetEvents
      \cup (IF pap \in Client THEN PapWithEvents ELSE {})
      \cup (IF chap \in Client THEN ChapWithEvents ELSE {})
      \cup (IF Server = pap THEN PapPeerEvents ELSE {})
      \cup (IF Server = chap THEN ChapPeerEvents \cup {Lcp("ConfNak", pap), Lcp("ConfAck", pap)} \cup PapPeerEvents ELSE {})
=============================================================================
