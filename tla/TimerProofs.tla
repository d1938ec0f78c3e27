----------------------------- MODULE TimerProofs -----------------------------
(***************************************************************************)
(* Proofs about PppSession, for every policy, limit, peer and order of the *)
(* events: the callout list and the scripts follow the protocols; the      *)
(* interface follows the phase; an authentication that is waited for is    *)
(* pending; and nothing of a session outlives its device.                  *)
(*                                                                         *)
(* CalloutInv and ScriptsInv hold between the steps of main() and fail in  *)
(* the middle of one: calltimeout takes the entry off before it calls the  *)
(* function, upap_rauthreq takes its entry off after it has answered, and  *)
(* ip-up starts after IPCP has opened.  Counts is what holds throughout,   *)
(* with the entries of PAP counted from the place where it is evaluated.   *)
(*                                                                         *)
(* For the rest, Slate is what every function keeps, and Held is the       *)
(* inductive invariant of the specification that follows from it; both     *)
(* take as a parameter what is known of the past of the run.               *)
(***************************************************************************)
EXTENDS SessionProofs

-----------------------------------------------------------------------------
(* What holds of the entries and of the scripts inside a step. *)

\* auth-up and auth-down, ip-up and ip-down: the one that ran last
AuthTold(a) == ~a.authPid => a.authScript = a.authState
IpTold(a) == ~a.ipPid => (a.ipScript = "up" <=> a.ipcp.state = "OPENED")

\* The peer is not timed.
Off(a) == ~a.echo /\ "PENDING" \notin a.chapS /\ a.papS # "LISTEN"

\* m counts the upap_reqtimeout entries of a PAP that listens: 1 between the
\* steps, 0 in upap_reqtimeout, and 2 in upap_rauthreq, which has one to cancel.
Less(m) == IF m = 0 THEN 0 ELSE m - 1
Counts(a, m) ==
    /\ a.timers["echo"] = (IF a.echo THEN 1 ELSE 0)
    /\ a.timers["chap"] = (IF "PENDING" \in a.chapS THEN 1 ELSE 0)
    /\ a.timers["papReq"] = (IF a.papS = "LISTEN" THEN m ELSE Less(m))
    /\ a.timers["pap"] >= (IF a.papC = "AUTHREQ" THEN 1 ELSE 0)
    /\ a.timers["idle"] <= a.npUp /\ a.npUp = (IF a.ipcpUp THEN 1 ELSE 0)
    /\ a.papS # "PENDING" /\ AuthTold(a)

Tidy(a, m) == Counts(a, m) /\ IpTold(a) /\ (a.lcp.state # "OPENED" => Off(a))

\* The fields these speak of, but for the callout list, are the same.
SameFields(a, b) ==
    /\ b.echo = a.echo /\ b.papC = a.papC /\ b.papS = a.papS
    /\ "PENDING" \in b.chapS <=> "PENDING" \in a.chapS
    /\ b.npUp = a.npUp /\ b.ipcpUp = a.ipcpUp
    /\ b.authState = a.authState /\ b.authScript = a.authScript /\ b.authPid = a.authPid
    /\ b.ipScript = a.ipScript /\ b.ipPid = a.ipPid
    /\ b.ipcp.state = a.ipcp.state

Same(a, b) == SameFields(a, b) /\ b.timers = a.timers /\ b.lcp.state = a.lcp.state

LEMMA SameKeeps ==
    ASSUME NEW a, NEW b, Same(a, b), NEW m
    PROVE  /\ Counts(a, m) => Counts(b, m)
           /\ IpTold(a) => IpTold(b)
           /\ Tidy(a, m) => Tidy(b, m)
           /\ Off(a) => Off(b)
  BY DEF Same, SameFields, Counts, Tidy, IpTold, AuthTold, Off

LEMMA SameTwice ==
    ASSUME NEW a, NEW b, NEW c, Same(a, b), Same(b, c)
    PROVE  Same(a, c)
  BY DEF Same, SameFields

\* One entry more, or one less
LEMMA Ticks ==
    ASSUME NEW a \in Session, NEW timer \in Timers
    PROVE  /\ LET b == Arm(a, timer)
              IN  /\ b \in Session /\ SameFields(a, b) /\ b.lcp = a.lcp /\ b.ipcp = a.ipcp
                  /\ b.chapS = a.chapS
                  /\ b.timers[timer] = a.timers[timer] + 1
                  /\ \A u \in Timers \ {timer} : b.timers[u] = a.timers[u]
           /\ LET b == Cancel(a, timer)
              IN  /\ b \in Session /\ SameFields(a, b) /\ b.lcp = a.lcp /\ b.ipcp = a.ipcp
                  /\ b.chapS = a.chapS
                  /\ b.timers[timer] = Less(a.timers[timer])
                  /\ \A u \in Timers \ {timer} : b.timers[u] = a.timers[u]
  <1> DEFINE more == [a.timers EXCEPT ![timer] = @ + 1]
             less == [a.timers EXCEPT ![timer] = IF @ = 0 THEN 0 ELSE @ - 1]
  <1>1. Arm(a, timer) = [a EXCEPT !.timers = more] /\ Cancel(a, timer) = [a EXCEPT !.timers = less]
    BY DEF Arm, Cancel
  <1>2. Arm(a, timer) \in Session /\ Cancel(a, timer) \in Session
    BY TimerAside, AsideSession
  <1>3. /\ more[timer] = a.timers[timer] + 1 /\ less[timer] = Less(a.timers[timer])
        /\ \A u \in Timers \ {timer} : more[u] = a.timers[u] /\ less[u] = a.timers[u]
    BY SessionFields DEF Less
  <1> HIDE DEF more, less
  <1>4. ASSUME NEW q
        PROVE  LET b == [a EXCEPT !.timers = q]
               IN  /\ SameFields(a, b) /\ b.timers = q /\ b.lcp = a.lcp /\ b.ipcp = a.ipcp
                   /\ b.chapS = a.chapS
    BY DEF Session, SameFields
  <1>5. QED
    BY <1>1, <1>2, <1>3, <1>4

\* The fields nothing here depends on
LEMMA FieldSame ==
    ASSUME NEW a \in Session, NEW x
    PROVE  /\ Same(a, [a EXCEPT !.papXmits = x]) /\ Same(a, [a EXCEPT !.chapXmits = x])
           /\ Same(a, [a EXCEPT !.echos = x]) /\ Same(a, [a EXCEPT !.unsuccess = x])
           /\ Same(a, [a EXCEPT !.chapC = x]) /\ Same(a, [a EXCEPT !.delayed = x])
           /\ Same(a, [a EXCEPT !.fd = x]) /\ Same(a, [a EXCEPT !.hungup = x])
           /\ Same(a, [a EXCEPT !.slow = x]) /\ Same(a, [a EXCEPT !.needHoldoff = x])
           /\ Same(a, [a EXCEPT !.ipcpOpen = x]) /\ Same(a, [a EXCEPT !.npOpen = x])
           /\ Same(a, [a EXCEPT !.pending = x]) /\ Same(a, [a EXCEPT !.success = x])
           /\ Same(a, Phase(a, x))
           /\ ("PENDING" \in x <=> "PENDING" \in a.chapS) => Same(a, [a EXCEPT !.chapS = x])
  <1>1. /\ Same(a, [a EXCEPT !.papXmits = x]) /\ Same(a, [a EXCEPT !.chapXmits = x])
        /\ Same(a, [a EXCEPT !.echos = x]) /\ Same(a, [a EXCEPT !.unsuccess = x])
    BY DEF Session, Same, SameFields
  <1>2. /\ Same(a, [a EXCEPT !.chapC = x]) /\ Same(a, [a EXCEPT !.delayed = x])
        /\ Same(a, [a EXCEPT !.fd = x]) /\ Same(a, [a EXCEPT !.hungup = x])
    BY DEF Session, Same, SameFields
  <1>3. /\ Same(a, [a EXCEPT !.slow = x]) /\ Same(a, [a EXCEPT !.needHoldoff = x])
        /\ Same(a, [a EXCEPT !.ipcpOpen = x]) /\ Same(a, [a EXCEPT !.npOpen = x])
    BY DEF Session, Same, SameFields
  <1>4. /\ Same(a, [a EXCEPT !.pending = x]) /\ Same(a, [a EXCEPT !.success = x])
        /\ Same(a, Phase(a, x))
    BY DEF Session, Same, SameFields, Phase
  <1>5. ("PENDING" \in x <=> "PENDING" \in a.chapS) => Same(a, [a EXCEPT !.chapS = x])
    BY DEF Session, Same, SameFields
  <1>6. QED
    BY <1>1, <1>2, <1>3, <1>4, <1>5

-----------------------------------------------------------------------------
(* Going down. *)

LEMMA PapLowerdownCounts ==
    ASSUME NEW a \in Session, NEW m \in Nat, Counts(a, m)
    PROVE  LET b == PapLowerdown(a)
           IN  /\ Counts(b, m) /\ b.papS = "INITIAL" /\ (IpTold(a) => IpTold(b))
               /\ b.echo = a.echo /\ b.chapS = a.chapS /\ b.lcp = a.lcp
  <1> DEFINE t == IF a.papC = "AUTHREQ" THEN Cancel(a, "pap") ELSE a
             u == IF a.papS = "LISTEN" THEN Cancel(t, "papReq") ELSE t
             b == [u EXCEPT !.papC = "INITIAL", !.papS = "INITIAL"]
  <1>1. "pap" \in Timers /\ "papReq" \in Timers
    BY DEF Timers
  <1>2. /\ t \in Session /\ SameFields(a, t) /\ t.lcp = a.lcp /\ t.ipcp = a.ipcp
        /\ t.chapS = a.chapS
        /\ \A x \in Timers \ {"pap"} : t.timers[x] = a.timers[x]
    BY <1>1, Ticks DEF SameFields
  <1> HIDE DEF t
  <1>3. /\ u \in Session /\ SameFields(t, u) /\ u.lcp = t.lcp /\ u.ipcp = t.ipcp
        /\ u.chapS = t.chapS
        /\ u.timers["papReq"] = IF a.papS = "LISTEN" THEN Less(t.timers["papReq"])
                                                     ELSE t.timers["papReq"]
        /\ \A x \in Timers \ {"papReq"} : u.timers[x] = t.timers[x]
    <2>1. CASE a.papS = "LISTEN"
      BY <1>1, <1>2, <2>1, Ticks
    <2>2. CASE a.papS # "LISTEN"
      BY <1>2, <2>2 DEF SameFields
    <2>3. QED
      BY <2>1, <2>2
  <1>4. PapLowerdown(a) = b
    BY DEF PapLowerdown, t, u
  <1> HIDE DEF u
  <1>5. /\ b.papC = "INITIAL" /\ b.papS = "INITIAL" /\ b.timers = u.timers
        /\ b.lcp = u.lcp /\ b.echo = u.echo /\ b.chapS = u.chapS
        /\ b.npUp = u.npUp /\ b.ipcpUp = u.ipcpUp
        /\ b.authState = u.authState /\ b.authScript = u.authScript /\ b.authPid = u.authPid
        /\ b.ipScript = u.ipScript /\ b.ipPid = u.ipPid /\ b.ipcp = u.ipcp
    BY <1>3 DEF Session
  <1>6. u.timers \in [Timers -> Nat]
    BY <1>3, SessionFields
  <1> HIDE DEF b
  <1>7. Counts(b, m)
    BY <1>2, <1>3, <1>5, <1>6 DEF Counts, SameFields, AuthTold, Timers, Less
  <1>8. QED
    BY <1>2, <1>3, <1>4, <1>5, <1>7 DEF SameFields, IpTold

LEMMA ChapLowerdownCounts ==
    ASSUME NEW a \in Session, NEW m \in Nat, Counts(a, m)
    PROVE  LET b == ChapLowerdown(a)
           IN  /\ Counts(b, m) /\ "PENDING" \notin b.chapS /\ (IpTold(a) => IpTold(b))
               /\ b.echo = a.echo /\ b.papS = a.papS /\ b.lcp = a.lcp
  <1> DEFINE t == IF "PENDING" \in a.chapS THEN Cancel(a, "chap") ELSE a
             b == [t EXCEPT !.chapC = {}, !.chapS = {}]
  <1>1. "chap" \in Timers
    BY DEF Timers
  <1>2. /\ t \in Session /\ SameFields(a, t) /\ t.lcp = a.lcp /\ t.ipcp = a.ipcp
        /\ t.timers["chap"] = IF "PENDING" \in a.chapS THEN Less(a.timers["chap"])
                                                       ELSE a.timers["chap"]
        /\ \A x \in Timers \ {"chap"} : t.timers[x] = a.timers[x]
    BY <1>1, Ticks DEF SameFields
  <1>3. ChapLowerdown(a) = b
    BY DEF ChapLowerdown
  <1> HIDE DEF t
  <1>4. /\ b.papC = t.papC /\ b.papS = t.papS /\ b.timers = t.timers
        /\ b.lcp = t.lcp /\ b.echo = t.echo /\ b.chapS = {}
        /\ b.npUp = t.npUp /\ b.ipcpUp = t.ipcpUp
        /\ b.authState = t.authState /\ b.authScript = t.authScript /\ b.authPid = t.authPid
        /\ b.ipScript = t.ipScript /\ b.ipPid = t.ipPid /\ b.ipcp = t.ipcp
    BY <1>2 DEF Session
  <1> HIDE DEF b
  <1>5. Counts(b, m)
    BY <1>2, <1>4 DEF Counts, SameFields, AuthTold, Timers, Less
  <1>6. QED
    BY <1>2, <1>3, <1>4, <1>5 DEF SameFields, IpTold
\* What takes IPCP down or up leaves these alone.
Alone(a, b) == b.echo = a.echo /\ b.chapS = a.chapS /\ b.papS = a.papS /\ b.lcp = a.lcp

LEMMA AloneTwice ==
    ASSUME NEW a, NEW b, NEW c, Alone(a, b), Alone(b, c)
    PROVE  Alone(a, c) /\ (Off(a) => Off(c))
  BY DEF Alone, Off

LEMMA NpDownCounts ==
    ASSUME NEW a \in Session, NEW m \in Nat, Counts(a, m), a.ipcpUp
    PROVE  LET b == NpDown([a EXCEPT !.ipcpUp = FALSE])
           IN  /\ b \in Session /\ Counts(b, m) /\ Alone(a, b) /\ b.ipcp = a.ipcp
               /\ b.ipScript = a.ipScript /\ b.ipPid = a.ipPid
  <1> DEFINE u == [a EXCEPT !.ipcpUp = FALSE]
             v == [u EXCEPT !.npUp = @ - 1]
             w == Cancel(v, "idle")
             b == Phase(w, "NETWORK")
  <1>1. a.npUp = 1 /\ a.timers \in [Timers -> Nat] /\ "idle" \in Timers
    BY SessionFields DEF Counts, Timers
  <1>2. u \in Session /\ u.npUp = 1
    BY <1>1 DEF Session
  <1>3. /\ Alone(a, u) /\ u.ipcp = a.ipcp /\ u.timers = a.timers /\ ~u.ipcpUp
        /\ u.papC = a.papC /\ u.ipScript = a.ipScript /\ u.ipPid = a.ipPid
        /\ u.authState = a.authState /\ u.authScript = a.authScript /\ u.authPid = a.authPid
    BY DEF Session, Alone
  <1> HIDE DEF u
  <1>4. v \in Session /\ v.npUp = 0
    <2>1. u.npUp - 1 = 0 /\ 0 \in Int
      BY <1>2
    <2>2. v = [u EXCEPT !.npUp = 0]
      BY <2>1
    <2>3. QED
      BY <1>2, <2>2 DEF Session
  <1>5. /\ Alone(u, v) /\ v.ipcp = u.ipcp /\ v.timers = u.timers /\ ~v.ipcpUp
        /\ v.papC = u.papC /\ v.ipScript = u.ipScript /\ v.ipPid = u.ipPid
        /\ v.authState = u.authState /\ v.authScript = u.authScript /\ v.authPid = u.authPid
    BY <1>2, <1>3 DEF Session, Alone
  <1>6. NpDown(u) = b
    BY <1>4 DEF NpDown
  <1> HIDE DEF v
  <1>7. /\ w \in Session /\ SameFields(v, w) /\ w.lcp = v.lcp /\ w.ipcp = v.ipcp
        /\ w.chapS = v.chapS
        /\ w.timers["idle"] = Less(v.timers["idle"])
        /\ \A x \in Timers \ {"idle"} : w.timers[x] = v.timers[x]
    BY <1>1, <1>4, Ticks
  <1> HIDE DEF w
  <1>8. Same(w, b)
    BY <1>7, FieldSame
  <1>9. b \in Session /\ b.lcp = w.lcp /\ b.ipcp = w.ipcp /\ b.chapS = w.chapS
    BY <1>7 DEF Session, Phase, Phases
  <1>10. a.timers["idle"] <= 1 /\ a.timers["idle"] \in Nat
    BY <1>1 DEF Counts
  <1>11. Counts(w, m)
    BY <1>3, <1>4, <1>5, <1>7, <1>10 DEF Counts, SameFields, Alone, AuthTold, Timers, Less
  <1> HIDE DEF b
  <1>12. Counts(b, m)
    BY <1>8, <1>11, SameKeeps
  <1>13. QED
    BY <1>3, <1>5, <1>6, <1>7, <1>8, <1>9, <1>12 DEF Same, SameFields, Alone, u

\* After ipcp_down no script runs, or ip-down was the last one.
LEMMA IpcpDownCounts ==
    ASSUME NEW a \in Session, NEW m \in Nat, Counts(a, m)
    PROVE  LET b == IpcpDown(a)
           IN  /\ Counts(b, m) /\ Alone(a, b)
               /\ ~b.ipPid => b.ipScript = "down"
  <1> DEFINE y == IF a.ipcpUp THEN NpDown([a EXCEPT !.ipcpUp = FALSE]) ELSE a
             z == [y EXCEPT !.ipScript = "down", !.ipPid = TRUE]
  <1>1. y \in Session /\ Counts(y, m) /\ Alone(a, y)
    BY NpDownCounts DEF Alone
  <1>2. IpcpDown(a) = IF y.ipScript = "up" /\ ~y.ipPid THEN z ELSE y
    BY DEF IpcpDown, IpDownScript
  <1> HIDE DEF y
  <1>3. /\ Alone(y, z) /\ z.ipPid /\ z.timers = y.timers /\ z.papC = y.papC
        /\ z.npUp = y.npUp /\ z.ipcpUp = y.ipcpUp
        /\ z.authState = y.authState /\ z.authScript = y.authScript /\ z.authPid = y.authPid
    BY <1>1 DEF Session, Alone
  <1>4. y.ipScript \in {"up", "down"} /\ y.ipPid \in BOOLEAN
    BY <1>1, SessionFields
  <1> HIDE DEF z
  <1>5. Counts(z, m)
    BY <1>1, <1>3 DEF Counts, Alone, AuthTold
  <1>6. Alone(a, z)
    BY <1>1, <1>3, AloneTwice
  <1>7. QED
    BY <1>1, <1>2, <1>3, <1>4, <1>5, <1>6

\* ip-up waits for IPCP to come up: it has not run or is still to run.
IpWaits(a) == ~a.ipPid => a.ipScript = "down"

LEMMA IpcpDropCounts ==
    ASSUME NEW a, Linked(a), NEW f, Moves(a.ipcp, f),
           NEW m \in Nat, Counts(a, m), IpTold(a) \/ IpWaits(a)
    PROVE  LET b == IpcpDrop(a, f)
           IN  /\ Counts(b, m) /\ Alone(a, b)
               /\ f.state # "OPENED" => IpTold(b)
               /\ a.ipcp.state = "OPENED" /\ IpTold(a) => IpTold(b)
               /\ a.ipcp.state # "OPENED" => IpWaits(b)
  <1> DEFINE t == [a EXCEPT !.ipcp = Silent(f)]
  <1>1. a \in Session /\ Steady(Silent(f)) /\ Silent(f).state = f.state
    BY SilentSteady DEF Linked, Moves
  <1>2. t \in Session
    BY <1>1 DEF Session, Steady
  <1>3. /\ t.ipcp = Silent(f) /\ Alone(a, t) /\ t.timers = a.timers /\ t.papC = a.papC
        /\ t.npUp = a.npUp /\ t.ipcpUp = a.ipcpUp
        /\ t.authState = a.authState /\ t.authScript = a.authScript /\ t.authPid = a.authPid
        /\ t.ipScript = a.ipScript /\ t.ipPid = a.ipPid
    BY <1>1 DEF Session, Alone
  <1>4. Counts(t, m)
    BY <1>3 DEF Counts, Alone, AuthTold
  <1>5. IpcpDrop(a, f) = IF "down" \in Calls(f) THEN IpcpDown(t) ELSE t
    BY MadeCalls DEF IpcpDrop
  <1>6. a.ipScript \in {"up", "down"}
    BY <1>1, SessionFields
  <1> HIDE DEF t
  <1>7. "down" \in Calls(f) <=> a.ipcp.state = "OPENED" /\ f.state # "OPENED"
    BY DEF Moves, Candid
  <1>8. CASE "down" \in Calls(f)
    <2> DEFINE b == IpcpDown(t)
    <2>1. Counts(b, m) /\ Alone(t, b) /\ IpWaits(b) /\ b.ipcp.state = f.state
      BY <1>1, <1>2, <1>3, <1>4, IpcpDownCounts, IpcpDownEffect DEF IpWaits
    <2>2. b.ipScript \in {"up", "down"}
      BY <1>2, IpcpDownEffect, SessionFields DEF Lowered
    <2> HIDE DEF b
    <2>3. IpTold(b) /\ Alone(a, b)
      BY <1>3, <1>7, <1>8, <2>1, <2>2, AloneTwice DEF IpTold, IpWaits
    <2>4. QED
      BY <1>5, <1>7, <1>8, <2>1, <2>3 DEF b
  <1>9. CASE "down" \notin Calls(f)
    BY <1>1, <1>3, <1>4, <1>5, <1>6, <1>7, <1>9 DEF IpTold, IpWaits
  <1>10. QED
    BY <1>8, <1>9

LEMMA UpperLayersDownCounts ==
    ASSUME NEW a, Linked(a), NEW m \in Nat, Counts(a, m), IpTold(a)
    PROVE  LET b == UpperLayersDown(a)
           IN  /\ Counts(b, m) /\ IpTold(b) /\ b.echo = a.echo
               /\ "PENDING" \notin b.chapS /\ b.papS # "LISTEN"
  <1> DEFINE p == PapLowerdown(a)
             t == ChapLowerdown(p)
             u == IpcpLowerdown(t)
             v == IpcpClose(u)
             w == [v EXCEPT !.npOpen = 0]
             b == [w EXCEPT !.npUp = 0]
  <1>1. Linked(p) /\ p \in Session
    BY PapLowerdownAside, AsideKeeps, AsideSession DEF Linked
  <1>2. Counts(p, m) /\ IpTold(p) /\ p.papS = "INITIAL" /\ p.echo = a.echo
    BY PapLowerdownCounts DEF Linked
  <1> HIDE DEF p
  <1>3. Linked(t)
    BY <1>1, ChapLowerdownAside, AsideKeeps
  <1>4. /\ Counts(t, m) /\ IpTold(t) /\ "PENDING" \notin t.chapS
        /\ t.papS = "INITIAL" /\ t.echo = a.echo
    BY <1>1, <1>2, ChapLowerdownCounts
  <1>5. UpperLayersDown(a) = b
    BY DEF UpperLayersDown, p
  <1> HIDE DEF t
  <1>6. Linked(u) /\ Counts(u, m) /\ IpTold(u) /\ Alone(t, u)
    <2>1. Moves(t.ipcp, Lowerdown(t.ipcp)) /\ Lowerdown(t.ipcp).state # "OPENED"
      BY <1>3, FsmMoves DEF Linked
    <2>2. QED
      BY <1>3, <1>4, <2>1, IpcpDropEffect, IpcpDropCounts DEF IpcpLowerdown
  <1> HIDE DEF u
  <1>7. /\ Linked(v) /\ Counts(v, m) /\ IpTold(v) /\ Alone(u, v)
        /\ v.ipcp.state # "OPENED"
    <2>1. Moves(u.ipcp, Close(u.ipcp)) /\ Close(u.ipcp).state # "OPENED"
      BY <1>6, FsmMoves DEF Linked
    <2>2. QED
      BY <1>6, <2>1, IpcpDropEffect, IpcpDropCounts DEF IpcpClose
  <1> HIDE DEF v
  <1>8. v \in Session /\ v.npUp = 0
    BY <1>7, SessionFields DEF Linked, Counts
  <1>9. Same(v, w) /\ w \in Session /\ w.npUp = 0 /\ w.chapS = v.chapS
    BY <1>8 DEF Session, Same, SameFields
  <1> HIDE DEF w
  <1>10. Same(w, b) /\ b.chapS = w.chapS
    BY <1>9 DEF Session, Same, SameFields
  <1> HIDE DEF b
  <1>11. Same(v, b)
    BY <1>9, <1>10, SameTwice
  <1>12. QED
    BY <1>4, <1>5, <1>6, <1>7, <1>11, SameKeeps DEF Alone, Same, SameFields

LEMMA EchoLowerdownCounts ==
    ASSUME NEW a \in Session, NEW m \in Nat, Counts(a, m)
    PROVE  LET b == EchoLowerdown(a)
           IN  Counts(b, m) /\ ~b.echo /\ (IpTold(a) => IpTold(b))
  <1> DEFINE t == Cancel(a, "echo")
             b == [t EXCEPT !.echo = FALSE]
  <1>1. "echo" \in Timers /\ a.echo \in BOOLEAN
    BY SessionFields DEF Timers
  <1>2. EchoLowerdown(a) = IF a.echo THEN b ELSE a
    BY DEF EchoLowerdown
  <1>3. /\ t \in Session /\ SameFields(a, t) /\ t.ipcp = a.ipcp
        /\ t.timers["echo"] = Less(a.timers["echo"])
        /\ \A x \in Timers \ {"echo"} : t.timers[x] = a.timers[x]
    BY <1>1, Ticks
  <1> HIDE DEF t
  <1>4. /\ b.papC = t.papC /\ b.papS = t.papS /\ b.timers = t.timers
        /\ b.echo = FALSE /\ b.chapS = t.chapS
        /\ b.npUp = t.npUp /\ b.ipcpUp = t.ipcpUp
        /\ b.authState = t.authState /\ b.authScript = t.authScript /\ b.authPid = t.authPid
        /\ b.ipScript = t.ipScript /\ b.ipPid = t.ipPid /\ b.ipcp = t.ipcp
    BY <1>3 DEF Session
  <1> HIDE DEF b
  <1>5. a.echo => Counts(b, m)
    BY <1>3, <1>4 DEF Counts, SameFields, AuthTold, Timers, Less
  <1>6. IpTold(a) => IpTold(b)
    BY <1>3, <1>4 DEF IpTold, SameFields
  <1>7. QED
    BY <1>1, <1>2, <1>4, <1>5, <1>6

LEMMA LcpDownCounts ==
    ASSUME NEW a, Linked(a), NEW m \in Nat, Counts(a, m), IpTold(a)
    PROVE  LET b == LcpDown(a) IN Counts(b, m) /\ IpTold(b) /\ Off(b)
  <1> DEFINE e == EchoLowerdown(a)
             down == [e EXCEPT !.authState = "down"]
             script == [down EXCEPT !.authScript = "down", !.authPid = TRUE]
             d == IF e.authState = "up" THEN AuthDownScript(down) ELSE e
             t == UpperLayersDown(d)
             u == IF t.phase = "DEAD" THEN t ELSE Phase(t, "ESTABLISH")
  <1>1. Linked(e) /\ Aside(a, e)
    BY EchoLowerdownAside, AsideKeeps DEF Linked
  <1>2. Counts(e, m) /\ IpTold(e) /\ ~e.echo
    BY EchoLowerdownCounts DEF Linked
  <1>3. LcpDown(a) = [u EXCEPT !.success = {}]
    BY DEF LcpDown, LinkDown
  <1> HIDE DEF e
  <1>4. e \in Session
    BY <1>1 DEF Linked
  <1>5. Aside(e, down) /\ down \in Session
    BY <1>4, FieldAside, AsideSession
  <1>6. /\ Alone(e, down) /\ down.timers = e.timers /\ down.papC = e.papC
        /\ down.npUp = e.npUp /\ down.ipcpUp = e.ipcpUp
        /\ down.authState = "down" /\ down.authScript = e.authScript /\ down.authPid = e.authPid
        /\ down.ipScript = e.ipScript /\ down.ipPid = e.ipPid /\ down.ipcp = e.ipcp
    BY <1>4 DEF Session, Alone
  <1> HIDE DEF down
  <1>7. /\ Alone(down, script) /\ script.timers = down.timers /\ script.papC = down.papC
        /\ script.npUp = down.npUp /\ script.ipcpUp = down.ipcpUp
        /\ script.authState = "down" /\ script.authPid
        /\ script.ipScript = down.ipScript /\ script.ipPid = down.ipPid
        /\ script.ipcp = down.ipcp
    BY <1>5, <1>6 DEF Session, Alone
  <1>8. AuthDownScript(down) = IF down.authScript = "up" /\ ~down.authPid THEN script ELSE down
    BY DEF AuthDownScript
  <1>9. down.authScript \in {"up", "down"} /\ down.authPid \in BOOLEAN
    BY <1>5, SessionFields
  <1>10. Linked(d)
    BY <1>1, <1>5, ScriptsAside, AsideKeeps
  <1> HIDE DEF script
  <1>11. Counts(d, m) /\ IpTold(d) /\ ~d.echo
    BY <1>2, <1>6, <1>7, <1>8, <1>9 DEF Counts, IpTold, AuthTold, Alone
  <1> HIDE DEF d
  <1>12. Linked(t) /\ Counts(t, m) /\ IpTold(t) /\ Off(t)
    BY <1>10, <1>11, UpperLayersDownEffect, UpperLayersDownCounts DEF Off
  <1> HIDE DEF t
  <1>13. "ESTABLISH" \in Phases /\ t \in Session
    BY <1>12 DEF Phases, Linked
  <1>14. Same(t, Phase(t, "ESTABLISH"))
    BY <1>13, FieldSame
  <1>15. Linked(u) /\ Counts(u, m) /\ IpTold(u) /\ Off(u)
    BY <1>12, <1>13, <1>14, PhaseEffect, SameKeeps
  <1> HIDE DEF u
  <1>16. Same(u, [u EXCEPT !.success = {}])
    BY <1>15, FieldSame DEF Linked
  <1>17. QED
    BY <1>3, <1>15, <1>16, SameKeeps

LEMMA LcpFallTidy ==
    ASSUME NEW a, Linked(a), NEW f, Moves(a.lcp, f), NEW m \in Nat, Tidy(a, m)
    PROVE  LET b == LcpFall(a, f)
           IN  Tidy(b, m) /\ (a.lcp.state # "OPENED" \/ f.state # "OPENED" => Off(b))
  <1> DEFINE t == [a EXCEPT !.lcp = Silent(f)]
  <1>1. a \in Session /\ Steady(Silent(f)) /\ Silent(f).state = f.state
    BY SilentSteady DEF Linked, Moves
  <1>2. Silent(f) \in Fsm
    BY <1>1 DEF Steady
  <1>3. t \in Session
    BY <1>1, <1>2 DEF Session
  <1>4. SameFields(a, t) /\ t.timers = a.timers /\ t.ipcp = a.ipcp /\ t.lcp = Silent(f)
    BY <1>1 DEF Session, SameFields
  <1>5. LcpFall(a, f) = IF "down" \in Calls(f) THEN LcpDown(t) ELSE t
    BY MadeCalls DEF LcpFall
  <1> HIDE DEF t
  <1>6. Counts(t, m) /\ IpTold(t) /\ (Off(a) => Off(t))
    BY <1>4 DEF SameFields, Tidy, Counts, AuthTold, IpTold, Off
  <1>7. Linked(t)
    BY <1>1, <1>3, <1>4 DEF Linked, SameFields
  <1>8. "down" \in Calls(f) <=> a.lcp.state = "OPENED" /\ f.state # "OPENED"
    BY DEF Moves, Candid
  <1>9. CASE "down" \in Calls(f)
    BY <1>5, <1>6, <1>7, <1>8, <1>9, LcpDownCounts DEF Tidy
  <1>10. CASE "down" \notin Calls(f)
    BY <1>1, <1>4, <1>5, <1>6, <1>8, <1>10 DEF Tidy
  <1>11. QED
    BY <1>9, <1>10

LEMMA LinkTerminatedTidy ==
    ASSUME NEW a, Linked(a), NEW m \in Nat, Tidy(a, m)
    PROVE  Tidy(LinkTerminated(a), m) /\ Tidy(LcpLowerdown(a), m)
  <1>1. ASSUME NEW b, Linked(b), Tidy(b, m)
        PROVE  Tidy(LcpLowerdown(b), m) /\ LcpLowerdown(b) \in Session
    <2>1. Same(b, [b EXCEPT !.delayed = FALSE]) /\ Aside(b, [b EXCEPT !.delayed = FALSE])
      BY <1>1, FieldSame, FieldAside DEF Linked
    <2>2. Moves(b.lcp, Lowerdown(b.lcp))
      BY <1>1, FsmMoves DEF Linked
    <2>3. Tidy(LcpFall(b, Lowerdown(b.lcp)), m) /\ Linked(LcpFall(b, Lowerdown(b.lcp)))
      BY <1>1, <2>2, LcpFallTidy, LcpFallEffect
    <2>4. QED
      BY <1>1, <2>1, <2>3, SameKeeps, AsideSession DEF LcpLowerdown, Linked
  <1> DEFINE t == [a EXCEPT !.fd = FALSE]
             u == IF a.hungup THEN t ELSE LcpLowerdown(t)
  <1>2. Same(a, t) /\ Aside(a, t)
    BY FieldSame, FieldAside DEF Linked
  <1>3. Linked(t) /\ Tidy(t, m) /\ t \in Session
    BY <1>2, SameKeeps, AsideKeeps, AsideSession
  <1>4. LinkTerminated(a) = IF a.phase = "DEAD" THEN a ELSE Phase(u, "DEAD")
    BY DEF LinkTerminated
  <1> HIDE DEF t
  <1>5. u \in Session /\ Tidy(u, m)
    BY <1>1, <1>3
  <1> HIDE DEF u
  <1>6. Same(u, Phase(u, "DEAD"))
    BY <1>5, FieldSame
  <1>7. QED
    BY <1>1, <1>4, <1>5, <1>6, SameKeeps

LEMMA LcpFinishTidy ==
    ASSUME NEW a, Linked(a), NEW f, NEW m \in Nat, Tidy(a, m)
    PROVE  Tidy(LcpFinish(a, f), m)
  BY LinkTerminatedTidy DEF LcpFinish

LEMMA LcpCloseTidy ==
    ASSUME NEW a, Loose(a), NEW m \in Nat, Tidy(a, m)
    PROVE  Tidy(LcpClose(a), m) /\ Off(LcpClose(a))
  <1> DEFINE t == IF a.phase = "DEAD" THEN a ELSE Phase(a, "TERMINATE")
             f == Close(a.lcp)
             b == LcpFall(t, f)
             c == [t EXCEPT !.lcp.state = "CLOSED"]
             passive == /\ a.lcp.state = "STOPPED"
                        /\ Has(a.lcp, "passive") \/ Has(a.lcp, "silent")
  <1>1. Linked(a) /\ a \in Session /\ "TERMINATE" \in Phases
    BY DEF Loose, Linked, Phases
  <1>2. Same(a, Phase(a, "TERMINATE"))
    BY <1>1, FieldSame
  <1>3. Linked(t) /\ Tidy(t, m) /\ t.lcp = a.lcp /\ t \in Session
    BY <1>1, <1>2, PhaseEffect, SameKeeps DEF Linked
  <1>4. LcpClose(a) = IF passive THEN LinkTerminated(c) ELSE LcpFinish(b, f)
    BY DEF LcpClose
  <1>5. Moves(a.lcp, f)
    BY <1>1, FsmMoves DEF Linked
  <1>6. ASSUME passive PROVE Linked(c) /\ Tidy(c, m)
    <2>1. f = Goto(a.lcp, "CLOSED") /\ "CLOSED" \in States
      BY <1>6 DEF Close, Negotiating, States
    <2>2. f.calls = <<>>
      BY <1>1, <2>1, Mute DEF Linked, Steady
    <2>3. Steady(f) /\ f.state = "CLOSED"
      BY <1>1, <1>5, <2>1, <2>2, GotoEffect DEF Steady, Moves, Linked
    <2>4. c = [t EXCEPT !.lcp = f]
      BY <1>3, <2>1 DEF Goto
    <2>5. f \in Fsm
      BY <2>3 DEF Steady
    <2> HIDE DEF f, t, c
    <2>6. c \in Session
      BY <1>3, <2>4, <2>5 DEF Session
    <2>7. SameFields(t, c) /\ c.timers = t.timers /\ c.lcp = f /\ c.ipcp = t.ipcp
      BY <1>3, <2>4 DEF Session, SameFields
    <2>8. Linked(c)
      BY <1>3, <2>3, <2>6, <2>7 DEF Linked, SameFields
    <2>9. Off(t)
      BY <1>3, <1>6 DEF Tidy
    <2>10. Tidy(c, m)
      BY <1>3, <2>7, <2>9 DEF Tidy, SameFields, Counts, AuthTold, IpTold, Off
    <2>11. QED
      BY <2>8, <2>10
  <1> HIDE DEF c, f, passive
  <1>7. Linked(b) /\ Tidy(b, m)
    BY <1>3, <1>5, LcpFallEffect, LcpFallTidy
  <1> HIDE DEF b
  <1>8. Tidy(LcpClose(a), m)
    BY <1>4, <1>6, <1>7, LinkTerminatedTidy, LcpFinishTidy
  <1>9. LcpClose(a).lcp.state # "OPENED"
    BY LcpCloseEffect DEF Quiet
  <1>10. QED
    BY <1>8, <1>9 DEF Tidy

-----------------------------------------------------------------------------
(* The network phase. *)

LEMMA IpcpFinishTidy ==
    ASSUME NEW a, Sound(a), NEW f, NEW m \in Nat, Tidy(a, m)
    PROVE  Tidy(IpcpFinish(a, f), m)
  <1> DEFINE t == [a EXCEPT !.ipcpOpen = FALSE]
             u == [t EXCEPT !.npOpen = @ - 1]
  <1>1. Same(a, t) /\ Aside(a, t)
    BY FieldSame, FieldAside DEF Sound, Linked
  <1>2. IpcpFinish(a, f) \in {a, NpFinished(t)}
    BY DEF IpcpFinish, IpcpFinished
  <1> HIDE DEF t
  <1>3. t \in Session /\ t.npOpen - 1 \in Int
    BY <1>1, AsideSession, SessionFields
  <1>4. Same(t, u) /\ Aside(t, u)
    BY <1>3, FieldSame, FieldAside
  <1>5. NpFinished(t) \in {u, LcpClose(u)}
    BY DEF NpFinished
  <1> HIDE DEF u
  <1>6. Loose(u) /\ Tidy(u, m)
    BY <1>1, <1>4, SoundLoose, AsideKeeps, SameKeeps
  <1>7. QED
    BY <1>2, <1>5, <1>6, LcpCloseTidy

LEMMA IpcpDropTidy ==
    ASSUME NEW a, Linked(a), NEW f, Moves(a.ipcp, f), NEW m \in Nat,
           \/ Tidy(a, m) /\ (f.state = "OPENED" => a.ipcp.state = "OPENED")
           \/ /\ Counts(a, m) /\ IpWaits(a) /\ f.state # "OPENED"
              /\ a.lcp.state = "OPENED"
    PROVE  Tidy(IpcpDrop(a, f), m)
  BY IpcpDropCounts DEF Tidy, Alone, Off

LEMMA IpcpQuitTidy ==
    ASSUME NEW a, Sound(a), NEW f, Moves(a.ipcp, f), NEW m \in Nat,
           f.state = "OPENED" => a.ipcp.state = "OPENED",
           \/ Tidy(a, m)
           \/ /\ Counts(a, m) /\ IpWaits(a) /\ f.state # "OPENED"
              /\ a.lcp.state = "OPENED"
    PROVE  Tidy(IpcpQuit(a, f), m)
  <1>1. Sound(IpcpDrop(a, f))
    BY DropSound
  <1>2. Tidy(IpcpDrop(a, f), m)
    BY IpcpDropTidy DEF Sound
  <1>3. QED
    BY <1>1, <1>2, IpcpFinishTidy DEF IpcpQuit

LEMMA IpcpUpTidy ==
    ASSUME NEW a, Linked(a), Proved(a), a.pending = {}, a.ipcp.state = "OPENED",
           ~a.ipcpUp, NEW m \in Nat, Counts(a, m), IpWaits(a), NEW ok
    PROVE  Tidy(IpcpUp(a, ok), m)
  <1> DEFINE low == [a EXCEPT !.unsuccess = 0]
             quick == [low EXCEPT !.slow = FALSE]
             first == Phase(quick, "RUNNING")
             t == IF IdleLimit THEN Arm(first, "idle") ELSE first
             n == [t EXCEPT !.npUp = 1]
             u == [n EXCEPT !.ipcpUp = TRUE]
             v == [u EXCEPT !.ipScript = "up", !.ipPid = TRUE]
  <1>1. a \in Session /\ a.npUp = 0 /\ a.timers["idle"] = 0 /\ a.lcp.state = "OPENED"
    BY SessionFields DEF Linked, Counts, Timers, Proved
  <1>2. Same(a, low) /\ low \in Session
    BY <1>1, FieldSame, FieldAside, AsideSession
  <1>3. NpUp(a) = [t EXCEPT !.npUp = @ + 1]
    BY <1>1 DEF NpUp
  <1> HIDE DEF low
  <1>4. Same(low, quick) /\ quick \in Session
    BY <1>2, FieldSame, FieldAside, AsideSession
  <1> HIDE DEF quick
  <1>5. Same(quick, first)
    BY <1>4, FieldSame
  <1>6. first \in Session
    BY <1>4 DEF Phase, Session, Phases
  <1> HIDE DEF first
  <1>7. Same(a, first)
    BY <1>2, <1>4, <1>5, SameTwice
  <1>8. "idle" \in Timers
    BY DEF Timers
  <1>9. /\ t \in Session /\ SameFields(first, t) /\ t.lcp.state = first.lcp.state
        /\ t.timers["idle"] <= first.timers["idle"] + 1
        /\ \A x \in Timers \ {"idle"} : t.timers[x] = first.timers[x]
    <2>1. first.timers["idle"] \in Nat
      BY <1>6, <1>8, SessionFields
    <2>2. CASE IdleLimit
      BY <1>6, <1>8, <2>1, <2>2, Ticks
    <2>3. CASE ~IdleLimit
      BY <1>6, <2>1, <2>3 DEF SameFields
    <2>4. QED
      BY <2>2, <2>3
  <1> HIDE DEF t
  <1>10. t.npUp = 0 /\ NpUp(a) = n
    <2>1. t.npUp = 0
      BY <1>1, <1>7, <1>9 DEF Same, SameFields
    <2>2. QED
      BY <1>3, <2>1
  <1>11. n \in Session /\ n.npUp = 1
    BY <1>9 DEF Session
  <1>12. /\ Alone(t, n) /\ n.timers = t.timers /\ n.papC = t.papC
         /\ n.authState = t.authState /\ n.authScript = t.authScript /\ n.authPid = t.authPid
         /\ n.ipScript = t.ipScript /\ n.ipPid = t.ipPid /\ n.ipcp = t.ipcp
    BY <1>9 DEF Session, Alone
  <1> HIDE DEF n
  <1>13. /\ Alone(n, u) /\ u.timers = n.timers /\ u.papC = n.papC
         /\ u.npUp = 1 /\ u.ipcpUp
         /\ u.authState = n.authState /\ u.authScript = n.authScript /\ u.authPid = n.authPid
         /\ u.ipScript = n.ipScript /\ u.ipPid = n.ipPid /\ u.ipcp = n.ipcp
    BY <1>11 DEF Session, Alone
  <1>14. u \in Session
    BY <1>11 DEF Session
  <1>15. IpcpUp(a, ok) = IF ok THEN IpUpScript(u) ELSE IpcpQuit(a, Close(a.ipcp))
    BY <1>10 DEF IpcpUp
  <1> HIDE DEF u
  <1>16. /\ Alone(u, v) /\ v.timers = u.timers /\ v.papC = u.papC
         /\ v.npUp = u.npUp /\ v.ipcpUp = u.ipcpUp
         /\ v.authState = u.authState /\ v.authScript = u.authScript /\ v.authPid = u.authPid
         /\ v.ipPid
    BY <1>14 DEF Session, Alone
  <1>17. IpUpScript(u) = IF u.ipScript = "down" /\ ~u.ipPid THEN v ELSE u
    BY DEF IpUpScript
  <1> HIDE DEF v
  <1>18. Counts(u, m)
    BY <1>1, <1>7, <1>9, <1>12, <1>13 DEF Same, SameFields, Alone, Counts, AuthTold, Timers
  <1>19. Counts(v, m)
    BY <1>16, <1>18 DEF Alone, Counts, AuthTold
  <1>20. /\ u.lcp.state = "OPENED" /\ v.lcp.state = "OPENED"
         /\ u.ipScript = "down" \/ u.ipPid
    BY <1>1, <1>7, <1>9, <1>12, <1>13, <1>16 DEF Same, SameFields, Alone, IpWaits
  <1>21. Tidy(IpUpScript(u), m)
    BY <1>16, <1>17, <1>18, <1>19, <1>20 DEF Tidy, IpTold
  <1>22. Tidy(IpcpQuit(a, Close(a.ipcp)), m)
    <2>1. Sound(a)
      BY DEF Sound
    <2>2. Moves(a.ipcp, Close(a.ipcp)) /\ Close(a.ipcp).state # "OPENED"
      BY FsmMoves DEF Linked
    <2>3. QED
      BY <1>1, <2>1, <2>2, IpcpQuitTidy
  <1>23. QED
    BY <1>15, <1>21, <1>22

LEMMA IpcpRunTidy ==
    ASSUME NEW a, Sound(a), NEW f, Moves(a.ipcp, f), NEW ok, NEW m \in Nat, Tidy(a, m),
           f.state = "OPENED" => a.ipcp.state = "OPENED" \/ (Proved(a) /\ a.pending = {})
    PROVE  Tidy(IpcpRun(a, f, ok), m)
  <1> DEFINE b == IpcpDrop(a, f)
             c == IF "up" \in Calls(f) THEN IpcpUp(b, ok) ELSE b
  <1>1. /\ Sound(b) /\ (Quiet(a) => Quiet(b))
        /\ b.ipcp.state = f.state /\ b.lcp = a.lcp /\ b.pending = a.pending
    BY DropSound
  <1>2. Linked(a) /\ Linked(b) /\ Lowered(a, b)
    BY IpcpDropEffect DEF Sound
  <1>3. IpcpRun(a, f, ok) = IpcpFinish(c, f)
    BY MadeCalls DEF IpcpRun
  <1>4. "up" \in Calls(f) <=> a.ipcp.state # "OPENED" /\ f.state = "OPENED"
    BY DEF Moves, Candid
  <1>5. CASE "up" \in Calls(f)
    <2>1. Counts(b, m) /\ IpWaits(b)
      BY <1>2, <1>4, <1>5, IpcpDropCounts DEF Tidy
    <2>2. ~b.ipcpUp
      BY <1>2, <1>4, <1>5 DEF Lowered, Linked
    <2>3. Proved(b) /\ b.pending = {} /\ b.ipcp.state = "OPENED"
      BY <1>1, <1>4, <1>5 DEF Sound, Quiet, Proved, InNetwork
    <2> HIDE DEF b
    <2>4. Tidy(IpcpUp(b, ok), m) /\ Sound(IpcpUp(b, ok))
      BY <1>2, <2>1, <2>2, <2>3, IpcpUpTidy, IpcpUpSound
    <2>5. QED
      BY <1>3, <1>5, <2>4, IpcpFinishTidy
  <1>6. CASE "up" \notin Calls(f)
    <2>1. Tidy(b, m)
      BY <1>2, <1>4, <1>6, IpcpDropTidy
    <2> HIDE DEF b
    <2>2. QED
      BY <1>1, <1>3, <1>6, <2>1, IpcpFinishTidy
  <1>7. QED
    BY <1>5, <1>6

\* network_phase opens IPCP, which does not end the link.
LEMMA NetworkPhaseTidy ==
    ASSUME NEW a, Linked(a), NEW m \in Nat, Tidy(a, m)
    PROVE  LET b == NetworkPhase(a)
           IN  Tidy(b, m) /\ b.lcp = a.lcp /\ b.chapS = a.chapS /\ b \in Session
  <1> DEFINE t == [a EXCEPT !.authState = "up"]
             k == [t EXCEPT !.authScript = "up", !.authPid = TRUE]
             u == IF t.authScript = "down" /\ ~t.authPid THEN k ELSE t
             v == IF a.lcp.go # NoOpt THEN u ELSE a
             w == Phase(v, "NETWORK")
             x == IpcpQuit(w, Open(w.ipcp))
             y == [x EXCEPT !.ipcpOpen = TRUE]
             z == [y EXCEPT !.npOpen = @ + 1]
  <1>1. a \in Session /\ Aside(a, t) /\ t \in Session
    BY FieldAside, AsideSession DEF Linked
  <1>2. /\ Alone(a, t) /\ t.timers = a.timers /\ t.papC = a.papC
        /\ t.npUp = a.npUp /\ t.ipcpUp = a.ipcpUp
        /\ t.authState = "up" /\ t.authScript = a.authScript /\ t.authPid = a.authPid
        /\ t.ipScript = a.ipScript /\ t.ipPid = a.ipPid /\ t.ipcp = a.ipcp
    BY <1>1 DEF Session, Alone
  <1>3. NetworkPhase(a) = StartNetworks(v)
    BY DEF NetworkPhase
  <1> HIDE DEF t
  <1>4. /\ Alone(t, k) /\ k.timers = t.timers /\ k.papC = t.papC
        /\ k.npUp = t.npUp /\ k.ipcpUp = t.ipcpUp
        /\ k.authState = t.authState /\ k.authPid
        /\ k.ipScript = t.ipScript /\ k.ipPid = t.ipPid /\ k.ipcp = t.ipcp
    BY <1>1 DEF Session, Alone
  <1>5. Aside(t, k) /\ t.authScript \in {"up", "down"}
    BY <1>1, FieldAside, SessionFields
  <1> HIDE DEF k
  <1>6. Counts(u, m)
    BY <1>2, <1>4, <1>5 DEF Tidy, Counts, AuthTold, Alone
  <1>7. Tidy(u, m) /\ Alone(a, u)
    BY <1>2, <1>4, <1>6 DEF Tidy, IpTold, Off, Alone
  <1>8. Linked(u)
    BY <1>1, <1>5, AsideKeeps
  <1> HIDE DEF u
  <1>9. Linked(v) /\ Tidy(v, m) /\ Alone(a, v) /\ v \in Session
    BY <1>7, <1>8 DEF Alone, Linked
  <1> HIDE DEF v
  <1>10. "NETWORK" \in Phases
    BY DEF Phases
  <1>11. /\ Linked(w) /\ w.lcp = v.lcp /\ w.ipcp = v.ipcp /\ w.chapS = v.chapS
    BY <1>9, <1>10, PhaseEffect
  <1>12. Same(v, w)
    BY <1>9, FieldSame
  <1>13. StartNetworks(v) = z
    BY <1>11 DEF StartNetworks
  <1> HIDE DEF w
  <1>14. /\ Moves(w.ipcp, Open(w.ipcp)) /\ "finished" \notin Calls(Open(w.ipcp))
         /\ Open(w.ipcp).state = "OPENED" => w.ipcp.state = "OPENED"
    BY <1>11, FsmMoves, OpenCandid DEF Linked, Steady
  <1>15. x = IpcpDrop(w, Open(w.ipcp))
    BY <1>14, MadeCalls DEF IpcpQuit, IpcpFinish
  <1>16. Tidy(w, m)
    BY <1>9, <1>12, SameKeeps
  <1>17. Tidy(x, m) /\ Lowered(w, x)
    BY <1>11, <1>14, <1>15, <1>16, IpcpDropTidy, IpcpDropEffect
  <1> HIDE DEF x
  <1>18. x \in Session /\ x.lcp = a.lcp /\ x.chapS = a.chapS
    BY <1>9, <1>11, <1>17 DEF Lowered, Alone
  <1>19. Same(x, y) /\ y \in Session /\ y.lcp = x.lcp /\ y.chapS = x.chapS
    BY <1>18, FieldSame DEF Session
  <1> HIDE DEF y
  <1>20. y.npOpen + 1 \in Int
    BY <1>19, SessionFields
  <1>21. Same(y, z) /\ z \in Session /\ z.lcp = y.lcp /\ z.chapS = y.chapS
    BY <1>19, <1>20, FieldSame DEF Session
  <1> HIDE DEF z
  <1>22. QED
    BY <1>3, <1>13, <1>17, <1>18, <1>19, <1>21, SameKeeps

LEMMA AuthSuccessTidy ==
    ASSUME NEW a, Linked(a), NEW x, NEW m \in Nat, Tidy(a, m)
    PROVE  LET b == AuthSuccess(a, x)
           IN  Tidy(b, m) /\ b.lcp = a.lcp /\ b.chapS = a.chapS /\ b \in Session
  <1> DEFINE t == [a EXCEPT !.pending = @ \ {x}]
  <1>1. a \in Session /\ a.pending \ {x} \subseteq Auths
    BY SessionFields DEF Linked
  <1>2. t \in Session
    BY <1>1 DEF Session
  <1>3. /\ t.lcp = a.lcp /\ t.ipcp = a.ipcp /\ t.chapS = a.chapS /\ t.ipcpUp = a.ipcpUp
    BY <1>1 DEF Session
  <1>4. Same(a, t)
    BY <1>1, FieldSame
  <1>5. AuthSuccess(a, x) = IF t.pending = {} THEN NetworkPhase(t) ELSE t
    BY DEF AuthSuccess
  <1> HIDE DEF t
  <1>6. Linked(t) /\ Tidy(t, m)
    BY <1>2, <1>3, <1>4, SameKeeps DEF Linked
  <1>7. QED
    BY <1>2, <1>3, <1>5, <1>6, NetworkPhaseTidy

-----------------------------------------------------------------------------
(* CHAP. *)

\* The server waits for a response, with the timer of its challenge.
LEMMA ChapEntry ==
    ASSUME NEW a \in Session, NEW x \in SUBSET ChapFlags, "PENDING" \in x,
           "PENDING" \notin a.chapS, a.lcp.state = "OPENED", NEW m \in Nat, Tidy(a, m)
    PROVE  LET b == Arm([a EXCEPT !.chapS = x], "chap")
           IN  Tidy(b, m) /\ b \in Session /\ b.lcp = a.lcp
  <1> DEFINE t == [a EXCEPT !.chapS = x]
             b == Arm(t, "chap")
  <1>1. "chap" \in Timers
    BY DEF Timers
  <1>2. t \in Session
    BY DEF Session
  <1>3. /\ t.papC = a.papC /\ t.papS = a.papS /\ t.timers = a.timers
        /\ t.lcp = a.lcp /\ t.echo = a.echo /\ t.chapS = x
        /\ t.npUp = a.npUp /\ t.ipcpUp = a.ipcpUp
        /\ t.authState = a.authState /\ t.authScript = a.authScript /\ t.authPid = a.authPid
        /\ t.ipScript = a.ipScript /\ t.ipPid = a.ipPid /\ t.ipcp = a.ipcp
    BY DEF Session
  <1> HIDE DEF t
  <1>4. /\ b \in Session /\ SameFields(t, b) /\ b.lcp = t.lcp /\ b.ipcp = t.ipcp
        /\ b.timers["chap"] = t.timers["chap"] + 1
        /\ \A u \in Timers \ {"chap"} : b.timers[u] = t.timers[u]
    BY <1>1, <1>2, Ticks
  <1> HIDE DEF b
  <1>5. Counts(b, m)
    BY <1>3, <1>4 DEF Tidy, Counts, SameFields, AuthTold, Timers
  <1>6. IpTold(b)
    BY <1>3, <1>4 DEF Tidy, IpTold, SameFields
  <1>7. QED
    BY <1>3, <1>4, <1>5, <1>6 DEF Tidy, b, t

\* calltimeout and the callers of chap_timeout have no entry when they call it.
LEMMA ChapTimeoutTidy ==
    ASSUME NEW a, Loose(a), a.lcp.state = "OPENED", NEW m \in Nat,
           Tidy([a EXCEPT !.chapS = @ \ {"PENDING"}], m)
    PROVE  Tidy(ChapTimeout(a), m)
  <1> DEFINE t == [a EXCEPT !.chapS = @ \ {"PENDING"}]
             c == [t EXCEPT !.chapS = (@ \ {"VALID"}) \cup {"DONE", "FAILED"}]
             n == [t EXCEPT !.chapXmits = 0]
             v == [n EXCEPT !.chapS = @ \cup {"VALID"}]
             u == IF "VALID" \in a.chapS THEN t ELSE v
             w == [u EXCEPT !.chapXmits = @ + 1]
             x == [w EXCEPT !.chapS = @ \cup {"PENDING"}]
  <1>1. a \in Session /\ a.chapS \subseteq ChapFlags /\ 0 \in Nat
    BY SessionFields DEF Loose, Linked
  <1>2. {"PENDING", "VALID", "DONE", "FAILED"} \subseteq ChapFlags
    BY DEF ChapFlags
  <1>3. ChapTimeout(a) \in {LcpClose(c), Arm(x, "chap")}
    BY DEF ChapTimeout
  <1>4. Aside(a, t) /\ t \in Session /\ t.chapS = a.chapS \ {"PENDING"} /\ Tidy(t, m)
    BY <1>1, ChapFields
  <1>5. Loose(t) /\ t.lcp.state = "OPENED" /\ "PENDING" \notin t.chapS
    BY <1>4, AsideKeeps DEF Aside
  <1> HIDE DEF t
  <1>6. t.chapS \subseteq ChapFlags
    BY <1>4, SessionFields
  <1>7. Aside(t, c) /\ Same(t, c)
    BY <1>2, <1>4, <1>6, ChapFields, FieldSame
  <1>8. Tidy(LcpClose(c), m)
    BY <1>4, <1>5, <1>7, AsideKeeps, SameKeeps, LcpCloseTidy
  <1>9. n \in Session /\ Same(t, n) /\ n.chapS = t.chapS
    BY <1>4 DEF Session, Same, SameFields
  <1> HIDE DEF n, c
  <1>10. Same(n, v) /\ v \in Session
    BY <1>2, <1>6, <1>9, FieldSame DEF Session
  <1>11. Same(t, u) /\ u \in Session
    BY <1>4, <1>9, <1>10, SameTwice DEF Same, SameFields
  <1> HIDE DEF u
  <1>12. u.chapXmits + 1 \in Nat
    BY <1>11, SessionFields
  <1>13. Same(u, w) /\ w \in Session
    BY <1>11, <1>12, FieldSame DEF Session
  <1> HIDE DEF w
  <1>14. /\ Tidy(w, m) /\ w.lcp.state = "OPENED" /\ "PENDING" \notin w.chapS
         /\ w.chapS \subseteq ChapFlags
    BY <1>4, <1>5, <1>11, <1>13, SameKeeps, SessionFields DEF Same, SameFields
  <1>15. Tidy(Arm(x, "chap"), m)
    BY <1>2, <1>13, <1>14, ChapEntry
  <1>16. QED
    BY <1>3, <1>8, <1>15

LEMMA ChapJudgedTidy ==
    ASSUME NEW a, Sound(a), a.lcp.state = "OPENED", "PENDING" \notin a.chapS,
           NEW m \in Nat, Tidy(a, m)
    PROVE  Tidy(ChapJudged(a), m)
  <1> DEFINE t == [a EXCEPT !.chapS = @ \ {"VALID"}]
             v == IF "DONE" \in t.chapS THEN t ELSE AuthSuccess(t, "chapPeer")
             w == [v EXCEPT !.chapS = @ \cup {"PENDING"}]
             x == IF Rechallenge THEN Arm(w, "chap") ELSE v
             y == IF "FAILED" \in t.chapS THEN LcpClose(t) ELSE x
  <1>1. a \in Session /\ a.chapS \subseteq ChapFlags
    BY SessionFields DEF Sound, Linked
  <1>2. {"PENDING", "DONE"} \subseteq ChapFlags
    BY DEF ChapFlags
  <1>3. Aside(a, t) /\ t.chapS = a.chapS \ {"VALID"} /\ Same(a, t) /\ t \in Session
    BY <1>1, ChapFields, FieldSame
  <1>4. ChapJudged(a) = [y EXCEPT !.chapS = @ \cup {"DONE"}]
    BY DEF ChapJudged
  <1> HIDE DEF t
  <1>5. Sound(t) /\ t.lcp.state = "OPENED" /\ Tidy(t, m) /\ "PENDING" \notin t.chapS
    BY <1>3, AsideKeeps, SameKeeps DEF Aside
  <1>6. /\ v \in Session /\ Tidy(v, m) /\ v.lcp.state = "OPENED"
        /\ "PENDING" \notin v.chapS
    BY <1>3, <1>5, AuthSuccessTidy DEF Sound
  <1> HIDE DEF v
  <1>7. v.chapS \subseteq ChapFlags
    BY <1>6, SessionFields
  <1>8. Tidy(Arm(w, "chap"), m) /\ Arm(w, "chap") \in Session
    BY <1>2, <1>6, <1>7, ChapEntry
  <1>9. Tidy(LcpClose(t), m) /\ LcpClose(t) \in Session
    BY <1>5, SoundLoose, LcpCloseTidy, LcpCloseEffect DEF Linked
  <1> HIDE DEF w
  <1>10. Tidy(y, m) /\ y \in Session
    BY <1>6, <1>8, <1>9
  <1> HIDE DEF y
  <1>11. Same(y, [y EXCEPT !.chapS = @ \cup {"DONE"}])
    BY <1>10, FieldSame
  <1>12. QED
    BY <1>4, <1>10, <1>11, SameKeeps

LEMMA ChapResponseTidy ==
    ASSUME NEW a, Sound(a), a.lcp.state = "OPENED", NEW ok, NEW m \in Nat, Tidy(a, m)
    PROVE  Tidy(ChapResponse(a, ok), m)
  <1> DEFINE t == IF "PENDING" \in a.chapS THEN Cancel(a, "chap") ELSE a
             flags == (t.chapS \ {"PENDING"}) \cup (IF ok THEN {} ELSE {"FAILED"})
             u == [t EXCEPT !.chapS = flags]
             tell(v) == IF "FAILED" \in v.chapS THEN v
                        ELSE [v EXCEPT !.success = @ \cup {"chapPeer"}]
  <1>1. "chap" \in Timers /\ "FAILED" \in ChapFlags /\ "chapPeer" \in Auths
    BY DEF Timers, ChapFlags, Auths
  <1>2. a \in Session
    BY DEF Sound, Linked
  <1>3. Aside(a, t) /\ t \in Session
    BY <1>1, <1>2, TimerAside, AsideSelf DEF Aside
  <1>4. /\ SameFields(a, t) /\ t.lcp = a.lcp /\ t.ipcp = a.ipcp
        /\ t.timers["chap"] = IF "PENDING" \in a.chapS THEN Less(a.timers["chap"])
                                                       ELSE a.timers["chap"]
        /\ \A x \in Timers \ {"chap"} : t.timers[x] = a.timers[x]
    BY <1>1, <1>2, Ticks DEF SameFields
  <1>5. ChapResponse(a, ok) \in {a, tell(a), ChapJudged(tell(u))}
    BY DEF ChapResponse
  <1> HIDE DEF t
  <1>6. flags \in SUBSET ChapFlags /\ "PENDING" \notin flags
    BY <1>1, <1>3, SessionFields
  <1>7. "STARTED" \in flags => "STARTED" \in t.chapS
    OBVIOUS
  <1> HIDE DEF flags
  <1>8. Aside(t, u) /\ u \in Session /\ u.chapS = flags
    BY <1>3, <1>6, <1>7, ChapFields
  <1>9. /\ u.papC = t.papC /\ u.papS = t.papS /\ u.timers = t.timers
        /\ u.lcp = t.lcp /\ u.echo = t.echo
        /\ u.npUp = t.npUp /\ u.ipcpUp = t.ipcpUp
        /\ u.authState = t.authState /\ u.authScript = t.authScript /\ u.authPid = t.authPid
        /\ u.ipScript = t.ipScript /\ u.ipPid = t.ipPid /\ u.ipcp = t.ipcp
    BY <1>3 DEF Session
  <1> HIDE DEF u
  <1>10. Counts(u, m)
    BY <1>4, <1>6, <1>8, <1>9 DEF Tidy, Counts, SameFields, AuthTold, Timers, Less
  <1>11. Tidy(u, m) /\ Sound(u) /\ u.lcp.state = "OPENED"
    BY <1>3, <1>4, <1>8, <1>9, <1>10, AsideTwice, AsideKeeps
    DEF Tidy, IpTold, SameFields
  <1>12. ASSUME NEW v \in Session
         PROVE  /\ Credited(v, tell(v)) \/ tell(v) = v
                /\ Same(v, tell(v)) /\ tell(v).chapS = v.chapS
    <2>1. LET x == [v EXCEPT !.success = @ \cup {"chapPeer"}]
          IN  Credited(v, x) /\ x.success = v.success \cup {"chapPeer"} /\ Same(v, x)
      BY <1>1, CreditedField, FieldSame
    <2>2. QED
      BY <2>1 DEF Credited, Same, SameFields
  <1>13. Tidy(tell(a), m)
    BY <1>2, <1>12, SameKeeps
  <1> DEFINE w == tell(u)
  <1>14. (Credited(u, w) \/ w = u) /\ Same(u, w) /\ w.chapS = u.chapS
    BY <1>8, <1>12
  <1> HIDE DEF w
  <1>15. Sound(w) /\ w.lcp.state = "OPENED"
    BY <1>11, <1>14, CreditedKeeps DEF Credited
  <1>16. Tidy(ChapJudged(w), m)
    BY <1>6, <1>8, <1>11, <1>14, <1>15, SameKeeps, ChapJudgedTidy
  <1>17. QED
    BY <1>5, <1>13, <1>16 DEF w

LEMMA ChapStatusTidy ==
    ASSUME NEW a, Sound(a), a.lcp.state = "OPENED", NEW ok, NEW m \in Nat, Tidy(a, m)
    PROVE  Tidy(ChapStatus(a, ok), m)
  <1> DEFINE t == [a EXCEPT !.chapC = @ \cup {"DONE"}]
             good == [t EXCEPT !.success = @ \cup {"chapWith"}]
             bad == [t EXCEPT !.chapC = @ \cup {"FAILED"}]
  <1>1. {"DONE", "FAILED"} \subseteq ChapFlags /\ "chapWith" \in Auths
    BY DEF ChapFlags, Auths
  <1>2. a \in Session /\ a.chapC \subseteq ChapFlags
    BY SessionFields DEF Sound, Linked
  <1>3. ChapStatus(a, ok) \in {a, AuthSuccess(good, "chapWith"), LcpClose(bad)}
    BY DEF ChapStatus
  <1>4. Aside(a, t) /\ t \in Session /\ Same(a, t)
    BY <1>1, <1>2, FieldAside, FieldSame, AsideSession
  <1> HIDE DEF t
  <1>5. t.chapC \cup {"FAILED"} \in SUBSET ChapFlags
    BY <1>1, <1>4, SessionFields
  <1>6. Aside(t, bad) /\ Same(t, bad)
    BY <1>4, <1>5, FieldAside, FieldSame
  <1>7. Credited(t, good) /\ Same(t, good)
    BY <1>1, <1>4, CreditedField, FieldSame
  <1> HIDE DEF good, bad
  <1>8. Sound(t) /\ Sound(bad) /\ Tidy(t, m) /\ Tidy(bad, m)
    BY <1>4, <1>6, AsideTwice, AsideKeeps, SameKeeps
  <1>9. Sound(good) /\ Tidy(good, m)
    BY <1>7, <1>8, CreditedKeeps, SameKeeps
  <1>10. Tidy(AuthSuccess(good, "chapWith"), m)
    BY <1>9, AuthSuccessTidy DEF Sound
  <1>11. Tidy(LcpClose(bad), m)
    BY <1>8, SoundLoose, LcpCloseTidy
  <1>12. QED
    BY <1>3, <1>10, <1>11

LEMMA ChapProtrejTidy ==
    ASSUME NEW a, Sound(a), NEW m \in Nat, Tidy(a, m)
    PROVE  Tidy(ChapProtrej(a), m)
  <1> DEFINE c == Cancel(a, "chap")
             x == [c EXCEPT !.chapS = @ \ {"PENDING"}]
             t == IF "PENDING" \in a.chapS THEN x ELSE a
             z == [t EXCEPT !.chapS = {}]
             u == IF "STARTED" \in t.chapS THEN LcpClose(z) ELSE t
             v == [u EXCEPT !.chapC = @ \ {"STARTED"}]
  <1>1. "chap" \in Timers /\ a \in Session
    BY DEF Timers, Sound, Linked
  <1>2. Aside(a, c) /\ c \in Session
    BY <1>1, TimerAside DEF Aside
  <1>3. ChapProtrej(a) \in {u, LcpClose(v)}
    BY DEF ChapProtrej
  <1>4. /\ SameFields(a, c) /\ c.lcp = a.lcp
        /\ c.timers["chap"] = Less(a.timers["chap"])
        /\ \A y \in Timers \ {"chap"} : c.timers[y] = a.timers[y]
    BY <1>1, Ticks
  <1> HIDE DEF c
  <1>5. c.chapS \ {"PENDING"} \in SUBSET ChapFlags
    BY <1>2, SessionFields
  <1>6. Aside(c, x)
    BY <1>2, <1>5, FieldAside
  <1>7. /\ x.papC = c.papC /\ x.papS = c.papS /\ x.timers = c.timers
        /\ x.lcp = c.lcp /\ x.echo = c.echo /\ "PENDING" \notin x.chapS
        /\ x.npUp = c.npUp /\ x.ipcpUp = c.ipcpUp
        /\ x.authState = c.authState /\ x.authScript = c.authScript /\ x.authPid = c.authPid
        /\ x.ipScript = c.ipScript /\ x.ipPid = c.ipPid /\ x.ipcp = c.ipcp
    BY <1>2 DEF Session
  <1> HIDE DEF x
  <1>8. "PENDING" \in a.chapS => Counts(x, m)
    BY <1>4, <1>7 DEF Tidy, Counts, SameFields, AuthTold, Timers, Less
  <1>9. "PENDING" \in a.chapS => Tidy(x, m)
    BY <1>4, <1>7, <1>8 DEF Tidy, IpTold, Off, SameFields
  <1>10. Aside(a, t) /\ Tidy(t, m) /\ "PENDING" \notin t.chapS
    BY <1>1, <1>2, <1>6, <1>7, <1>9, AsideTwice, AsideSelf
  <1>11. t \in Session /\ Loose(t)
    BY <1>10, SoundLoose, AsideKeeps DEF Aside
  <1> HIDE DEF t
  <1>12. Aside(t, z) /\ Aside(t, t) /\ Same(t, z)
    BY <1>10, <1>11, FieldAside, AsideSelf, FieldSame
  <1> HIDE DEF z
  <1>13. Ends(t, u) /\ Tidy(u, m)
    BY <1>10, <1>11, <1>12, CloseEnds, AsideKeeps, SameKeeps, LcpCloseTidy DEF Ends
  <1>14. Loose(u) /\ u \in Session
    BY <1>11, <1>13, EndsKeeps DEF Loose, Linked
  <1> HIDE DEF u
  <1>15. u.chapC \ {"STARTED"} \in SUBSET ChapFlags
    BY <1>14, SessionFields
  <1>16. Aside(u, v) /\ Same(u, v)
    BY <1>14, <1>15, FieldAside, FieldSame
  <1> HIDE DEF v
  <1>17. Tidy(LcpClose(v), m)
    BY <1>13, <1>14, <1>16, AsideKeeps, SameKeeps, LcpCloseTidy
  <1>18. QED
    BY <1>3, <1>13, <1>17

-----------------------------------------------------------------------------
(* PAP. *)

\* The client leaves AUTHREQ, or was not in it; an entry may be left over.
LEMMA PapLeaves ==
    ASSUME NEW a \in Session, NEW x, NEW y, y # "AUTHREQ", NEW m \in Nat,
           Tidy(a, m) \/ Tidy([a EXCEPT !.papC = x], m)
    PROVE  Tidy([a EXCEPT !.papC = y], m) /\ (a.papC # "AUTHREQ" => Tidy(a, m))
  <1> DEFINE b == [a EXCEPT !.papC = x]
             c == [a EXCEPT !.papC = y]
  <1>1. /\ b.papS = a.papS /\ b.timers = a.timers
        /\ b.lcp = a.lcp /\ b.echo = a.echo /\ b.chapS = a.chapS
        /\ b.npUp = a.npUp /\ b.ipcpUp = a.ipcpUp
        /\ b.authState = a.authState /\ b.authScript = a.authScript /\ b.authPid = a.authPid
        /\ b.ipScript = a.ipScript /\ b.ipPid = a.ipPid /\ b.ipcp = a.ipcp
    BY DEF Session
  <1>2. /\ c.papS = a.papS /\ c.timers = a.timers /\ c.papC = y
        /\ c.lcp = a.lcp /\ c.echo = a.echo /\ c.chapS = a.chapS
        /\ c.npUp = a.npUp /\ c.ipcpUp = a.ipcpUp
        /\ c.authState = a.authState /\ c.authScript = a.authScript /\ c.authPid = a.authPid
        /\ c.ipScript = a.ipScript /\ c.ipPid = a.ipPid /\ c.ipcp = a.ipcp
    BY DEF Session
  <1>3. a.timers["pap"] >= 0
    BY SessionFields DEF Timers
  <1> HIDE DEF b, c
  <1>4. Tidy(a, m) \/ Tidy(b, m)
    BY DEF b
  <1>5. Tidy(c, m)
    BY <1>1, <1>2, <1>3, <1>4 DEF Tidy, Counts, AuthTold, IpTold, Off
  <1>6. a.papC # "AUTHREQ" => Tidy(a, m)
    BY <1>1, <1>3, <1>4 DEF Tidy, Counts, AuthTold, IpTold, Off
  <1>7. QED
    BY <1>5, <1>6 DEF c

LEMMA PapSendTidy ==
    ASSUME NEW a \in Session, NEW m \in Nat, NEW x, Tidy([a EXCEPT !.papC = x], m)
    PROVE  LET c == PapSend(a)
           IN  /\ Tidy(c, m) /\ c.papS = a.papS
               /\ "PENDING" \in c.chapS <=> "PENDING" \in a.chapS
  <1> DEFINE b == [a EXCEPT !.papC = x]
             t == [a EXCEPT !.papXmits = @ + 1]
             u == [t EXCEPT !.papC = "AUTHREQ"]
             c == Arm(u, "pap")
  <1>1. /\ b.papS = a.papS /\ b.timers = a.timers
        /\ b.lcp = a.lcp /\ b.echo = a.echo /\ b.chapS = a.chapS
        /\ b.npUp = a.npUp /\ b.ipcpUp = a.ipcpUp
        /\ b.authState = a.authState /\ b.authScript = a.authScript /\ b.authPid = a.authPid
        /\ b.ipScript = a.ipScript /\ b.ipPid = a.ipPid /\ b.ipcp = a.ipcp
    BY DEF Session
  <1>2. PapSend(a) = c
    BY DEF PapSend
  <1>3. a.papXmits + 1 \in Nat /\ "AUTHREQ" \in PapStates /\ "pap" \in Timers
    BY SessionFields DEF PapStates, Timers
  <1>4. t \in Session /\ Same(a, t)
    BY <1>3, FieldAside, FieldSame, AsideSession
  <1> HIDE DEF t, b
  <1>5. u \in Session
    BY <1>3, <1>4, FieldAside, AsideSession
  <1>6. /\ u.papS = t.papS /\ u.timers = t.timers /\ u.papC = "AUTHREQ"
        /\ u.lcp = t.lcp /\ u.echo = t.echo /\ u.chapS = t.chapS
        /\ u.npUp = t.npUp /\ u.ipcpUp = t.ipcpUp
        /\ u.authState = t.authState /\ u.authScript = t.authScript /\ u.authPid = t.authPid
        /\ u.ipScript = t.ipScript /\ u.ipPid = t.ipPid /\ u.ipcp = t.ipcp
    BY <1>4 DEF Session
  <1> HIDE DEF u
  <1>7. /\ SameFields(u, c) /\ c.lcp = u.lcp
        /\ c.timers["pap"] = u.timers["pap"] + 1
        /\ \A y \in Timers \ {"pap"} : c.timers[y] = u.timers[y]
    BY <1>3, <1>5, Ticks
  <1>8. u.timers["pap"] \in Nat
    BY <1>3, <1>5, SessionFields
  <1> HIDE DEF c
  <1>9. Tidy(b, m)
    BY DEF b
  <1>10. Counts(c, m)
    BY <1>1, <1>4, <1>6, <1>7, <1>8, <1>9
    DEF Tidy, Counts, Same, SameFields, AuthTold, Timers
  <1>11. IpTold(c) /\ (c.lcp.state # "OPENED" => Off(c))
    BY <1>1, <1>4, <1>6, <1>7, <1>9 DEF Tidy, Same, SameFields, IpTold, Off
  <1>12. QED
    BY <1>2, <1>4, <1>6, <1>7, <1>10, <1>11 DEF Tidy, Same, SameFields

LEMMA PapTimeoutTidy ==
    ASSUME NEW a, Loose(a), NEW m \in Nat, NEW x, Tidy([a EXCEPT !.papC = x], m)
    PROVE  Tidy(PapTimeout(a), m)
  <1> DEFINE b == [a EXCEPT !.papC = "BADAUTH"]
  <1>1. a \in Session /\ "BADAUTH" \in PapStates
    BY DEF Loose, Linked, PapStates
  <1>2. Aside(a, b)
    BY <1>1, FieldAside
  <1>3. Tidy(b, m) /\ (a.papC # "AUTHREQ" => Tidy(a, m))
    BY <1>1, PapLeaves
  <1> HIDE DEF b
  <1>4. Tidy(LcpClose(b), m)
    BY <1>2, <1>3, AsideKeeps, LcpCloseTidy
  <1>5. Tidy(PapSend(a), m)
    BY <1>1, PapSendTidy
  <1>6. QED
    BY <1>3, <1>4, <1>5 DEF PapTimeout, b

\* The server has its answer: its entry is one too many, if it had one.
LEMMA PapAnswers ==
    ASSUME NEW a \in Session, NEW y, y \notin {"LISTEN", "PENDING"},
           NEW m \in Nat, Tidy(a, m)
    PROVE  Tidy([a EXCEPT !.papS = y], IF a.papS = "LISTEN" THEN m + 1 ELSE m)
  <1> DEFINE b == [a EXCEPT !.papS = y]
  <1>1. /\ b.papS = y /\ b.timers = a.timers /\ b.papC = a.papC
        /\ b.lcp = a.lcp /\ b.echo = a.echo /\ b.chapS = a.chapS
        /\ b.npUp = a.npUp /\ b.ipcpUp = a.ipcpUp
        /\ b.authState = a.authState /\ b.authScript = a.authScript /\ b.authPid = a.authPid
        /\ b.ipScript = a.ipScript /\ b.ipPid = a.ipPid /\ b.ipcp = a.ipcp
    BY DEF Session
  <1> HIDE DEF b
  <1>2. Less(m + 1) = m
    BY DEF Less
  <1>3. Counts(b, IF a.papS = "LISTEN" THEN m + 1 ELSE m)
    BY <1>1, <1>2 DEF Tidy, Counts, AuthTold
  <1>4. QED
    BY <1>1, <1>3 DEF Tidy, IpTold, Off, b

\* calltimeout has taken the entry of upap_reqtimeout off.
LEMMA PapReqTimeoutTidy ==
    ASSUME NEW a, Loose(a), a.papS = "LISTEN", Tidy(a, 0)
    PROVE  Tidy(PapReqTimeout(a), 1)
  <1> DEFINE c == LcpClose(a)
             d == [c EXCEPT !.papS = "BADAUTH"]
  <1>1. Tidy(c, 0) /\ Off(c) /\ c \in Session
    BY LcpCloseTidy, LcpCloseEffect DEF Linked
  <1>2. PapReqTimeout(a) = d
    BY DEF PapReqTimeout
  <1> HIDE DEF c
  <1>3. Tidy(d, 0) /\ d.papS = "BADAUTH"
    <2>1. Tidy([c EXCEPT !.papS = "BADAUTH"], IF c.papS = "LISTEN" THEN 0 + 1 ELSE 0)
      BY <1>1, PapAnswers
    <2>2. QED
      BY <1>1, <2>1 DEF Off, Session
  <1> HIDE DEF d
  <1>4. QED
    BY <1>2, <1>3 DEF Tidy, Counts, Less

LEMMA PapRequestTidy ==
    ASSUME NEW a, Sound(a), NEW ok, Tidy(a, 1)
    PROVE  Tidy(PapRequest(a, ok), 1)
  <1> DEFINE t == [a EXCEPT !.papS = "OPEN"]
             good == [t EXCEPT !.success = @ \cup {"papPeer"}]
             bad == [a EXCEPT !.papS = "BADAUTH"]
             c == IF ok THEN AuthSuccess(good, "papPeer") ELSE LcpClose(bad)
             d == Cancel(c, "papReq")
  <1>1. /\ a \in Session /\ {"OPEN", "BADAUTH"} \subseteq PapStates
        /\ "papPeer" \in Auths /\ "papReq" \in Timers
    BY DEF Sound, Linked, PapStates, Auths, Timers
  <1>2. PapRequest(a, ok) = IF a.papS # "LISTEN" THEN a ELSE d
    BY DEF PapRequest
  <1>3. Aside(a, t) /\ Aside(a, bad)
    BY <1>1, FieldAside
  <1>4. t \in Session
    BY <1>3, AsideSession
  <1>5. ASSUME a.papS = "LISTEN" PROVE Tidy(t, 2) /\ Tidy(bad, 2)
    <2>1. \A y \in {"OPEN", "BADAUTH"} :
            Tidy([a EXCEPT !.papS = y], IF a.papS = "LISTEN" THEN 1 + 1 ELSE 1)
      BY <1>1, PapAnswers
    <2>2. (IF a.papS = "LISTEN" THEN 1 + 1 ELSE 1) = 2
      BY <1>5
    <2>3. QED
      BY <2>1, <2>2
  <1> HIDE DEF t, bad
  <1>6. Same(t, good) /\ Credited(t, good)
    BY <1>1, <1>4, CreditedField, FieldSame
  <1> HIDE DEF good
  <1>7. Sound(t) /\ Sound(bad) /\ Sound(good)
    BY <1>3, <1>6, AsideKeeps, CreditedKeeps
  <1>8. CASE a.papS = "LISTEN"
    <2>1. LET b == AuthSuccess(good, "papPeer") IN Tidy(b, 2) /\ b \in Session
      BY <1>5, <1>6, <1>7, <1>8, SameKeeps, AuthSuccessTidy DEF Sound
    <2>2. Tidy(LcpClose(bad), 2) /\ LcpClose(bad) \in Session
      BY <1>5, <1>7, <1>8, SoundLoose, LcpCloseTidy, LcpCloseEffect DEF Linked
    <2>3. Tidy(c, 2) /\ c \in Session
      BY <2>1, <2>2
    <2> HIDE DEF c
    <2>4. /\ SameFields(c, d) /\ d.lcp = c.lcp
          /\ d.timers["papReq"] = Less(c.timers["papReq"])
          /\ \A y \in Timers \ {"papReq"} : d.timers[y] = c.timers[y]
      BY <1>1, <2>3, Ticks
    <2> HIDE DEF d
    <2>5. Counts(d, 1)
      BY <2>3, <2>4 DEF Tidy, Counts, SameFields, AuthTold, Timers, Less
    <2>6. QED
      BY <1>2, <1>8, <2>3, <2>4, <2>5 DEF Tidy, IpTold, Off, SameFields
  <1>9. QED
    BY <1>2, <1>8

LEMMA PapVerdictTidy ==
    ASSUME NEW a, Sound(a), NEW m \in Nat, Tidy(a, m)
    PROVE  Tidy(PapAck(a), m) /\ Tidy(PapNak(a), m)
  <1> DEFINE t == [a EXCEPT !.papC = "OPEN"]
             good == [t EXCEPT !.success = @ \cup {"papWith"}]
             bad == [a EXCEPT !.papC = "BADAUTH"]
  <1>1. a \in Session /\ {"OPEN", "BADAUTH"} \subseteq PapStates /\ "papWith" \in Auths
    BY DEF Sound, Linked, PapStates, Auths
  <1>2. /\ PapAck(a) \in {a, AuthSuccess(good, "papWith")}
        /\ PapNak(a) \in {a, LcpClose(bad)}
    BY DEF PapAck, PapNak
  <1>3. Aside(a, t) /\ Aside(a, bad)
    BY <1>1, FieldAside
  <1>4. t \in Session
    BY <1>3, AsideSession
  <1>5. Tidy(t, m) /\ Tidy(bad, m)
    BY <1>1, PapLeaves
  <1> HIDE DEF t, bad
  <1>6. Same(t, good) /\ Credited(t, good)
    BY <1>1, <1>4, CreditedField, FieldSame
  <1> HIDE DEF good
  <1>7. Sound(bad) /\ Sound(good)
    BY <1>3, <1>6, AsideKeeps, CreditedKeeps
  <1>8. Tidy(AuthSuccess(good, "papWith"), m)
    BY <1>5, <1>6, <1>7, SameKeeps, AuthSuccessTidy DEF Sound
  <1>9. Tidy(LcpClose(bad), m)
    BY <1>5, <1>7, SoundLoose, LcpCloseTidy
  <1>10. QED
    BY <1>2, <1>8, <1>9

LEMMA PapProtrejTidy ==
    ASSUME NEW a, Sound(a), NEW m \in Nat, Tidy(a, m)
    PROVE  Tidy(PapProtrej(a), m)
  <1> DEFINE c == IF a.papC = "AUTHREQ" THEN LcpClose(a) ELSE a
             d == IF c.papS = "LISTEN" THEN LcpClose(c) ELSE c
             e == PapLowerdown(d)
  <1>1. Loose(c) /\ Tidy(c, m)
    BY SoundLoose, LcpCloseTidy, LcpCloseEffect DEF Loose
  <1>2. PapProtrej(a) = e
    BY DEF PapProtrej
  <1> HIDE DEF c
  <1>3. d \in Session /\ Tidy(d, m)
    BY <1>1, LcpCloseTidy, LcpCloseEffect DEF Loose, Linked
  <1> HIDE DEF d
  <1>4. /\ Counts(e, m) /\ e.papS = "INITIAL" /\ IpTold(e)
        /\ e.echo = d.echo /\ e.chapS = d.chapS /\ e.lcp = d.lcp
    BY <1>3, PapLowerdownCounts DEF Tidy
  <1>5. QED
    BY <1>2, <1>3, <1>4 DEF Tidy, Off

-----------------------------------------------------------------------------
(* LCP comes up. *)

\* The caller has no echo entry.
LEMMA EchoCheckTidy ==
    ASSUME NEW a, Loose(a), ~a.echo, NEW m \in Nat, Tidy(a, m)
    PROVE  LET b == EchoCheck(a)
           IN  Tidy(b, m) /\ (a.echos = 0 => b.chapS = a.chapS /\ b.papS = a.papS)
  <1> DEFINE c == IF a.lcp.state = "OPENED" THEN LcpClose(a) ELSE a
             z == [c EXCEPT !.echos = 0]
             d == IF a.echos < EchoFails THEN a ELSE z
             w == [d EXCEPT !.echos = @ + 1]
             e == IF d.lcp.state = "OPENED" THEN w ELSE d
             f == [e EXCEPT !.echo = TRUE]
             g == Arm(f, "echo")
  <1>1. a \in Session /\ 0 \in Nat /\ "echo" \in Timers
    BY DEF Loose, Linked, Timers
  <1>2. EchoCheck(a) = IF e.lcp.state = "OPENED" THEN g ELSE e
    BY DEF EchoCheck, EchoSend
  <1>3. Tidy(c, m) /\ ~c.echo /\ c \in Session
    BY <1>1, LcpCloseTidy, LcpCloseEffect DEF Off, Linked
  <1> HIDE DEF c
  <1>4. Same(c, z) /\ z \in Session
    BY <1>1, <1>3, FieldSame, FieldAside, AsideSession
  <1>5. /\ Tidy(d, m) /\ ~d.echo /\ d \in Session /\ (a.echos = 0 => d = a)
    <2>1. a.echos = 0 => a.echos < EchoFails
      BY SessionAssumption
    <2>2. Tidy(z, m) /\ ~z.echo
      BY <1>3, <1>4, SameKeeps DEF Same, SameFields
    <2>3. QED
      BY <1>1, <1>4, <2>1, <2>2
  <1> HIDE DEF d
  <1>6. d.echos + 1 \in Nat
    BY <1>5, SessionFields
  <1>7. Same(d, w) /\ w \in Session /\ w.chapS = d.chapS /\ w.papS = d.papS
    BY <1>5, <1>6, FieldSame DEF Session
  <1> HIDE DEF w
  <1>8. /\ Tidy(e, m) /\ ~e.echo /\ e \in Session
        /\ e.chapS = d.chapS /\ e.papS = d.papS
    BY <1>5, <1>7, SameKeeps DEF Same, SameFields
  <1> HIDE DEF e
  <1>9. /\ f.papS = e.papS /\ f.timers = e.timers /\ f.papC = e.papC
        /\ f.lcp = e.lcp /\ f.echo = TRUE /\ f.chapS = e.chapS
        /\ f.npUp = e.npUp /\ f.ipcpUp = e.ipcpUp
        /\ f.authState = e.authState /\ f.authScript = e.authScript /\ f.authPid = e.authPid
        /\ f.ipScript = e.ipScript /\ f.ipPid = e.ipPid /\ f.ipcp = e.ipcp
    BY <1>8 DEF Session
  <1>10. f \in Session
    BY <1>8, FieldAside, AsideSession
  <1> HIDE DEF f
  <1>11. /\ SameFields(f, g) /\ g.lcp = f.lcp /\ g.chapS = f.chapS
         /\ g.timers["echo"] = f.timers["echo"] + 1
         /\ \A y \in Timers \ {"echo"} : g.timers[y] = f.timers[y]
    BY <1>1, <1>10, Ticks
  <1> HIDE DEF g
  <1>12. Counts(g, m)
    BY <1>8, <1>9, <1>11 DEF Tidy, Counts, SameFields, AuthTold, Timers
  <1>13. e.lcp.state = "OPENED" => Tidy(g, m)
    BY <1>8, <1>9, <1>11, <1>12 DEF Tidy, SameFields, IpTold
  <1>14. QED
    BY <1>2, <1>5, <1>8, <1>9, <1>11, <1>13 DEF SameFields

LEMMA PapLowerupTidy ==
    ASSUME NEW a \in Session, NEW m \in Nat, Tidy(a, m), a.papS # "LISTEN"
    PROVE  LET b == PapLowerup(a)
           IN  /\ Tidy(b, m) /\ b.papS \notin {"INITIAL", "PENDING", "LISTEN"}
               /\ "PENDING" \in b.chapS <=> "PENDING" \in a.chapS
  <1> DEFINE c == [a EXCEPT !.papC = "CLOSED"]
             t == CASE a.papC = "INITIAL" -> c
                    [] a.papC = "PENDING" -> PapSend(a)
                    [] OTHER              -> a
             u == [t EXCEPT !.papS = "CLOSED"]
  <1>1. "CLOSED" \in PapStates
    BY DEF PapStates
  <1>2. PapLowerup(a) = CASE t.papS = "INITIAL" -> u
                          [] t.papS = "PENDING" -> Arm([t EXCEPT !.papS = "LISTEN"], "papReq")
                          [] OTHER              -> t
    BY DEF PapLowerup
  <1>3. Tidy(c, m) /\ c.papS = a.papS /\ c.chapS = a.chapS /\ c \in Session
    BY <1>1, PapLeaves DEF Session
  <1>4. LET d == PapSend(a)
        IN  /\ Tidy(d, m) /\ d.papS = a.papS /\ d \in Session
            /\ "PENDING" \in d.chapS <=> "PENDING" \in a.chapS
    BY <1>3, PapSendTidy, PapSendAside, AsideSession
  <1> HIDE DEF c
  <1>5. /\ Tidy(t, m) /\ t.papS = a.papS /\ t \in Session
        /\ "PENDING" \in t.chapS <=> "PENDING" \in a.chapS
    BY <1>3, <1>4
  <1> HIDE DEF t
  <1>6. u.papS = "CLOSED" /\ u.chapS = t.chapS
    BY <1>5 DEF Session
  <1>7. Tidy(u, m)
    <2>1. Tidy(u, IF t.papS = "LISTEN" THEN m + 1 ELSE m)
      BY <1>5, PapAnswers
    <2>2. QED
      BY <1>5, <2>1
  <1> HIDE DEF u
  <1>8. t.papS # "PENDING" /\ t.papS # "LISTEN"
    BY <1>5 DEF Tidy, Counts
  <1>9. QED
    BY <1>2, <1>5, <1>6, <1>7, <1>8

LEMMA UpperLayersUpTidy ==
    ASSUME NEW a, Fresh(a), NEW m \in Nat, Tidy(a, m),
           "PENDING" \notin a.chapS, a.papS # "LISTEN"
    PROVE  LET b == UpperLayersUp(a)
           IN  /\ Tidy(b, m) /\ b.papS \notin {"INITIAL", "PENDING", "LISTEN"}
               /\ "PENDING" \notin b.chapS
  <1> DEFINE p == PapLowerup(a)
             t == [p EXCEPT !.chapC = @ \cup {"LOWERUP"}]
             c == [t EXCEPT !.chapS = @ \cup {"LOWERUP"}]
             f == Lowerup(c.ipcp)
             d == IpcpDrop(c, f)
  <1>1. Fresh(p) /\ p \in Session
    BY PapLowerupAside, FreshAside DEF Fresh, Linked
  <1>2. /\ Tidy(p, m) /\ p.papS \notin {"INITIAL", "PENDING", "LISTEN"}
        /\ "PENDING" \notin p.chapS
    BY PapLowerupTidy DEF Fresh, Linked
  <1>3. UpperLayersUp(a) = IpcpLowerup(ChapLowerup(p))
    BY DEF UpperLayersUp
  <1> HIDE DEF p
  <1>4. "LOWERUP" \in ChapFlags
    BY DEF ChapFlags
  <1>5. p.chapC \cup {"LOWERUP"} \in SUBSET ChapFlags
    BY <1>1, <1>4, SessionFields
  <1>6. Aside(p, t) /\ Same(p, t)
    BY <1>1, <1>5, FieldAside, FieldSame
  <1>7. ChapLowerup(p) = c
    BY <1>1 DEF ChapLowerup, Fresh
  <1>8. Fresh(t) /\ t \in Session
    BY <1>1, <1>6, FreshAside
  <1> HIDE DEF t
  <1>9. t.chapS \cup {"LOWERUP"} \in SUBSET ChapFlags
    BY <1>4, <1>8, SessionFields
  <1>10. Aside(t, c) /\ Same(t, c)
    BY <1>8, <1>9, FieldAside, FieldSame
  <1>11. Fresh(c)
    BY <1>8, <1>10, FreshAside
  <1>12. UpperLayersUp(a) = d
    BY <1>3, <1>7 DEF IpcpLowerup
  <1> HIDE DEF c
  <1>13. Same(p, c)
    BY <1>6, <1>10, SameTwice
  <1>14. Moves(c.ipcp, f) /\ (f.state = "OPENED" => c.ipcp.state = "OPENED")
    BY <1>11, FsmMoves DEF Fresh, Linked
  <1>15. Tidy(c, m) /\ Linked(c) /\ Counts(c, m) /\ IpTold(c)
    BY <1>2, <1>11, <1>13, SameKeeps DEF Fresh, Tidy
  <1> HIDE DEF f
  <1>16. Tidy(d, m) /\ Alone(c, d)
    BY <1>14, <1>15, IpcpDropTidy, IpcpDropCounts
  <1> HIDE DEF d
  <1>17. QED
    BY <1>2, <1>12, <1>13, <1>16 DEF Alone, Same, SameFields

\* upap_authpeer, when the lower layer is up
LEMMA PapAuthPeerTidy ==
    ASSUME NEW a \in Session, a.lcp.state = "OPENED", Tidy(a, 1),
           a.papS \notin {"INITIAL", "PENDING", "LISTEN"}
    PROVE  Tidy(PapAuthPeer(a), 1)
  <1> DEFINE t == [a EXCEPT !.papS = "LISTEN"]
             b == Arm(t, "papReq")
  <1>1. "papReq" \in Timers /\ "LISTEN" \in PapStates
    BY DEF Timers, PapStates
  <1>2. PapAuthPeer(a) = b
    BY DEF PapAuthPeer
  <1>3. t \in Session
    BY <1>1 DEF Session
  <1>4. /\ t.papC = a.papC /\ t.papS = "LISTEN" /\ t.timers = a.timers
        /\ t.lcp = a.lcp /\ t.echo = a.echo /\ t.chapS = a.chapS
        /\ t.npUp = a.npUp /\ t.ipcpUp = a.ipcpUp
        /\ t.authState = a.authState /\ t.authScript = a.authScript /\ t.authPid = a.authPid
        /\ t.ipScript = a.ipScript /\ t.ipPid = a.ipPid /\ t.ipcp = a.ipcp
    BY DEF Session
  <1> HIDE DEF t
  <1>5. /\ SameFields(t, b) /\ b.lcp = t.lcp
        /\ b.timers["papReq"] = t.timers["papReq"] + 1
        /\ \A u \in Timers \ {"papReq"} : b.timers[u] = t.timers[u]
    BY <1>1, <1>3, Ticks
  <1> HIDE DEF b
  <1>6. Counts(b, 1)
    BY <1>4, <1>5 DEF Tidy, Counts, SameFields, AuthTold, Timers, Less
  <1>7. QED
    BY <1>2, <1>4, <1>5, <1>6 DEF Tidy, IpTold, SameFields

LEMMA AuthWithPeerTidy ==
    ASSUME NEW a \in Session, NEW m \in Nat, Tidy(a, m)
    PROVE  Tidy(PapAuthWithPeer(a), m) /\ Tidy(ChapAuthWithPeer(a), m)
  <1> DEFINE t == [a EXCEPT !.papXmits = 0]
             u == [t EXCEPT !.papC = "PENDING"]
  <1>1. PapAuthWithPeer(a) \in {u, PapSend(t)}
    BY DEF PapAuthWithPeer
  <1>2. Same(a, t) /\ t \in Session
    BY FieldSame, FieldAside, AsideSession
  <1>3. Same(a, ChapAuthWithPeer(a))
    BY FieldSame DEF ChapAuthWithPeer
  <1> HIDE DEF t
  <1>4. Tidy(t, m)
    BY <1>2, SameKeeps
  <1>5. Tidy(u, m)
    BY <1>2, <1>4, PapLeaves
  <1>6. Tidy(PapSend(t), m)
    BY <1>2, <1>5, PapSendTidy
  <1>7. QED
    BY <1>1, <1>3, <1>5, <1>6, SameKeeps

LEMMA LinkEstablishedTidy ==
    ASSUME NEW a, Fresh(a), Tidy(a, 1), "PENDING" \notin a.chapS, a.papS # "LISTEN"
    PROVE  Tidy(LinkEstablished(a), 1)
  <1> DEFINE u == UpperLayersUp(a)
             p == Phase(u, "AUTHENTICATE")
             t == [p EXCEPT !.chapS = @ \cup {"STARTED"}]
             q == AuthPeer(p)
             r == AuthWithPeer(q)
             x == [r EXCEPT !.pending = Agreed(a.lcp)]
  <1>1. Fresh(u) /\ u.lcp = a.lcp
    BY UpperLayersUpFresh
  <1>2. /\ Tidy(u, 1) /\ u.papS \notin {"INITIAL", "PENDING", "LISTEN"}
        /\ "PENDING" \notin u.chapS
    BY UpperLayersUpTidy
  <1>3. LinkEstablished(a) \in {LcpClose(u), NetworkPhase(x), x}
    BY <1>1 DEF LinkEstablished
  <1> HIDE DEF u
  <1>4. Tidy(LcpClose(u), 1)
    BY <1>1, <1>2, LcpCloseTidy DEF Fresh, Loose
  <1>5. "AUTHENTICATE" \in Phases /\ u \in Session
    BY <1>1 DEF Phases, Fresh, Linked
  <1>6. Linked(p) /\ p.lcp = u.lcp /\ p.chapS = u.chapS /\ Same(u, p)
    BY <1>1, <1>5, PhaseEffect, FieldSame DEF Fresh
  <1> HIDE DEF p
  <1>7. /\ Tidy(p, 1) /\ p \in Session /\ p.lcp.state = "OPENED"
        /\ p.papS \notin {"INITIAL", "PENDING", "LISTEN"}
        /\ "STARTED" \notin p.chapS /\ "PENDING" \notin p.chapS
    BY <1>1, <1>2, <1>6, SameKeeps DEF Same, SameFields, Fresh, Linked
  <1>8. Same(p, t)
    BY <1>7, FieldSame
  <1>9. /\ t \in Session /\ t.lcp = p.lcp /\ t.ipcp = p.ipcp /\ t.ipcpUp = p.ipcpUp
        /\ t.chapS = p.chapS \cup {"STARTED"}
    <2>1. p.chapS \cup {"STARTED"} \in SUBSET ChapFlags
      BY <1>7, SessionFields DEF ChapFlags
    <2>2. QED
      BY <1>7, <2>1 DEF Session
  <1>10. ChapAuthPeer(p) \in {ChapTimeout(t), t}
    BY <1>7 DEF ChapAuthPeer
  <1> HIDE DEF t
  <1>11. Linked(t) /\ Loose(t) /\ Tidy(t, 1)
    BY <1>6, <1>7, <1>8, <1>9, SameKeeps DEF Linked, Loose
  <1>12. Same(t, [t EXCEPT !.chapS = @ \ {"PENDING"}])
    BY <1>7, <1>9, FieldSame
  <1>13. Tidy(ChapTimeout(t), 1)
    BY <1>7, <1>9, <1>11, <1>12, SameKeeps, ChapTimeoutTidy
  <1>14. Linked(ChapTimeout(t))
    BY <1>11, ChapTimeoutEnds, EndsKeeps DEF Loose
  <1>15. Tidy(PapAuthPeer(p), 1) /\ Linked(PapAuthPeer(p))
    BY <1>6, <1>7, PapAuthPeerTidy, AuthStartAside, AsideKeeps
  <1>16. q \in {ChapTimeout(t), t, PapAuthPeer(p), p}
    BY <1>10 DEF AuthPeer
  <1>17. Tidy(q, 1) /\ Linked(q)
    BY <1>6, <1>7, <1>11, <1>13, <1>14, <1>15, <1>16
  <1> HIDE DEF q
  <1>18. r \in {ChapAuthWithPeer(q), PapAuthWithPeer(q), q} /\ q \in Session
    BY <1>17 DEF AuthWithPeer, Linked
  <1>19. Tidy(r, 1) /\ Linked(r)
    BY <1>17, <1>18, AuthWithPeerTidy, AuthStartAside, AsideKeeps
  <1> HIDE DEF r
  <1>20. r \in Session /\ Agreed(a.lcp) \subseteq Auths
    BY <1>19 DEF Linked, Agreed
  <1>21. /\ x \in Session /\ x.lcp = r.lcp /\ x.ipcp = r.ipcp /\ x.ipcpUp = r.ipcpUp
    BY <1>20 DEF Session
  <1>22. Same(r, x)
    BY <1>20, FieldSame
  <1> HIDE DEF x
  <1>23. Linked(x) /\ Tidy(x, 1)
    BY <1>19, <1>21, <1>22, SameKeeps DEF Linked
  <1>24. QED
    BY <1>3, <1>4, <1>23, NetworkPhaseTidy

LEMMA LcpUpTidy ==
    ASSUME NEW a, Fresh(a), Tidy(a, 1), Off(a)
    PROVE  Tidy(LcpUp(a), 1)
  <1> DEFINE t == [a EXCEPT !.echos = 0]
             u == [t EXCEPT !.echo = FALSE]
             v == EchoCheck(u)
  <1>1. LcpUp(a) = LinkEstablished(v) /\ a \in Session
    BY DEF LcpUp, Fresh, Linked
  <1>2. Aside(a, t) /\ Same(a, t)
    BY <1>1, FieldAside, FieldSame
  <1>3. t \in Session /\ t.echos = 0
    BY <1>1, <1>2, AsideSession DEF Session
  <1> HIDE DEF t
  <1>4. Aside(t, u) /\ ~t.echo
    BY <1>2, <1>3, FieldAside DEF Same, SameFields, Off
  <1>5. u.echos = 0 /\ ~u.echo /\ Same(t, u)
    BY <1>3, <1>4, SessionFields DEF Session, Same, SameFields
  <1> HIDE DEF u
  <1>6. Fresh(u) /\ Tidy(u, 1) /\ Off(u)
    BY <1>2, <1>4, <1>5, AsideTwice, FreshAside, SameTwice, SameKeeps
  <1>7. Aside(u, v) /\ Tidy(v, 1) /\ v.chapS = u.chapS /\ v.papS = u.papS
    BY <1>5, <1>6, EchoCheckEnds, EchoCheckTidy DEF Fresh, Loose
  <1> HIDE DEF v
  <1>8. Fresh(v)
    BY <1>6, <1>7, FreshAside
  <1>9. QED
    BY <1>1, <1>6, <1>7, <1>8, LinkEstablishedTidy DEF Off

LEMMA LcpRunTidy ==
    ASSUME NEW a, Sound(a), NEW f, Moves(a.lcp, f), Tidy(a, 1)
    PROVE  Tidy(LcpRun(a, f), 1)
  <1> DEFINE t == LcpFall(a, f)
             u == IF "up" \in Calls(f) THEN LcpUp(t) ELSE t
  <1>1. Linked(a)
    BY DEF Sound
  <1>2. /\ Linked(t) /\ t.lcp.state = f.state
        /\ IF a.lcp.state = "OPENED" /\ f.state # "OPENED"
             THEN Quiet(t)
             ELSE t.phase = a.phase /\ t.ipcp = a.ipcp /\ t.chapS = a.chapS
    BY <1>1, LcpFallEffect
  <1>3. Tidy(t, 1) /\ (a.lcp.state # "OPENED" => Off(t))
    BY <1>1, LcpFallTidy
  <1>4. LcpRun(a, f) = LcpFinish(u, f)
    BY MadeCalls DEF LcpRun
  <1> HIDE DEF t
  <1>5. Linked(u) /\ Tidy(u, 1)
    <2>1. CASE "up" \in Calls(f)
      <3>1. a.lcp.state # "OPENED" /\ f.state = "OPENED"
        BY <2>1 DEF Moves, Candid
      <3>2. Fresh(t)
        BY <1>2, <3>1 DEF Fresh, Sound, Quiet, Proved, InNetwork
      <3>3. Sound(LcpUp(t)) /\ Tidy(LcpUp(t), 1)
        BY <1>3, <3>1, <3>2, LcpUpSound, LcpUpTidy
      <3>4. QED
        BY <2>1, <3>3 DEF Sound
    <2>2. CASE "up" \notin Calls(f)
      BY <1>2, <1>3, <2>2
    <2>3. QED
      BY <2>1, <2>2
  <1>6. QED
    BY <1>4, <1>5, LcpFinishTidy

\* The entries no flag speaks of
LEMMA SpareTidy ==
    ASSUME NEW a \in Session, NEW timer \in {"delayed", "holdoff"},
           NEW m \in Nat, Tidy(a, m)
    PROVE  Tidy(Arm(a, timer), m) /\ Tidy(Cancel(a, timer), m)
  <1>1. timer \in Timers
    BY DEF Timers
  <1>2. ASSUME NEW b, SameFields(a, b), b.lcp = a.lcp,
               \A x \in Timers \ {timer} : b.timers[x] = a.timers[x]
        PROVE  Tidy(b, m)
    BY <1>2 DEF Tidy, Counts, SameFields, AuthTold, IpTold, Off, Timers
  <1>3. QED
    BY <1>1, <1>2, Ticks

LEMMA LcpLowerupTidy ==
    ASSUME NEW a, Sound(a), Tidy(a, 1)
    PROVE  Tidy(LcpDelayedUp(a), 1) /\ Tidy(LcpLowerup(a), 1)
  <1>1. a \in Session
    BY DEF Sound, Linked
  <1>2. ASSUME NEW b, Sound(b), Tidy(b, 1)
        PROVE  Tidy(LcpRun(b, Lowerup(b.lcp)), 1)
    BY <1>2, FsmMoves, LcpRunTidy DEF Sound, Linked
  <1>3. Tidy(LcpDelayedUp(a), 1)
    <2> DEFINE b == [a EXCEPT !.delayed = FALSE]
    <2>1. Aside(a, b) /\ Same(a, b)
      BY <1>1, FieldAside, FieldSame
    <2>2. Sound(b) /\ Tidy(b, 1) /\ b.lcp = a.lcp
      BY <2>1, AsideKeeps, SameKeeps DEF Aside
    <2>3. LcpDelayedUp(a) \in {a, LcpRun(b, Lowerup(b.lcp))}
      BY <2>2 DEF LcpDelayedUp
    <2> HIDE DEF b
    <2>4. QED
      BY <1>2, <2>2, <2>3
  <1>4. Tidy(LcpLowerup(a), 1)
    <2> DEFINE b == [a EXCEPT !.delayed = TRUE]
    <2>1. b \in Session /\ Same(a, b)
      BY <1>1, FieldAside, FieldSame, AsideSession
    <2>2. LcpLowerup(a) \in {Arm(b, "delayed"), LcpRun(a, Lowerup(a.lcp))}
      BY DEF LcpLowerup
    <2> HIDE DEF b
    <2>3. Tidy(Arm(b, "delayed"), 1)
      BY <2>1, SameKeeps, SpareTidy
    <2>4. QED
      BY <1>2, <2>2, <2>3
  <1>5. QED
    BY <1>3, <1>4

-----------------------------------------------------------------------------
(* Frames. *)

LEMMA RProtRejTidy ==
    ASSUME NEW a, Sound(a), Tidy(a, 1), NEW proto
    PROVE  Tidy(RProtRej(a, proto), 1)
  <1>1. Tidy(PapProtrej(a), 1) /\ Tidy(ChapProtrej(a), 1)
    BY PapProtrejTidy, ChapProtrejTidy
  <1>2. Tidy(IpcpLowerdown(a), 1)
    <2>1. Moves(a.ipcp, Lowerdown(a.ipcp)) /\ Lowerdown(a.ipcp).state # "OPENED"
      BY FsmMoves DEF Sound, Linked
    <2>2. QED
      BY <2>1, IpcpDropTidy DEF Sound, IpcpLowerdown
  <1>3. Tidy(LcpRun(a, ProtReject(a.lcp)), 1)
    BY FsmMoves, LcpRunTidy DEF Sound, Linked
  <1>4. QED
    BY <1>1, <1>2, <1>3 DEF RProtRej

LEMMA LcpInputTidy ==
    ASSUME NEW a, Sound(a), Tidy(a, 1), NEW e \in PeerEvents, e.proto = "lcp"
    PROVE  Tidy(LcpInput(a, e), 1)
  <1> DEFINE b == LcpDelayedUp(a)
             m == [code |-> e.code, id |-> 0, val |-> e.val]
  <1>1. Sound(b) /\ Tidy(b, 1)
    BY LcpLowerupSound, LcpLowerupTidy
  <1>2. LcpInput(a, e) = LcpFrame(b, e)
    BY DEF LcpInput
  <1> HIDE DEF b
  <1>3. b \in Session
    BY <1>1 DEF Sound, Linked
  <1>4. CASE e.code = "EchoRep"
    <2>1. Same(b, [b EXCEPT !.echos = 0])
      BY <1>3, FieldSame
    <2>2. LcpFrame(b, e) \in {b, [b EXCEPT !.echos = 0]}
      BY <1>4 DEF LcpFrame
    <2>3. QED
      BY <1>1, <1>2, <2>1, <2>2, SameKeeps
  <1>5. CASE e.code = "ProtRej"
    BY <1>1, <1>2, <1>5, RProtRejTidy DEF LcpFrame
  <1>6. CASE e.code \notin {"EchoRep", "ProtRej"}
    <2>1. m \in Frame
      BY <1>6, EventsAssumption, BoundsAssumption DEF Frame, Ids
    <2>2. LcpFrame(b, e) = LcpRun(b, Input(b.lcp, m))
      BY <1>6 DEF LcpFrame
    <2> HIDE DEF m
    <2>3. Moves(b.lcp, Input(b.lcp, m))
      BY <1>1, <2>1, FsmMoves DEF Sound, Linked
    <2>4. QED
      BY <1>1, <1>2, <2>2, <2>3, LcpRunTidy
  <1>7. QED
    BY <1>4, <1>5, <1>6

LEMMA DeliverTidy ==
    ASSUME NEW a, Sound(a), a.lcp.state = "OPENED", Tidy(a, 1),
           NEW e \in PeerEvents, e.proto \notin {"eof", "lcp"},
           e.proto = "ipcp" => a.pending = {}
    PROVE  Tidy(Deliver(a, e), 1)
  <1>1. CASE e.proto = "ipcp"
    <2> DEFINE m == [code |-> e.code, id |-> 0, val |-> e.val]
    <2>1. m \in Frame
      BY <1>1, EventsAssumption, BoundsAssumption DEF Frame, Ids
    <2>2. Deliver(a, e) = IpcpRun(a, Input(a.ipcp, m), e.ok)
      BY <1>1 DEF Deliver
    <2> HIDE DEF m
    <2>3. Moves(a.ipcp, Input(a.ipcp, m))
      BY <2>1, FsmMoves DEF Sound, Linked
    <2>4. Proved(a) /\ a.pending = {}
      BY <1>1 DEF Sound, Quiet
    <2>5. QED
      BY <2>2, <2>3, <2>4, IpcpRunTidy
  <1>2. CASE e.proto = "pap"
    <2>1. e.code \in {"Req", "Ack", "Nak"}
      BY <1>2, EventsAssumption
    <2>2. QED
      BY <1>2, <2>1, PapRequestTidy, PapVerdictTidy DEF Deliver
  <1>3. CASE e.proto = "chap"
    <2>1. e.code \in {"Response", "Status"}
      BY <1>3, EventsAssumption
    <2>2. QED
      BY <1>3, <2>1, ChapResponseTidy, ChapStatusTidy DEF Deliver
  <1>4. QED
    BY <1>1, <1>2, <1>3, EventsAssumption

LEMMA GetInputTidy ==
    ASSUME NEW a, Sound(a), Tidy(a, 1), NEW e \in PeerEvents
    PROVE  Tidy(GetInput(a, e), 1)
  <1>1. CASE e.proto = "eof"
    <2> DEFINE b == [a EXCEPT !.hungup = TRUE]
               c == LcpLowerdown(b)
    <2>1. Aside(a, b) /\ Same(a, b)
      BY FieldAside, FieldSame DEF Sound, Linked
    <2>2. GetInput(a, e) = LinkTerminated(c)
      BY <1>1 DEF GetInput
    <2> HIDE DEF b
    <2>3. Sound(b) /\ Linked(b) /\ Tidy(b, 1)
      BY <2>1, AsideKeeps, SameKeeps DEF Sound
    <2>4. Linked(c) /\ Tidy(c, 1)
      BY <2>3, LcpLowerdownEffect, LinkTerminatedTidy DEF Sound
    <2> HIDE DEF c
    <2>5. QED
      BY <2>2, <2>4, LinkTerminatedTidy
  <1>2. CASE e.proto = "lcp"
    BY <1>2, LcpInputTidy DEF GetInput
  <1>3. CASE e.proto \notin {"eof", "lcp"}
    <2>1. CASE GetInput(a, e) = a
      BY <2>1
    <2>2. CASE GetInput(a, e) # a
      <3>1. /\ GetInput(a, e) = Deliver(a, e) /\ a.lcp.state = "OPENED"
            /\ e.proto = "ipcp" =>
                 a.phase \notin {"DEAD", "SERIALCONN", "DORMANT", "ESTABLISH", "AUTHENTICATE"}
        BY <1>3, <2>2 DEF GetInput
      <3>2. a.phase \in Phases
        BY SessionFields DEF Sound, Linked
      <3>3. e.proto = "ipcp" => a.pending = {}
        BY <3>1, <3>2 DEF Sound, Quiet, Proved, InNetwork, Phases
      <3>4. QED
        BY <1>3, <3>1, <3>3, DeliverTidy
    <2>3. QED
      BY <2>1, <2>2
  <1>4. QED
    BY <1>1, <1>2, <1>3

-----------------------------------------------------------------------------
(* main(): the steps of PppSession. *)

LEMMA InitTidy == ASSUME Init PROVE Tidy(s, 1)
  <1>1. lcp \in Units /\ ipcp \in Units /\ FsmInit(ipcp).state = "INITIAL"
    BY SessionAssumption DEF FsmInit
  <1>2. \A t \in Timers : s.timers[t] = 0
    BY DEF Init, SessionInit
  <1>3. /\ ~s.echo /\ s.chapS = {} /\ s.papC = "INITIAL" /\ s.papS = "INITIAL"
        /\ s.npUp = 0 /\ ~s.ipcpUp /\ s.authState = "down" /\ s.authScript = "down"
        /\ s.ipScript = "down" /\ s.ipcp = FsmInit(ipcp)
    BY DEF Init, SessionInit
  <1>4. QED
    BY <1>1, <1>2, <1>3 DEF Tidy, Counts, AuthTold, IpTold, Off, Timers, Less

LEMMA AfterSessionTidy ==
    ASSUME NEW a, Sound(a), Tidy(a, 1), NEW p, NEW q, AfterSession(a, p, q)
    PROVE  Tidy(s', 1)
  <1> DEFINE t == LcpClose(a)
             slow == t.slow \/ t.unsuccess > SlowAfter
             u == [t EXCEPT !.slow = slow]
             v == Phase(u, "HOLDOFF")
  <1>1. t \in Session /\ Tidy(t, 1)
    BY SoundLoose, LcpCloseEffect, LcpCloseTidy DEF Linked
  <1>2. s' \in {t, u, Arm(v, "holdoff")}
    BY DEF AfterSession, Redial
  <1> HIDE DEF t
  <1>3. slow \in BOOLEAN
    BY <1>1, SessionFields
  <1> HIDE DEF slow
  <1>4. u \in Session /\ Tidy(u, 1)
    BY <1>1, <1>3, FieldAside, FieldSame, AsideSession, SameKeeps
  <1> HIDE DEF u
  <1>5. v \in Session
    BY <1>4 DEF Phase, Phases, Session
  <1>6. Tidy(v, 1)
    BY <1>4, FieldSame, SameKeeps
  <1> HIDE DEF v
  <1>7. Tidy(Arm(v, "holdoff"), 1)
    BY <1>5, <1>6, SpareTidy
  <1>8. QED
    BY <1>1, <1>2, <1>4, <1>7

LEMMA EndRoundTidy ==
    ASSUME NEW a, Sound(a), Tidy(a, 1), NEW p, NEW q, EndRound(a, p, q)
    PROVE  Tidy(s', 1)
  BY AfterSessionTidy DEF EndRound

LEMMA BetweenTidy == ASSUME IndInv, Tidy(s, 1), Between PROVE Tidy(s', 1)
  <1>1. Sound(s) /\ (pc # "session" => Quiet(s)) /\ s \in Session
    BY DEF IndInv, Sound, Linked
  <1>2. CASE Dial
    <2> DEFINE limit == IF MaxFail > SlowAfter THEN MaxFail ELSE SlowAfter + 1
               n == IF s.unsuccess >= limit THEN limit ELSE s.unsuccess + 1
               a == [s EXCEPT !.needHoldoff = TRUE]
               b == [a EXCEPT !.hungup = FALSE]
               t == [b EXCEPT !.unsuccess = n]
               f == Open(t.lcp)
               u == [t EXCEPT !.lcp = Silent(f)]
    <2>1. s' = Phase(u, "SERIALCONN")
      BY <1>2 DEF Dial
    <2>2. Quiet(s) /\ n \in Nat
      BY <1>1, <1>2, MainAssumption, SessionFields DEF Dial
    <2> HIDE DEF limit, n
    <2>3. Aside(s, a) /\ a \in Session /\ Same(s, a)
      BY <1>1, FieldAside, FieldSame, AsideSession
    <2> HIDE DEF a
    <2>4. Aside(a, b) /\ b \in Session /\ Same(a, b)
      BY <2>3, FieldAside, FieldSame, AsideSession
    <2> HIDE DEF b
    <2>5. Aside(b, t) /\ Same(b, t)
      BY <2>2, <2>4, FieldAside, FieldSame
    <2>6. Linked(t) /\ Quiet(t) /\ Tidy(t, 1)
      BY <1>1, <2>2, <2>3, <2>4, <2>5, AsideTwice, AsideKeeps, SameTwice, SameKeeps
      DEF Sound
    <2> HIDE DEF t
    <2>7. Moves(t.lcp, f)
      BY <2>6, FsmMoves DEF Linked
    <2> HIDE DEF f
    <2>8. Silent(f) \in Fsm
      BY <2>7, SilentSteady DEF Moves, Steady
    <2>9. u \in Session
      BY <2>6, <2>8 DEF Linked, Session
    <2>10. SameFields(t, u) /\ u.timers = t.timers
      BY <2>6 DEF Linked, Session, SameFields
    <2> HIDE DEF u
    <2>11. Off(t)
      BY <2>6 DEF Tidy, Quiet
    <2>12. Tidy(u, 1)
      BY <2>6, <2>10, <2>11 DEF Tidy, SameFields, Counts, AuthTold, IpTold, Off
    <2>13. QED
      BY <2>1, <2>9, <2>12, FieldSame, SameKeeps
  <1>3. CASE EndHoldoff
    BY <1>1, <1>3, FieldSame, SameKeeps DEF EndHoldoff
  <1>4. CASE HoldoffOver \/ Exit
    BY <1>4 DEF HoldoffOver, Exit
  <1>5. QED
    BY <1>2, <1>3, <1>4 DEF Between

LEMMA RoundTidy == ASSUME IndInv, Tidy(s, 1), Round PROVE Tidy(s', 1)
  <1>1. Sound(s) /\ (pc # "session" => Quiet(s)) /\ s \in Session /\ Linked(s)
    BY DEF IndInv, Sound, Linked
  <1>2. CASE Connect
    <2> DEFINE p == Phase(s, "ESTABLISH")
               b == [p EXCEPT !.fd = TRUE]
    <2>1. Linked(p) /\ Quiet(p) /\ Same(s, p)
      BY <1>1, <1>2, PhaseQuiet, FieldSame DEF Connect, Phases
    <2>2. s' = LcpLowerup(b)
      BY <1>2 DEF Connect
    <2> HIDE DEF p
    <2>3. Aside(p, b) /\ Same(p, b)
      BY <2>1, FieldAside, FieldSame DEF Linked
    <2>4. Sound(b) /\ Tidy(b, 1)
      BY <2>1, <2>3, AsideKeeps, SameKeeps DEF Sound
    <2>5. QED
      BY <2>2, <2>4, LcpLowerupTidy
  <1>3. CASE ConnectFails
    <2>1. Sound(Phase(s, "DEAD")) /\ Tidy(Phase(s, "DEAD"), 1)
      BY <1>1, <1>3, PhaseQuiet, FieldSame, SameKeeps DEF ConnectFails, Phases
    <2>2. QED
      BY <1>3, <2>1, AfterSessionTidy DEF ConnectFails
  <1>4. CASE Leave
    BY <1>1, <1>4, EndRoundTidy DEF Leave
  <1>5. CASE TakeSignals
    <2>1. Sound(LcpClose(s)) /\ Tidy(LcpClose(s), 1)
      BY <1>1, SoundLoose, LcpCloseSound, LcpCloseTidy
    <2>2. ASSUME NEW e \in PeerEvents
          PROVE  LET b == LcpClose(GetInput(s, e)) IN Sound(b) /\ Tidy(b, 1)
      BY <1>1, GetInputSound, GetInputTidy, SoundLoose, LcpCloseSound, LcpCloseTidy
    <2>3. QED
      BY <1>5, <2>1, <2>2, EndRoundTidy DEF TakeSignals
  <1>6. QED
    BY <1>2, <1>3, <1>4, <1>5 DEF Round

LEMMA TimersTidy ==
    ASSUME IndInv, Tidy(s, 1), NEW timer \in Timers, Timeouts(timer)
    PROVE  Tidy(s', 1)
  <1> DEFINE t == Cancel(s, timer)
  <1>1. Sound(s) /\ s \in Session /\ s.timers[timer] > 0
    BY DEF IndInv, Sound, Linked, Timeouts
  <1>2. Aside(s, t) /\ Sound(t) /\ t \in Session /\ Loose(t)
    BY <1>1, TimerAside, AsideKeeps, AsideSession, SoundLoose
  <1>3. Fire(t, timer)
    BY DEF Timeouts
  <1>4. /\ SameFields(s, t) /\ t.lcp = s.lcp /\ t.chapS = s.chapS
        /\ t.timers[timer] = Less(s.timers[timer])
        /\ \A x \in Timers \ {timer} : t.timers[x] = s.timers[x]
    BY <1>1, Ticks
  <1>5. s.timers \in [Timers -> Nat] /\ t.timers \in [Timers -> Nat]
    BY <1>1, <1>2, SessionFields
  <1>6. timer \in {"delayed", "holdoff"} => Tidy(t, 1)
    BY <1>1, SpareTidy
  <1> HIDE DEF t
  <1>7. IpTold(t) /\ (t.lcp.state # "OPENED" => Off(t))
    BY <1>4 DEF Tidy, SameFields, IpTold, Off
  <1>8. CASE timer = "echo"
    <2> DEFINE b == [t EXCEPT !.echo = FALSE]
    <2>1. t.echo
      BY <1>1, <1>4, <1>8 DEF Tidy, Counts, SameFields
    <2>2. s' = EchoCheck(b)
      BY <1>3, <1>8, <2>1 DEF Fire
    <2>3. Loose(b)
      BY <1>2, FieldAside, AsideKeeps
    <2>4. /\ b.papC = t.papC /\ b.papS = t.papS /\ b.timers = t.timers
          /\ b.lcp = t.lcp /\ b.echo = FALSE /\ b.chapS = t.chapS
          /\ b.npUp = t.npUp /\ b.ipcpUp = t.ipcpUp
          /\ b.authState = t.authState /\ b.authScript = t.authScript /\ b.authPid = t.authPid
          /\ b.ipScript = t.ipScript /\ b.ipPid = t.ipPid /\ b.ipcp = t.ipcp
      BY <1>2 DEF Session
    <2> HIDE DEF b
    <2>5. Counts(b, 1)
      BY <1>4, <1>8, <2>1, <2>4 DEF Tidy, Counts, SameFields, AuthTold, Timers, Less
    <2>6. Tidy(b, 1)
      BY <1>7, <2>4, <2>5 DEF Tidy, IpTold, Off
    <2>7. QED
      BY <2>2, <2>3, <2>4, <2>6, EchoCheckTidy
  <1>9. CASE timer = "idle"
    <2> DEFINE c == LcpClose(t)
               b == Arm(t, "idle")
    <2>1. s' \in {[c EXCEPT !.needHoldoff = FALSE], b, t}
      BY <1>3, <1>9 DEF Fire, CheckIdle
    <2>2. Counts(t, 1) /\ t.timers["idle"] = 0 /\ t.npUp = 1
      BY <1>1, <1>4, <1>5, <1>9 DEF Tidy, Counts, SameFields, AuthTold, Timers, Less
    <2>3. Tidy(t, 1)
      BY <1>7, <2>2 DEF Tidy
    <2>4. Tidy(c, 1) /\ c \in Session
      BY <1>2, <2>3, LcpCloseTidy, LcpCloseEffect DEF Linked
    <2> HIDE DEF c
    <2>5. Tidy([c EXCEPT !.needHoldoff = FALSE], 1)
      BY <2>4, FieldSame, SameKeeps
    <2>6. /\ SameFields(t, b) /\ b.lcp = t.lcp /\ b.timers["idle"] = t.timers["idle"] + 1
          /\ \A x \in Timers \ {"idle"} : b.timers[x] = t.timers[x]
      BY <1>2, <1>9, Ticks
    <2> HIDE DEF b
    <2>7. Tidy(b, 1)
      BY <2>2, <2>3, <2>6 DEF Tidy, Counts, SameFields, AuthTold, IpTold, Off, Timers
    <2>8. QED
      BY <2>1, <2>3, <2>5, <2>7
  <1>10. CASE timer = "chap"
    <2> DEFINE b == [t EXCEPT !.chapS = @ \ {"PENDING"}]
    <2>1. "PENDING" \in s.chapS /\ t.lcp.state = "OPENED"
      BY <1>1, <1>4, <1>10 DEF Tidy, Counts, Off
    <2>2. /\ b.papC = t.papC /\ b.papS = t.papS /\ b.timers = t.timers
          /\ b.lcp = t.lcp /\ b.echo = t.echo /\ "PENDING" \notin b.chapS
          /\ b.npUp = t.npUp /\ b.ipcpUp = t.ipcpUp
          /\ b.authState = t.authState /\ b.authScript = t.authScript /\ b.authPid = t.authPid
          /\ b.ipScript = t.ipScript /\ b.ipPid = t.ipPid /\ b.ipcp = t.ipcp
      BY <1>2 DEF Session
    <2> HIDE DEF b
    <2>3. Counts(b, 1)
      BY <1>4, <1>10, <2>1, <2>2 DEF Tidy, Counts, SameFields, AuthTold, Timers, Less
    <2>4. Tidy(b, 1)
      BY <1>7, <2>1, <2>2, <2>3 DEF Tidy, IpTold
    <2>5. s' = ChapTimeout(t)
      BY <1>3, <1>10 DEF Fire
    <2>6. QED
      BY <1>2, <2>1, <2>4, <2>5, ChapTimeoutTidy DEF b
  <1>11. CASE timer = "pap"
    <2> DEFINE b == [t EXCEPT !.papC = "INITIAL"]
    <2>1. /\ b.papC = "INITIAL" /\ b.papS = t.papS /\ b.timers = t.timers
          /\ b.lcp = t.lcp /\ b.echo = t.echo /\ b.chapS = t.chapS
          /\ b.npUp = t.npUp /\ b.ipcpUp = t.ipcpUp
          /\ b.authState = t.authState /\ b.authScript = t.authScript /\ b.authPid = t.authPid
          /\ b.ipScript = t.ipScript /\ b.ipPid = t.ipPid /\ b.ipcp = t.ipcp
      BY <1>2 DEF Session
    <2> HIDE DEF b
    <2>2. Counts(b, 1)
      BY <1>4, <1>5, <1>11, <2>1 DEF Tidy, Counts, SameFields, AuthTold, Timers
    <2>3. Tidy(b, 1)
      BY <1>7, <2>1, <2>2 DEF Tidy, IpTold, Off
    <2>4. s' = PapTimeout(t)
      BY <1>3, <1>11 DEF Fire
    <2>5. QED
      BY <1>2, <2>3, <2>4, PapTimeoutTidy DEF b
  <1>12. CASE timer = "papReq"
    <2>1. t.papS = "LISTEN"
      BY <1>1, <1>4, <1>12 DEF Tidy, Counts, SameFields, Less
    <2>2. Counts(t, 0)
      BY <1>4, <1>12, <2>1 DEF Tidy, Counts, SameFields, AuthTold, Timers, Less
    <2>3. s' = PapReqTimeout(t)
      BY <1>3, <1>12 DEF Fire
    <2>4. QED
      BY <1>2, <1>7, <2>1, <2>2, <2>3, PapReqTimeoutTidy DEF Tidy
  <1>13. CASE timer = "delayed"
    BY <1>2, <1>3, <1>6, <1>13, LcpLowerupTidy DEF Fire
  <1>14. CASE timer = "holdoff"
    BY <1>2, <1>3, <1>6, <1>14, FieldSame, SameKeeps, ZenonT(40) DEF Fire
  <1>15. QED
    BY <1>8, <1>9, <1>10, <1>11, <1>12, <1>13, <1>14 DEF Timers

LEMMA DueTidy == ASSUME IndInv, Tidy(s, 1), Due PROVE Tidy(s', 1)
  <1>1. Sound(s) /\ Linked(s)
    BY DEF IndInv, Sound
  <1>2. CASE LcpTimeout
    BY <1>1, <1>2, FsmMoves, LcpRunTidy DEF LcpTimeout, Linked
  <1>3. CASE IpcpTimeout
    <2> DEFINE f == Expire(Untimeout(s.ipcp))
    <2>1. s' = IpcpRun(s, f, TRUE) /\ s.ipcp.timers > 0
      BY <1>3 DEF IpcpTimeout
    <2>2. Moves(s.ipcp, f) /\ (f.state = "OPENED" => s.ipcp.state = "OPENED")
      BY <1>1, <2>1, FsmMoves DEF Linked
    <2> HIDE DEF f
    <2>3. QED
      BY <1>1, <2>1, <2>2, IpcpRunTidy
  <1>4. QED
    BY <1>2, <1>3, TimersTidy DEF Due

\* A script that has exited tells of the present state, or another one runs.
LEMMA ScriptsTidy == ASSUME IndInv, Tidy(s, 1), Scripts PROVE Tidy(s', 1)
  <1>1. s \in Session
    BY DEF IndInv, Sound, Linked
  <1>2. ASSUME NEW x, NEW n,
               n \/ x = s.authState,
               s' = [s EXCEPT !.authScript = x, !.authPid = n]
        PROVE  Tidy(s', 1)
    <2>1. /\ Alone(s, s') /\ s'.papC = s.papC /\ s'.timers = s.timers
          /\ s'.npUp = s.npUp /\ s'.ipcpUp = s.ipcpUp
          /\ s'.authState = s.authState /\ s'.authScript = x /\ s'.authPid = n
          /\ s'.ipScript = s.ipScript /\ s'.ipPid = s.ipPid /\ s'.ipcp = s.ipcp
      BY <1>1, <1>2 DEF Session, Alone
    <2>2. QED
      BY <1>2, <2>1 DEF Tidy, Counts, AuthTold, IpTold, Off, Alone
  <1>3. ASSUME NEW x, NEW n,
               n \/ (x = "up" <=> s.ipcp.state = "OPENED"),
               s' = [s EXCEPT !.ipScript = x, !.ipPid = n]
        PROVE  Tidy(s', 1)
    <2>1. /\ Alone(s, s') /\ s'.papC = s.papC /\ s'.timers = s.timers
          /\ s'.npUp = s.npUp /\ s'.ipcpUp = s.ipcpUp
          /\ s'.authState = s.authState /\ s'.authScript = s.authScript
          /\ s'.authPid = s.authPid
          /\ s'.ipScript = x /\ s'.ipPid = n /\ s'.ipcp = s.ipcp
      BY <1>1, <1>3 DEF Session, Alone
    <2>2. QED
      BY <1>3, <2>1 DEF Tidy, Counts, AuthTold, IpTold, Off, Alone
  <1>4. CASE AuthScriptDone
    BY <1>2, <1>4 DEF AuthScriptDone
  <1>5. CASE IpScriptDone
    BY <1>3, <1>5 DEF IpScriptDone
  <1>6. QED
    BY <1>4, <1>5 DEF Scripts

LEMMA StepTidy == IndInv /\ Tidy(s, 1) /\ [Next]_vars => Tidy(s', 1)
  <1> SUFFICES ASSUME IndInv, Tidy(s, 1), [Next]_vars PROVE Tidy(s', 1)
    OBVIOUS
  <1>1. CASE Between \/ Round \/ Due \/ Scripts
    BY <1>1, BetweenTidy, RoundTidy, DueTidy, ScriptsTidy
  <1>2. CASE \E e \in PeerEvents : Receive(e)
    BY <1>2, GetInputSound, GetInputTidy, EndRoundTidy DEF Receive, IndInv
  <1>3. CASE UNCHANGED vars \/ PeerDies \/ \E sig \in Signals : Signal(sig)
    BY <1>3 DEF vars, PeerDies, Signal
  <1>4. QED
    BY <1>1, <1>2, <1>3 DEF Next

\* Between the steps of main() the list holds what the flags say.
Orderly == Tidy(s, 1)

LEMMA OrderlyAlways == Spec => [](IndInv /\ Orderly)
  <1>1. Init => Orderly
    BY InitTidy DEF Orderly
  <1>2. IndInv /\ Orderly /\ [Next]_vars => Orderly'
    BY StepTidy DEF Orderly
  <1>3. QED
    BY <1>1, <1>2, Invariance, PTL DEF Spec

(* The callout list is what the flags of the protocols say, in every run: no
   timer of LCP, CHAP or PAP is forgotten, set twice or outlives the link. *)
THEOREM CalloutCorrect == Spec => []CalloutInv
  <1>1. IndInv /\ Orderly => CalloutInv
    <2> SUFFICES ASSUME IndInv, Orderly PROVE CalloutInv
      OBVIOUS
    <2>1. Sound(s) /\ s.timers \in [Timers -> Nat] /\ Tidy(s, 1)
      BY SessionFields DEF IndInv, Orderly, Sound, Linked
    <2>2. s.lcp.state # "OPENED" => ~s.ipcpUp /\ Off(s)
      BY <2>1 DEF Sound, Linked, Quiet, Proved, InNetwork, Tidy
    <2>3. QED
      BY <2>1, <2>2 DEF CalloutInv, Tidy, Counts, Off, Less, Timers
  <1>2. QED
    BY <1>1, OrderlyAlways, PTL

(* When no script runs, the last one that ran told of the present state, however
   often the link went up and down while it ran. *)
THEOREM ScriptsCorrect == Spec => []ScriptsInv
  <1>1. Orderly => ScriptsInv
    BY DEF Orderly, ScriptsInv, Tidy, Counts, AuthTold, IpTold
  <1>2. QED
    BY <1>1, OrderlyAlways, PTL

-----------------------------------------------------------------------------
(***************************************************************************)
(* The device and what is left of a session without one.  W is what is     *)
(* known of the past: "calm", no entry of the holdoff is left over from an *)
(* earlier one, and "clean", CHAP had not finished before LCP came up.     *)
(***************************************************************************)

\* Nothing above LCP has started.
Clear(a) ==
    /\ a.ipcp.state = "INITIAL" /\ a.npOpen = 0 /\ a.npUp = 0 /\ ~a.ipcpUp
    /\ a.authState = "down" /\ a.success = {}
    /\ a.papC = "INITIAL" /\ a.papS \in {"INITIAL", "BADAUTH"}
    /\ a.chapC = {} /\ a.chapS \subseteq {"DONE"}

\* LCP does not wait for its lower layer, and will not get it by itself.
Low(a) == Below(a.lcp) /\ ~a.delayed

\* What holds while the lower layer of LCP goes away, and otherwise
Base(a, W) ==
    /\ a.lcp.state # "OPENED" => Clear(a)
    /\ a.phase = "DEAD" => ~a.fd
    /\ a.delayed => Below(a.lcp) /\ a.timers["delayed"] > 0
    /\ "calm" \in W => a.timers["holdoff"] = 0 /\ a.phase # "DORMANT"
Core(a, W) == Base(a, W) /\ (~a.fd \/ a.hungup => Low(a))

\* What a function of the layers above LCP leaves alone ...
SameDevice(a, b) ==
    /\ b.fd = a.fd /\ b.hungup = a.hungup /\ b.delayed = a.delayed
    /\ b.timers["delayed"] = a.timers["delayed"] /\ b.timers["holdoff"] = a.timers["holdoff"]
    /\ b.phase \in {"DEAD", "DORMANT"} => b.phase = a.phase
\* ... and what the ones of IPCP do, in the authentication protocols
SameProofs(a, b) ==
    /\ b.papC = a.papC /\ b.papS = a.papS /\ b.chapC = a.chapC /\ b.chapS = a.chapS
    /\ b.pending = a.pending /\ b.success = a.success /\ b.authState = a.authState
SameNet(a, b) ==
    /\ b.ipcp = a.ipcp /\ b.ipcpUp = a.ipcpUp /\ b.phase = a.phase
    /\ b.npOpen = a.npOpen /\ b.npUp = a.npUp
Unmoved(a, b) ==
    SameDevice(a, b) /\ SameProofs(a, b) /\ SameNet(a, b) /\ b.lcp = a.lcp

LEMMA UnmovedTwice ==
    ASSUME NEW a, NEW b, NEW c
    PROVE  /\ SameDevice(a, b) /\ SameDevice(b, c) => SameDevice(a, c)
           /\ SameProofs(a, b) /\ SameProofs(b, c) => SameProofs(a, c)
           /\ SameNet(a, b) /\ SameNet(b, c) => SameNet(a, c)
           /\ Unmoved(a, b) /\ Unmoved(b, c) => Unmoved(a, c)
  BY DEF SameDevice, SameProofs, SameNet, Unmoved

LEMMA UnmovedKeeps ==
    ASSUME NEW a, NEW b, Unmoved(a, b), NEW W
    PROVE  /\ Clear(a) => Clear(b)
           /\ Base(a, W) => Base(b, W)
           /\ Core(a, W) => Core(b, W)
           /\ Low(a) => Low(b)
  BY DEF Unmoved, SameDevice, SameProofs, SameNet, Clear, Base, Core, Low

\* Entries of the callout list but for two, and the fields nothing here depends on
LEMMA TickUnmoved ==
    ASSUME NEW a \in Session, NEW timer \in Timers
    PROVE  /\ timer \notin {"delayed", "holdoff"} =>
                Unmoved(a, Arm(a, timer)) /\ Unmoved(a, Cancel(a, timer))
           /\ \A b \in {Arm(a, timer), Cancel(a, timer)} :
                /\ SameProofs(a, b) /\ SameNet(a, b) /\ b.lcp = a.lcp
                /\ b.fd = a.fd /\ b.hungup = a.hungup /\ b.delayed = a.delayed
                /\ \A u \in Timers \ {timer} : b.timers[u] = a.timers[u]
           /\ Arm(a, timer).timers[timer] = a.timers[timer] + 1
           /\ Cancel(a, timer).timers[timer] = Less(a.timers[timer])
  <1> DEFINE more == [a.timers EXCEPT ![timer] = @ + 1]
             less == [a.timers EXCEPT ![timer] = IF @ = 0 THEN 0 ELSE @ - 1]
  <1>1. Arm(a, timer) = [a EXCEPT !.timers = more] /\ Cancel(a, timer) = [a EXCEPT !.timers = less]
    BY DEF Arm, Cancel
  <1>2. /\ more[timer] = a.timers[timer] + 1 /\ less[timer] = Less(a.timers[timer])
        /\ \A u \in Timers \ {timer} : more[u] = a.timers[u] /\ less[u] = a.timers[u]
    BY SessionFields DEF Less
  <1> HIDE DEF more, less
  <1>3. ASSUME NEW q
        PROVE  LET b == [a EXCEPT !.timers = q]
               IN  /\ SameProofs(a, b) /\ SameNet(a, b) /\ b.lcp = a.lcp
                   /\ b.fd = a.fd /\ b.hungup = a.hungup /\ b.delayed = a.delayed
                   /\ b.timers = q
    BY DEF Session, SameProofs, SameNet
  <1>4. "delayed" \in Timers /\ "holdoff" \in Timers
    BY DEF Timers
  <1>5. QED
    BY <1>1, <1>2, <1>3, <1>4 DEF Unmoved, SameDevice, SameNet

LEMMA FieldUnmoved ==
    ASSUME NEW a \in Session, NEW x, NEW y
    PROVE  /\ Unmoved(a, [a EXCEPT !.papXmits = x]) /\ Unmoved(a, [a EXCEPT !.chapXmits = x])
           /\ Unmoved(a, [a EXCEPT !.echos = x]) /\ Unmoved(a, [a EXCEPT !.echo = x])
           /\ Unmoved(a, [a EXCEPT !.unsuccess = x]) /\ Unmoved(a, [a EXCEPT !.slow = x])
           /\ Unmoved(a, [a EXCEPT !.needHoldoff = x]) /\ Unmoved(a, [a EXCEPT !.ipcpOpen = x])
           /\ Unmoved(a, [a EXCEPT !.authScript = x, !.authPid = y])
           /\ Unmoved(a, [a EXCEPT !.ipScript = x, !.ipPid = y])
  <1>1. /\ Unmoved(a, [a EXCEPT !.papXmits = x]) /\ Unmoved(a, [a EXCEPT !.chapXmits = x])
        /\ Unmoved(a, [a EXCEPT !.echos = x]) /\ Unmoved(a, [a EXCEPT !.echo = x])
    BY DEF Session, Unmoved, SameDevice, SameProofs, SameNet
  <1>2. /\ Unmoved(a, [a EXCEPT !.unsuccess = x]) /\ Unmoved(a, [a EXCEPT !.slow = x])
        /\ Unmoved(a, [a EXCEPT !.needHoldoff = x]) /\ Unmoved(a, [a EXCEPT !.ipcpOpen = x])
    BY DEF Session, Unmoved, SameDevice, SameProofs, SameNet
  <1>3. /\ Unmoved(a, [a EXCEPT !.authScript = x, !.authPid = y])
        /\ Unmoved(a, [a EXCEPT !.ipScript = x, !.ipPid = y])
    BY DEF Session, Unmoved, SameDevice, SameProofs, SameNet
  <1>4. QED
    BY <1>1, <1>2, <1>3

LEMMA ScriptsUnmoved ==
    ASSUME NEW a \in Session
    PROVE  Unmoved(a, AuthDownScript(a)) /\ Unmoved(a, IpDownScript(a)) /\ Unmoved(a, IpUpScript(a))
  <1>1. Unmoved(a, a)
    BY DEF Unmoved, SameDevice, SameProofs, SameNet
  <1>2. QED
    BY <1>1, FieldUnmoved DEF AuthDownScript, IpDownScript, IpUpScript
-----------------------------------------------------------------------------
(* Going down. *)

LEMMA PapLowerdownClears ==
    ASSUME NEW a \in Session
    PROVE  LET b == PapLowerdown(a)
           IN  /\ SameDevice(a, b) /\ SameNet(a, b) /\ b.lcp = a.lcp
               /\ b.papC = "INITIAL" /\ b.papS = "INITIAL"
               /\ b.chapC = a.chapC /\ b.chapS = a.chapS /\ b.pending = a.pending
               /\ b.success = a.success /\ b.authState = a.authState
  <1> DEFINE t == IF a.papC = "AUTHREQ" THEN Cancel(a, "pap") ELSE a
             u == IF a.papS = "LISTEN" THEN Cancel(t, "papReq") ELSE t
             b == [u EXCEPT !.papC = "INITIAL", !.papS = "INITIAL"]
  <1>1. "pap" \in Timers /\ "papReq" \in Timers
    BY DEF Timers
  <1>2. Unmoved(a, a)
    BY DEF Unmoved, SameDevice, SameProofs, SameNet
  <1>3. t \in Session /\ Unmoved(a, t)
    BY <1>1, <1>2, Ticks, TickUnmoved
  <1>4. PapLowerdown(a) = b
    BY DEF PapLowerdown
  <1> HIDE DEF t
  <1>5. u \in Session /\ Unmoved(a, u)
    BY <1>1, <1>3, Ticks, TickUnmoved, UnmovedTwice
  <1> HIDE DEF u
  <1>6. /\ SameDevice(u, b) /\ SameNet(u, b) /\ b.lcp = u.lcp
        /\ b.papC = "INITIAL" /\ b.papS = "INITIAL"
        /\ b.chapC = u.chapC /\ b.chapS = u.chapS /\ b.pending = u.pending
        /\ b.success = u.success /\ b.authState = u.authState
    BY <1>5 DEF Session, SameDevice, SameNet
  <1> HIDE DEF b
  <1>7. QED
    BY <1>4, <1>5, <1>6 DEF Unmoved, SameDevice, SameNet, SameProofs

LEMMA ChapLowerdownClears ==
    ASSUME NEW a \in Session
    PROVE  LET b == ChapLowerdown(a)
           IN  /\ SameDevice(a, b) /\ SameNet(a, b) /\ b.lcp = a.lcp
               /\ b.papC = a.papC /\ b.papS = a.papS
               /\ b.chapC = {} /\ b.chapS = {} /\ b.pending = a.pending
               /\ b.success = a.success /\ b.authState = a.authState
  <1> DEFINE t == IF "PENDING" \in a.chapS THEN Cancel(a, "chap") ELSE a
             b == [t EXCEPT !.chapC = {}, !.chapS = {}]
  <1>1. "chap" \in Timers
    BY DEF Timers
  <1>2. Unmoved(a, a)
    BY DEF Unmoved, SameDevice, SameProofs, SameNet
  <1>3. t \in Session /\ Unmoved(a, t)
    BY <1>1, <1>2, Ticks, TickUnmoved
  <1>4. ChapLowerdown(a) = b
    BY DEF ChapLowerdown
  <1> HIDE DEF t
  <1>5. /\ SameDevice(t, b) /\ SameNet(t, b) /\ b.lcp = t.lcp
        /\ b.papC = t.papC /\ b.papS = t.papS
        /\ b.chapC = {} /\ b.chapS = {} /\ b.pending = t.pending
        /\ b.success = t.success /\ b.authState = t.authState
    BY <1>3 DEF Session, SameDevice, SameNet
  <1> HIDE DEF b
  <1>6. QED
    BY <1>3, <1>4, <1>5 DEF Unmoved, SameDevice, SameNet, SameProofs

\* ipcp_down takes the phase to NETWORK with the only network protocol.
LEMMA IpcpDownFrame ==
    ASSUME NEW a \in Session, a.phase \in Phases
    PROVE  LET b == IpcpDown(a)
           IN  /\ SameDevice(a, b) /\ SameProofs(a, b) /\ b.lcp = a.lcp /\ b.ipcp = a.ipcp
               /\ b.npOpen = a.npOpen /\ ~b.ipcpUp
               /\ ~a.ipcpUp => b.phase = a.phase /\ b.npUp = a.npUp
               /\ a.ipcpUp /\ a.npUp = 1 => b.phase = "NETWORK" /\ b.npUp = 0
  <1> DEFINE u == [a EXCEPT !.ipcpUp = FALSE]
             v == [u EXCEPT !.npUp = @ - 1]
             w == Cancel(v, "idle")
             x == Phase(w, "NETWORK")
             n == IF v.npUp = 0 THEN x ELSE v
             y == IF a.ipcpUp THEN n ELSE a
  <1>1. u \in Session /\ v \in Session /\ "idle" \in Timers
    <2>1. u \in Session
      BY DEF Session
    <2>2. u.npUp - 1 \in Int
      BY <2>1, SessionFields
    <2> HIDE DEF u
    <2>3. v \in Session
      BY <2>1, <2>2, FieldAside, AsideSession
    <2>4. QED
      BY <2>1, <2>3 DEF Timers
  <1>2. IpcpDown(a) = IpDownScript(y)
    BY DEF IpcpDown, NpDown
  <1>3. /\ SameDevice(a, v) /\ SameProofs(a, v) /\ v.lcp = a.lcp /\ v.ipcp = a.ipcp
        /\ v.npOpen = a.npOpen /\ ~v.ipcpUp /\ v.npUp = a.npUp - 1
    BY DEF Session, SameDevice, SameProofs
  <1> HIDE DEF u, v
  <1>4. w \in Session /\ Unmoved(v, w)
    BY <1>1, Ticks, TickUnmoved
  <1> HIDE DEF w
  <1>5. /\ x \in Session /\ SameDevice(w, x) /\ SameProofs(w, x) /\ x.lcp = w.lcp
        /\ x.ipcp = w.ipcp /\ x.npOpen = w.npOpen /\ x.ipcpUp = w.ipcpUp
        /\ x.npUp = w.npUp /\ x.phase = "NETWORK"
    BY <1>4 DEF Session, SameDevice, SameProofs, Phase, Phases
  <1> HIDE DEF x
  <1>6. /\ y \in Session /\ SameDevice(a, y) /\ SameProofs(a, y) /\ y.lcp = a.lcp
        /\ y.ipcp = a.ipcp /\ y.npOpen = a.npOpen /\ ~y.ipcpUp
        /\ ~a.ipcpUp => y.phase = a.phase /\ y.npUp = a.npUp
        /\ a.ipcpUp /\ a.npUp = 1 => y.phase = "NETWORK" /\ y.npUp = 0
    BY <1>1, <1>3, <1>4, <1>5 DEF Unmoved, SameDevice, SameProofs, SameNet
  <1> HIDE DEF y
  <1>7. Unmoved(y, IpDownScript(y))
    BY <1>6, ScriptsUnmoved
  <1>8. QED
    BY <1>2, <1>6, <1>7 DEF Unmoved, SameDevice, SameProofs, SameNet

\* A function of IPCP may call down.
LEMMA IpcpDropFrame ==
    ASSUME NEW a, Linked(a), NEW f, Moves(a.ipcp, f)
    PROVE  LET b == IpcpDrop(a, f)
           IN  /\ SameDevice(a, b) /\ SameProofs(a, b) /\ b.npOpen = a.npOpen
               /\ ~a.ipcpUp => ~b.ipcpUp /\ b.phase = a.phase /\ b.npUp = a.npUp
               /\ "down" \in Calls(f) =>
                    /\ ~b.ipcpUp
                    /\ a.ipcpUp /\ a.npUp = 1 => b.phase = "NETWORK" /\ b.npUp = 0
               /\ "down" \notin Calls(f) => b = [a EXCEPT !.ipcp = Silent(f)]
               /\ "down" \notin Calls(f) => b.ipcpUp = a.ipcpUp /\ b.phase = a.phase /\ b.npUp = a.npUp
  <1> DEFINE t == [a EXCEPT !.ipcp = Silent(f)]
  <1>1. a \in Session /\ Steady(Silent(f)) /\ a.phase \in Phases
    BY SilentSteady, SessionFields DEF Linked, Moves
  <1>2. t \in Session
    BY <1>1 DEF Session, Steady
  <1>3. /\ SameDevice(a, t) /\ SameProofs(a, t) /\ t.npOpen = a.npOpen
        /\ t.ipcpUp = a.ipcpUp /\ t.npUp = a.npUp /\ t.phase = a.phase
    BY <1>1 DEF Session, SameDevice, SameProofs
  <1>4. IpcpDrop(a, f) = IF "down" \in Calls(f) THEN IpcpDown(t) ELSE t
    BY MadeCalls DEF IpcpDrop
  <1> DEFINE d == IpcpDown(t)
  <1>5. CASE "down" \notin Calls(f)
    BY <1>3, <1>4, <1>5
  <1> HIDE DEF t
  <1>6. /\ SameDevice(t, d) /\ SameProofs(t, d) /\ d.npOpen = t.npOpen /\ ~d.ipcpUp
        /\ ~t.ipcpUp => d.phase = t.phase /\ d.npUp = t.npUp
        /\ t.ipcpUp /\ t.npUp = 1 => d.phase = "NETWORK" /\ d.npUp = 0
    BY <1>1, <1>2, <1>3, IpcpDownFrame
  <1> HIDE DEF d
  <1>7. CASE "down" \in Calls(f)
    BY <1>3, <1>4, <1>6, <1>7, UnmovedTwice DEF d
  <1>8. QED
    BY <1>5, <1>7

\* The protocols above LCP are told that it is down.
LEMMA UpperLayersDownClears ==
    ASSUME NEW a, Linked(a), a.authState = "down"
    PROVE  LET b == [UpperLayersDown(a) EXCEPT !.success = {}]
           IN  Clear(b) /\ SameDevice(a, b)
  <1> DEFINE p == PapLowerdown(a)
             t == ChapLowerdown(p)
             u == IpcpLowerdown(t)
             v == IpcpClose(u)
             w == [v EXCEPT !.npOpen = 0]
             x == [w EXCEPT !.npUp = 0]
             b == [x EXCEPT !.success = {}]
  <1>1. /\ Linked(p) /\ SameDevice(a, p) /\ p.papC = "INITIAL" /\ p.papS = "INITIAL"
        /\ p.authState = "down"
    BY PapLowerdownAside, PapLowerdownClears, AsideKeeps DEF Linked
  <1>2. UpperLayersDown(a) = x
    BY DEF UpperLayersDown
  <1> HIDE DEF p
  <1>3. /\ Linked(t) /\ SameDevice(p, t) /\ t.papC = "INITIAL" /\ t.papS = "INITIAL"
        /\ t.chapC = {} /\ t.chapS = {} /\ t.authState = "down"
    BY <1>1, ChapLowerdownAside, ChapLowerdownClears, AsideKeeps DEF Linked
  <1> HIDE DEF t
  <1>4. /\ Linked(u) /\ SameDevice(t, u) /\ SameProofs(t, u)
        /\ u.ipcp.state = Lowerdown(t.ipcp).state /\ u.ipcp.state \in {"INITIAL", "STARTING"}
    <2>1. Steady(t.ipcp) /\ t.ipcp \in Fsm /\ t.ipcp.calls = <<>>
      BY <1>3 DEF Linked, Steady
    <2>2. Moves(t.ipcp, Lowerdown(t.ipcp))
      BY <2>1, FsmMoves
    <2>3. QED
      BY <1>3, <2>1, <2>2, IpcpDropEffect, IpcpDropFrame, LowerdownCandid DEF IpcpLowerdown
  <1> HIDE DEF u
  <1>5. /\ Linked(v) /\ SameDevice(u, v) /\ SameProofs(u, v)
        /\ v.ipcp.state = "INITIAL" /\ ~v.ipcpUp
    <2>1. Steady(u.ipcp) /\ u.ipcp \in Fsm /\ Inv(u.ipcp)
      BY <1>4 DEF Linked, Steady
    <2>2. Moves(u.ipcp, Close(u.ipcp)) /\ Close(u.ipcp).state = "INITIAL"
      BY <1>4, <2>1, FsmMoves, StaysBelow DEF Below
    <2>3. QED
      BY <1>4, <2>1, <2>2, IpcpDropEffect, IpcpDropFrame DEF IpcpClose, Linked
  <1> HIDE DEF v
  <1>6. /\ SameDevice(v, b) /\ b.ipcp = v.ipcp /\ b.ipcpUp = v.ipcpUp
        /\ b.npOpen = 0 /\ b.npUp = 0
        /\ b.papC = v.papC /\ b.papS = v.papS /\ b.chapC = v.chapC /\ b.chapS = v.chapS
        /\ b.authState = v.authState /\ b.success = {}
    BY <1>5 DEF Linked, Session, SameDevice
  <1> HIDE DEF b
  <1>7. Clear(b)
    BY <1>3, <1>4, <1>5, <1>6 DEF Clear, SameProofs
  <1>8. SameDevice(a, b)
    BY <1>1, <1>3, <1>4, <1>5, <1>6, UnmovedTwice
  <1>9. QED
    BY <1>2, <1>7, <1>8 DEF b

LEMMA LcpDownClears ==
    ASSUME NEW a, Linked(a)
    PROVE  LET b == LcpDown(a) IN Clear(b) /\ SameDevice(a, b)
  <1> DEFINE e == EchoLowerdown(a)
             down == [e EXCEPT !.authState = "down"]
             d == IF e.authState = "up" THEN AuthDownScript(down) ELSE e
             t == UpperLayersDown(d)
             u == IF t.phase = "DEAD" THEN t ELSE Phase(t, "ESTABLISH")
             b == [u EXCEPT !.success = {}]
  <1>1. Linked(e) /\ SameDevice(a, e)
    <2>1. Linked(e)
      BY EchoLowerdownAside, AsideKeeps DEF Linked
    <2> DEFINE c == Cancel(a, "echo")
    <2>2. "echo" \in Timers /\ a \in Session
      BY DEF Timers, Linked
    <2>3. c \in Session /\ Unmoved(a, c)
      BY <2>2, Ticks, TickUnmoved
    <2>4. e \in {a, [c EXCEPT !.echo = FALSE]}
      BY DEF EchoLowerdown
    <2> HIDE DEF c
    <2>5. Unmoved(a, e) \/ e = a
      BY <2>3, <2>4, FieldUnmoved, UnmovedTwice
    <2>6. QED
      BY <2>1, <2>5 DEF Unmoved, SameDevice
  <1>2. LcpDown(a) = b
    BY DEF LcpDown, LinkDown
  <1> HIDE DEF e
  <1>3. /\ Linked(d) /\ d.authState = "down" /\ SameDevice(e, d)
    <2>1. e \in Session /\ e.authState \in {"up", "down"}
      BY <1>1, SessionFields DEF Linked
    <2>2. Aside(e, down) /\ SameDevice(e, down) /\ down.authState = "down"
      BY <2>1, FieldAside DEF Session, SameDevice
    <2>3. down \in Session
      BY <2>2, AsideSession
    <2> HIDE DEF down
    <2>4. Aside(e, AuthDownScript(down)) /\ Unmoved(down, AuthDownScript(down))
      BY <2>2, <2>3, ScriptsAside, ScriptsUnmoved, AsideTwice
    <2>5. CASE e.authState = "up"
      BY <1>1, <2>2, <2>4, <2>5, AsideKeeps DEF Unmoved, SameDevice, SameProofs
    <2>6. CASE e.authState = "down"
      BY <1>1, <2>6 DEF SameDevice
    <2>7. QED
      BY <2>1, <2>5, <2>6
  <1> HIDE DEF d
  <1> DEFINE c == [t EXCEPT !.success = {}]
  <1>4. t \in Session /\ Clear(c) /\ SameDevice(d, c)
    BY <1>3, UpperLayersDownEffect, UpperLayersDownClears DEF Linked
  <1> HIDE DEF t
  <1>5. /\ SameDevice(c, b) /\ b.ipcp = c.ipcp /\ b.ipcpUp = c.ipcpUp
        /\ b.npOpen = c.npOpen /\ b.npUp = c.npUp
        /\ b.papC = c.papC /\ b.papS = c.papS /\ b.chapC = c.chapC /\ b.chapS = c.chapS
        /\ b.authState = c.authState /\ b.success = c.success
    BY <1>4 DEF Session, SameDevice, Phase
  <1> HIDE DEF b, c
  <1>6. Clear(b)
    BY <1>4, <1>5 DEF Clear
  <1>7. QED
    BY <1>1, <1>2, <1>3, <1>4, <1>5, <1>6, UnmovedTwice

\* A function of LCP, which may call down
LEMMA LcpFallBase ==
    ASSUME NEW a, Linked(a), NEW f, Moves(a.lcp, f), NEW W, Base(a, W),
           a.delayed => Below(f)
    PROVE  LET b == LcpFall(a, f)
           IN  /\ Base(b, W) /\ SameDevice(a, b)
               /\ a.lcp.state # "OPENED" => Clear(b)
               /\ a.lcp.state # "OPENED" \/ f.state = "OPENED" =>
                    SameProofs(a, b) /\ SameNet(a, b)
  <1> DEFINE t == [a EXCEPT !.lcp = Silent(f)]
             d == LcpDown(t)
  <1>1. a \in Session /\ Steady(Silent(f)) /\ Silent(f).state = f.state
    BY SilentSteady DEF Linked, Moves
  <1>2. t \in Session
    BY <1>1 DEF Session, Steady
  <1>3. /\ t.lcp = Silent(f) /\ SameDevice(a, t) /\ SameProofs(a, t) /\ SameNet(a, t)
    BY <1>1 DEF Session, SameDevice, SameProofs, SameNet
  <1>4. LcpFall(a, f) = IF "down" \in Calls(f) THEN d ELSE t
    BY MadeCalls DEF LcpFall
  <1> HIDE DEF t
  <1>5. Linked(t)
    BY <1>1, <1>2, <1>3 DEF Linked, SameNet
  <1>6. "down" \in Calls(f) <=> a.lcp.state = "OPENED" /\ f.state # "OPENED"
    BY DEF Moves, Candid
  <1>7. Clear(d) /\ SameDevice(t, d) /\ d.lcp = Silent(f)
    BY <1>3, <1>5, LcpDownClears, LcpDownEffect
  <1> HIDE DEF d
  <1>8. CASE "down" \in Calls(f)
    <2>1. Base(d, W) /\ SameDevice(a, d)
      BY <1>1, <1>3, <1>7, UnmovedTwice DEF Base, SameDevice, Below
    <2>2. QED
      BY <1>4, <1>6, <1>7, <1>8, <2>1
  <1>9. CASE "down" \notin Calls(f)
    <2>1. a.lcp.state # "OPENED" => Clear(t)
      BY <1>3 DEF Base, Clear, SameProofs, SameNet
    <2>2. Base(t, W)
      BY <1>1, <1>3, <1>6, <1>9, <2>1 DEF Base, SameDevice, Below
    <2>3. QED
      BY <1>3, <1>4, <1>9, <2>1, <2>2
  <1>10. QED
    BY <1>8, <1>9

LEMMA LcpLowerdownCore ==
    ASSUME NEW a, Linked(a), NEW W, Base(a, W)
    PROVE  LET b == LcpLowerdown(a)
           IN  Linked(b) /\ Core(b, W) /\ Low(b) /\ b.fd = a.fd
  <1>1. a \in Session
    BY DEF Linked
  <1>2. CASE a.delayed
    <2> DEFINE b == [a EXCEPT !.delayed = FALSE]
    <2>1. /\ Aside(a, b) /\ b.delayed = FALSE /\ b.fd = a.fd /\ SameProofs(a, b)
          /\ SameNet(a, b) /\ b.timers = a.timers /\ b.lcp = a.lcp
      BY <1>1, FieldAside DEF Session, SameProofs, SameNet
    <2>2. LcpLowerdown(a) = b
      BY <1>2 DEF LcpLowerdown
    <2> HIDE DEF b
    <2>3. Linked(b) /\ Core(b, W) /\ Low(b)
      BY <1>2, <2>1, AsideKeeps DEF Core, Base, Clear, Low, SameProofs, SameNet
    <2>4. QED
      BY <2>1, <2>2, <2>3
  <1>3. CASE ~a.delayed
    <2> DEFINE f == Lowerdown(a.lcp)
               b == LcpFall(a, f)
    <2>1. LcpLowerdown(a) = b
      BY <1>3 DEF LcpLowerdown
    <2>2. Moves(a.lcp, f) /\ Below(f)
      BY FsmMoves, LowerdownCandid DEF Linked, Steady, Below
    <2> HIDE DEF f
    <2>3. Linked(b) /\ b.lcp.state = f.state /\ Base(b, W) /\ SameDevice(a, b)
      BY <2>2, LcpFallEffect, LcpFallBase
    <2> HIDE DEF b
    <2>4. Core(b, W) /\ Low(b)
      BY <1>3, <2>2, <2>3 DEF Core, Low, Below, SameDevice
    <2>5. QED
      BY <2>1, <2>3, <2>4 DEF SameDevice
  <1>4. a.delayed \in BOOLEAN
    BY <1>1, SessionFields
  <1>5. QED
    BY <1>2, <1>3, <1>4

\* link_terminated closes the device.
LEMMA LinkTerminatedCore ==
    ASSUME NEW a, Linked(a), NEW W, Core(a, W)
    PROVE  LET b == LinkTerminated(a)
           IN  Core(b, W) /\ Low(b) /\ ~b.fd
  <1> DEFINE t == [a EXCEPT !.fd = FALSE]
             u == IF a.hungup THEN t ELSE LcpLowerdown(t)
             b == Phase(u, "DEAD")
  <1>1. CASE a.phase = "DEAD"
    BY <1>1 DEF LinkTerminated, Core, Base
  <1>2. CASE a.phase # "DEAD"
    <2>1. a \in Session /\ a.hungup \in BOOLEAN
      BY SessionFields DEF Linked
    <2>2. /\ Aside(a, t) /\ ~t.fd /\ SameProofs(a, t) /\ SameNet(a, t) /\ t.timers = a.timers
          /\ t.lcp = a.lcp /\ t.delayed = a.delayed /\ t.hungup = a.hungup
      BY <2>1, FieldAside DEF Session, SameProofs, SameNet
    <2>3. LinkTerminated(a) = b
      BY <1>2 DEF LinkTerminated
    <2> HIDE DEF t
    <2>4. Linked(t) /\ Base(t, W) /\ (a.hungup => Low(t))
      BY <2>2, AsideKeeps DEF Core, Base, Clear, Low, SameProofs, SameNet
    <2>5. Linked(u) /\ Core(u, W) /\ Low(u) /\ ~u.fd
      BY <2>1, <2>2, <2>4, LcpLowerdownCore DEF Core
    <2> HIDE DEF u
    <2>6. /\ b.phase = "DEAD" /\ SameProofs(u, b) /\ b.timers = u.timers /\ b.lcp = u.lcp
          /\ b.delayed = u.delayed /\ b.hungup = u.hungup /\ b.fd = u.fd
          /\ b.ipcp = u.ipcp /\ b.ipcpUp = u.ipcpUp
          /\ b.npOpen = u.npOpen /\ b.npUp = u.npUp
      BY <2>5 DEF Linked, Session, SameProofs, Phase
    <2> HIDE DEF b
    <2>7. Core(b, W) /\ Low(b) /\ ~b.fd
      BY <2>5, <2>6 DEF Core, Base, Clear, Low, SameProofs
    <2>8. QED
      BY <2>3, <2>7
  <1>3. QED
    BY <1>1, <1>2

LEMMA LcpFinishCore ==
    ASSUME NEW a, Linked(a), NEW W, Core(a, W), NEW f
    PROVE  LET b == LcpFinish(a, f)
           IN  Core(b, W) /\ (b.fd => a.fd)
  BY LinkTerminatedCore DEF LcpFinish

\* lcp_close, whatever was going on
LEMMA LcpCloseCore ==
    ASSUME NEW a, Loose(a), NEW W, Core(a, W)
    PROVE  LET b == LcpClose(a)
           IN  Core(b, W) /\ (b.fd => a.fd)
  <1> DEFINE t == IF a.phase = "DEAD" THEN a ELSE Phase(a, "TERMINATE")
             f == Close(a.lcp)
             b == LcpFall(t, f)
             g == [a.lcp EXCEPT !.state = "CLOSED"]
             c == [t EXCEPT !.lcp = g]
             passive == /\ a.lcp.state = "STOPPED"
                        /\ Has(a.lcp, "passive") \/ Has(a.lcp, "silent")
  <1>1. Linked(a) /\ a \in Session /\ "TERMINATE" \in Phases
    BY DEF Loose, Linked, Phases
  <1>2. /\ Linked(t) /\ t.lcp = a.lcp /\ SameDevice(a, t) /\ SameProofs(a, t)
        /\ t.ipcp = a.ipcp /\ t.ipcpUp = a.ipcpUp /\ t.npOpen = a.npOpen /\ t.npUp = a.npUp
    <2> DEFINE p == Phase(a, "TERMINATE")
    <2>1. Linked(p) /\ p.lcp = a.lcp /\ p.ipcp = a.ipcp
      BY <1>1, PhaseEffect
    <2>2. SameDevice(a, p) /\ SameProofs(a, p) /\ p.ipcpUp = a.ipcpUp
          /\ p.npOpen = a.npOpen /\ p.npUp = a.npUp
      BY <1>1 DEF Session, Phase, SameDevice, SameProofs
    <2> HIDE DEF p
    <2>3. SameDevice(a, a) /\ SameProofs(a, a)
      BY DEF SameDevice, SameProofs
    <2>4. QED
      BY <1>1, <2>1, <2>2, <2>3 DEF p
  <1>3. LcpClose(a) = IF passive THEN LinkTerminated(c) ELSE LcpFinish(b, f)
    <2>1. t.lcp = a.lcp
      BY <1>2
    <2>2. t \in Session
      BY <1>2 DEF Linked
    <2> HIDE DEF t
    <2>3. [t EXCEPT !.lcp.state = "CLOSED"] = c
      BY <2>1, <2>2
    <2>4. QED
      BY <2>3 DEF LcpClose, t
  <1> HIDE DEF t
  <1>4. Core(t, W)
    BY <1>2 DEF Core, Base, Clear, Low, SameDevice, SameProofs
  <1>5. CASE passive
    <2>1. Steady(a.lcp) /\ a.lcp \in Fsm /\ a.lcp.calls = <<>> /\ Moves(a.lcp, f)
      BY <1>1, FsmMoves DEF Linked, Steady
    <2>2. g \in Fsm /\ g.state = "CLOSED" /\ g.calls = <<>> /\ Inv(g)
      <3>1. f = Goto(a.lcp, "CLOSED") /\ "CLOSED" \in States
        BY <1>5 DEF Close, Negotiating, States
      <3>2. f.calls = <<>> /\ f.state = "CLOSED"
        BY <2>1, <3>1, Mute, GotoEffect
      <3>3. f = g
        BY <3>1 DEF Goto
      <3>4. f \in Fsm /\ Inv(f)
        BY <2>1 DEF Moves
      <3> HIDE DEF f, g
      <3>5. QED
        BY <3>2, <3>3, <3>4
    <2> HIDE DEF g
    <2>3. /\ c \in Session /\ c.lcp = g /\ SameDevice(t, c) /\ SameProofs(t, c) /\ SameNet(t, c)
      BY <1>2, <2>2 DEF Linked, Session, SameDevice, SameProofs, SameNet
    <2> HIDE DEF c
    <2>4. Linked(c)
      BY <1>2, <2>2, <2>3 DEF Linked, Steady, SameNet
    <2>5. t.lcp.state = "STOPPED"
      BY <1>2, <1>5
    <2>6. Core(c, W)
      BY <1>4, <2>2, <2>3, <2>5 DEF Core, Base, Clear, Low, Below, SameDevice, SameProofs, SameNet
    <2>7. c.fd = a.fd /\ Core(LinkTerminated(c), W) /\ ~LinkTerminated(c).fd
      BY <1>2, <2>3, <2>4, <2>6, LinkTerminatedCore DEF SameDevice
    <2>8. QED
      BY <1>3, <1>5, <2>7
  <1>6. CASE ~passive
    <2>1. Moves(t.lcp, f) /\ (Below(t.lcp) => Below(f))
      BY <1>2, FsmMoves, StaysBelow DEF Linked, Steady, Below
    <2> HIDE DEF f
    <2>2. Linked(b) /\ b.lcp.state = f.state /\ Base(b, W) /\ SameDevice(t, b)
      BY <1>2, <1>4, <2>1, LcpFallEffect, LcpFallBase DEF Core, Base
    <2> HIDE DEF b
    <2>3. Core(b, W)
      BY <1>4, <2>1, <2>2 DEF Core, Low, Below, SameDevice
    <2>4. Core(LcpFinish(b, f), W) /\ (LcpFinish(b, f).fd => b.fd)
      BY <2>2, <2>3, LcpFinishCore
    <2>5. QED
      BY <1>2, <1>3, <1>6, <2>2, <2>4 DEF SameDevice
  <1>7. QED
    BY <1>5, <1>6

-----------------------------------------------------------------------------
(***************************************************************************)
(* What holds while LCP is open: who still asks for something is waited    *)
(* for, and the phase is what IPCP has come to.                            *)
(***************************************************************************)

Asks(a) ==
    /\ a.papC = "AUTHREQ" => "papWith" \in a.pending
    /\ a.papS = "LISTEN" => "papPeer" \in a.pending
    /\ "STARTED" \in a.chapC /\ "LOWERUP" \in a.chapC /\ "DONE" \notin a.chapC =>
         "chapWith" \in a.pending
    /\ ("VALID" \in a.chapS \/ "PENDING" \in a.chapS) /\ "DONE" \notin a.chapS =>
         "chapPeer" \in a.pending

\* What was acknowledged is not waited for, but for a CHAP server that was DONE
\* before it started.
Owes(a, W) ==
    /\ Asks(a) /\ a.pending \cap a.success \subseteq {"chapPeer"}
    /\ "clean" \in W /\ "DONE" \in a.chapS => "chapPeer" \notin a.pending
Heard(a) == "chapPeer" \in a.pending \cap a.success => "DONE" \in a.chapS

Shows(a) ==
    /\ a.npUp = (IF a.ipcpUp THEN 1 ELSE 0)
    /\ a.phase = "RUNNING" => a.ipcpUp
    /\ a.ipcpUp => a.phase \in {"RUNNING", "DORMANT"}

Agenda(a, W) ==
    /\ Owes(a, W) /\ Heard(a) /\ Shows(a)
    /\ a.phase = "AUTHENTICATE" => a.pending # {}

Slate(a, W) == Core(a, W) /\ (a.lcp.state = "OPENED" => Agenda(a, W))

\* LCP is open.
Opened(a) == Linked(a) /\ a.lcp.state = "OPENED"

LEMMA SlateUnmoved ==
    ASSUME NEW a, NEW b, Unmoved(a, b), NEW W
    PROVE  /\ Slate(a, W) => Slate(b, W)
           /\ Owes(a, W) => Owes(b, W)
           /\ Heard(a) => Heard(b)
           /\ Shows(a) => Shows(b)
  <1>1. Core(a, W) => Core(b, W)
    BY UnmovedKeeps
  <1>2. /\ Owes(a, W) => Owes(b, W)
        /\ Heard(a) => Heard(b)
    BY DEF Unmoved, SameProofs, Owes, Asks, Heard
  <1>3. Shows(a) => Shows(b)
    BY DEF Unmoved, SameNet, Shows
  <1>4. Agenda(a, W) => Agenda(b, W)
    BY <1>2, <1>3 DEF Agenda, Unmoved, SameNet, SameProofs
  <1>5. QED
    BY <1>1, <1>2, <1>3, <1>4 DEF Slate, Unmoved

LEMMA SameOwes ==
    ASSUME NEW a, NEW b, SameProofs(a, b), NEW W
    PROVE  (Owes(a, W) => Owes(b, W)) /\ (Heard(a) => Heard(b))
  BY DEF SameProofs, Owes, Asks, Heard

LEMMA OpenCore ==
    ASSUME NEW a, NEW b, NEW W, Core(a, W), SameDevice(a, b),
           a.lcp.state = "OPENED", b.lcp.state = "OPENED"
    PROVE  Core(b, W)
  <1>1. /\ ~Below(a.lcp) /\ a.fd /\ ~a.hungup /\ ~a.delayed /\ a.phase # "DEAD"
    BY DEF Core, Base, Low, Below
  <1>2. b.fd = a.fd /\ b.hungup = a.hungup /\ b.delayed = a.delayed /\ b.phase # "DEAD"
    BY <1>1 DEF SameDevice
  <1>3. Base(b, W)
    BY <1>1, <1>2 DEF SameDevice, Core, Base
  <1>4. QED
    BY <1>1, <1>2, <1>3 DEF Core

LEMMA OpenedLoose == ASSUME NEW a, Opened(a) PROVE Loose(a)
  BY DEF Opened, Loose

\* The timers of the other protocols, and the fields nothing here depends on
LEMMA AsideUnmoved ==
    ASSUME NEW a, NEW b, Aside(a, b), Unmoved(a, b), NEW W
    PROVE  /\ b \in Session
           /\ Linked(a) => Linked(b)
           /\ Opened(a) => Opened(b)
           /\ Loose(a) => Loose(b)
           /\ Sound(a) => Sound(b)
           /\ Slate(a, W) => Slate(b, W)
  BY AsideKeeps, AsideSession, SlateUnmoved DEF Opened, Unmoved

LEMMA CloseSlate ==
    ASSUME NEW a, Loose(a), NEW W, Core(a, W)
    PROVE  LET b == LcpClose(a)
           IN  /\ Slate(b, W) /\ Clear(b) /\ b.lcp.state # "OPENED" /\ (b.fd => a.fd)
               /\ Linked(b) /\ Loose(b) /\ Sound(b)
  BY LcpCloseEffect, LcpCloseCore DEF Slate, Quiet, Core, Base, Loose, Sound

\* A link that is closed stays so while nothing but these fields changes.
LEMMA ClosedSlate ==
    ASSUME NEW a, NEW b, NEW W, Slate(a, W), a.lcp.state # "OPENED", b.lcp = a.lcp,
           SameDevice(a, b), Clear(b)
    PROVE  Slate(b, W)
  BY DEF Slate, Core, Base, SameDevice, Low
-----------------------------------------------------------------------------
(* The network phase. *)

LEMMA IpcpFinishSlate ==
    ASSUME NEW a, Opened(a), NEW W, Slate(a, W), NEW f
    PROVE  Slate(IpcpFinish(a, f), W)
  <1> DEFINE t == [a EXCEPT !.ipcpOpen = FALSE]
             u == [t EXCEPT !.npOpen = @ - 1]
  <1>1. a \in Session /\ Aside(a, t) /\ Unmoved(a, t)
    BY FieldAside, FieldUnmoved DEF Opened, Linked
  <1>2. Opened(t) /\ t \in Session /\ Slate(t, W)
    BY <1>1, AsideUnmoved
  <1>3. IpcpFinish(a, f) \in {a, NpFinished(t)}
    BY DEF IpcpFinish, IpcpFinished
  <1> HIDE DEF t
  <1>4. t.npOpen - 1 \in Int
    BY <1>2, SessionFields
  <1>5. Aside(t, u) /\ SameDevice(t, u) /\ SameProofs(t, u)
    BY <1>2, <1>4, FieldAside DEF Session, SameDevice, SameProofs
  <1>6. u.lcp = t.lcp /\ u.ipcpUp = t.ipcpUp /\ u.phase = t.phase /\ u.npUp = t.npUp
    BY <1>2 DEF Session
  <1>7. NpFinished(t) \in {u, LcpClose(u)}
    BY DEF NpFinished
  <1> HIDE DEF u
  <1>8. Opened(u) /\ Core(u, W)
    BY <1>2, <1>5, <1>6, AsideKeeps, OpenCore DEF Opened, Slate
  <1>9. Agenda(u, W)
    BY <1>2, <1>5, <1>6, SameOwes DEF Opened, Slate, Agenda, Shows, SameProofs
  <1>10. Slate(u, W) /\ Slate(LcpClose(u), W)
    BY <1>8, <1>9, CloseSlate, OpenedLoose DEF Slate
  <1>11. QED
    BY <1>3, <1>7, <1>10

LEMMA IpcpDropSlate ==
    ASSUME NEW a, Opened(a), NEW W, Slate(a, W), NEW f, Moves(a.ipcp, f)
    PROVE  LET b == IpcpDrop(a, f)
           IN  /\ Opened(b) /\ Slate(b, W) /\ b.lcp = a.lcp /\ b.ipcp = Silent(f)
               /\ SameDevice(a, b) /\ SameProofs(a, b)
               /\ "down" \notin Calls(f) => b.ipcpUp = a.ipcpUp /\ b.phase = a.phase
  <1> DEFINE b == IpcpDrop(a, f)
  <1>1. Linked(b) /\ Lowered(a, b) /\ b.ipcp = Silent(f)
    BY IpcpDropEffect DEF Opened
  <1>2. /\ SameDevice(a, b) /\ SameProofs(a, b)
        /\ ~a.ipcpUp => ~b.ipcpUp /\ b.phase = a.phase /\ b.npUp = a.npUp
        /\ "down" \in Calls(f) =>
             ~b.ipcpUp /\ (a.ipcpUp /\ a.npUp = 1 => b.phase = "NETWORK" /\ b.npUp = 0)
        /\ "down" \notin Calls(f) =>
             b.ipcpUp = a.ipcpUp /\ b.phase = a.phase /\ b.npUp = a.npUp
    BY IpcpDropFrame DEF Opened
  <1> HIDE DEF b
  <1>3. Opened(b) /\ b.lcp = a.lcp /\ (b.phase = a.phase \/ b.phase = "NETWORK")
    BY <1>1 DEF Opened, Lowered
  <1>4. Core(b, W)
    BY <1>2, <1>3, OpenCore DEF Opened, Slate
  <1>5. Shows(b)
    BY <1>2, <1>3 DEF Opened, Slate, Agenda, Shows
  <1>6. Agenda(b, W)
    BY <1>2, <1>3, <1>5, SameOwes DEF Opened, Slate, Agenda, SameProofs
  <1>7. QED
    BY <1>1, <1>2, <1>3, <1>4, <1>6 DEF b, Slate

LEMMA IpcpQuitSlate ==
    ASSUME NEW a, Opened(a), NEW W, Slate(a, W), NEW f, Moves(a.ipcp, f)
    PROVE  Slate(IpcpQuit(a, f), W)
  BY IpcpDropSlate, IpcpFinishSlate DEF IpcpQuit

\* The network is up, or IPCP is closed again.
LEMMA IpcpUpSlate ==
    ASSUME NEW a, Opened(a), NEW W, Slate(a, W), ~a.ipcpUp, a.pending = {}, NEW ok
    PROVE  Slate(IpcpUp(a, ok), W)
  <1> DEFINE low == [a EXCEPT !.unsuccess = 0]
             quick == [low EXCEPT !.slow = FALSE]
             first == Phase(quick, "RUNNING")
             t == IF IdleLimit THEN Arm(first, "idle") ELSE first
             n == [t EXCEPT !.npUp = 1]
             u == [n EXCEPT !.ipcpUp = TRUE]
  <1>1. a \in Session /\ a.npUp = 0
    BY DEF Opened, Linked, Slate, Agenda, Shows
  <1>2. low \in Session /\ Unmoved(a, low)
    BY <1>1, FieldUnmoved, FieldAside, AsideSession
  <1>3. NpUp(a) = [t EXCEPT !.npUp = @ + 1]
    BY <1>1 DEF NpUp
  <1> HIDE DEF low
  <1>4. quick \in Session /\ Unmoved(a, quick)
    BY <1>2, FieldUnmoved, FieldAside, AsideSession, UnmovedTwice
  <1> HIDE DEF quick
  <1>5. /\ first \in Session /\ SameDevice(quick, first) /\ SameProofs(quick, first)
        /\ first.phase = "RUNNING" /\ first.lcp = quick.lcp /\ first.npUp = quick.npUp
    BY <1>4 DEF Session, Phases, Phase, SameDevice, SameProofs
  <1> HIDE DEF first
  <1>6. "idle" \in Timers
    BY DEF Timers
  <1>7. t \in Session /\ (t = first \/ Unmoved(first, t))
    BY <1>5, <1>6, Ticks, TickUnmoved
  <1> HIDE DEF t
  <1>8. /\ SameDevice(a, t) /\ SameProofs(a, t) /\ t.phase = "RUNNING" /\ t.lcp = a.lcp
        /\ t.npUp = 0
    BY <1>1, <1>4, <1>5, <1>7, UnmovedTwice DEF Unmoved, SameNet
  <1>9. NpUp(a) = n
    BY <1>3, <1>8
  <1>10. /\ n \in Session /\ SameDevice(t, n) /\ SameProofs(t, n) /\ n.lcp = t.lcp
         /\ n.phase = t.phase /\ n.npUp = 1
    BY <1>7 DEF Session, SameDevice, SameProofs
  <1> HIDE DEF n
  <1>11. /\ u \in Session /\ SameDevice(n, u) /\ SameProofs(n, u) /\ u.lcp = n.lcp
         /\ u.phase = n.phase /\ u.npUp = 1 /\ u.ipcpUp
    BY <1>10 DEF Session, SameDevice, SameProofs
  <1>12. IpcpUp(a, ok) = IF ok THEN IpUpScript(u) ELSE IpcpQuit(a, Close(a.ipcp))
    BY <1>9 DEF IpcpUp
  <1> HIDE DEF u
  <1>13. /\ SameDevice(a, u) /\ SameProofs(a, u) /\ u.lcp = a.lcp /\ u.phase = "RUNNING"
    BY <1>8, <1>10, <1>11, UnmovedTwice
  <1>14. Core(u, W)
    BY <1>13, OpenCore DEF Opened, Slate
  <1>15. Slate(u, W)
    BY <1>11, <1>13, <1>14, SameOwes DEF Opened, Slate, Agenda, Shows
  <1>16. Slate(IpUpScript(u), W)
    BY <1>11, <1>15, ScriptsUnmoved, SlateUnmoved
  <1>17. Moves(a.ipcp, Close(a.ipcp))
    BY FsmMoves DEF Opened, Linked
  <1>18. QED
    BY <1>12, <1>16, <1>17, IpcpQuitSlate

\* Any function of IPCP; one that opens it does not call finished.
LEMMA IpcpRunSlate ==
    ASSUME NEW a, Opened(a), NEW W, Slate(a, W), NEW f, Moves(a.ipcp, f), NEW ok,
           "up" \in Calls(f) => "finished" \notin Calls(f) /\ a.pending = {}
    PROVE  Slate(IpcpRun(a, f, ok), W)
  <1> DEFINE b == IpcpDrop(a, f)
             c == IF "up" \in Calls(f) THEN IpcpUp(b, ok) ELSE b
  <1>1. Opened(b) /\ Slate(b, W) /\ SameProofs(a, b)
    BY IpcpDropSlate
  <1>2. "up" \in Calls(f) => ~b.ipcpUp
    <2>1. "up" \in Calls(f) => a.ipcp.state # "OPENED" /\ ~a.ipcpUp
      BY DEF Moves, Candid, Opened, Linked
    <2>2. ~a.ipcpUp => ~b.ipcpUp
      BY IpcpDropFrame DEF Opened
    <2>3. QED
      BY <2>1, <2>2
  <1>3. IpcpRun(a, f, ok) = IpcpFinish(c, f)
    BY MadeCalls DEF IpcpRun
  <1> HIDE DEF b
  <1>4. CASE "up" \in Calls(f)
    <2>1. Slate(IpcpUp(b, ok), W)
      BY <1>1, <1>2, <1>4, IpcpUpSlate DEF SameProofs
    <2>2. IpcpRun(a, f, ok) = IpcpUp(b, ok)
      BY <1>3, <1>4, MadeCalls DEF IpcpFinish
    <2>3. QED
      BY <2>1, <2>2
  <1>5. CASE "up" \notin Calls(f)
    BY <1>1, <1>3, <1>5, IpcpFinishSlate
  <1>6. QED
    BY <1>4, <1>5

\* Every authentication is done, and IPCP is opened.
LEMMA NetworkPhaseSlate ==
    ASSUME NEW a, Opened(a), NEW W, Core(a, W), Owes(a, W), Heard(a), Shows(a),
           ~a.ipcpUp, a.pending = {}
    PROVE  LET b == NetworkPhase(a)
           IN  /\ Slate(b, W) /\ Opened(b) /\ b.lcp = a.lcp /\ b.chapS = a.chapS
               /\ b.pending = {}
  <1> DEFINE t == [a EXCEPT !.authState = "up"]
             k == [t EXCEPT !.authScript = "up", !.authPid = TRUE]
             u == IF t.authScript = "down" /\ ~t.authPid THEN k ELSE t
             v == IF a.lcp.go # NoOpt THEN u ELSE a
             w == Phase(v, "NETWORK")
             x == IpcpQuit(w, Open(w.ipcp))
             y == [x EXCEPT !.ipcpOpen = TRUE]
             z == [y EXCEPT !.npOpen = @ + 1]
             Alright(b) == /\ Opened(b) /\ Core(b, W) /\ Owes(b, W) /\ Heard(b) /\ Shows(b)
                           /\ ~b.ipcpUp /\ b.pending = {} /\ b.lcp = a.lcp
                           /\ b.chapS = a.chapS
  <1>1. a \in Session /\ Alright(a)
    BY DEF Opened, Linked
  <1>2. Aside(a, t) /\ SameDevice(a, t) /\ SameNet(a, t) /\ t.lcp = a.lcp
    BY <1>1, FieldAside DEF Session, SameDevice, SameNet
  <1>3. /\ t.papC = a.papC /\ t.papS = a.papS /\ t.chapC = a.chapC /\ t.chapS = a.chapS
        /\ t.pending = a.pending /\ t.success = a.success
    BY <1>1 DEF Session
  <1>4. NetworkPhase(a) = StartNetworks(v)
    BY DEF NetworkPhase
  <1> HIDE DEF t
  <1>5. Opened(t) /\ Core(t, W) /\ t \in Session
    BY <1>2, AsideKeeps, AsideSession, OpenCore DEF Opened
  <1>6. Alright(t)
    BY <1>1, <1>2, <1>3, <1>5 DEF Owes, Asks, Heard, Shows, SameNet
  <1>7. Aside(t, k) /\ Unmoved(t, k)
    BY <1>5, FieldAside, FieldUnmoved
  <1> HIDE DEF k
  <1>8. Alright(k)
    BY <1>6, <1>7, AsideUnmoved, SlateUnmoved, UnmovedKeeps DEF Unmoved, SameNet, SameProofs
  <1>9. Alright(v) /\ v \in Session
    BY <1>1, <1>6, <1>8 DEF Opened, Linked
  <1> HIDE DEF v
  <1>10. "NETWORK" \in Phases
    BY DEF Phases
  <1>11. Linked(w) /\ w.lcp = v.lcp /\ w.ipcp = v.ipcp /\ w.phase = "NETWORK"
    BY <1>9, <1>10, PhaseEffect DEF Opened
  <1>12. SameDevice(v, w) /\ SameProofs(v, w) /\ w.ipcpUp = v.ipcpUp /\ w.npUp = v.npUp
    BY <1>9 DEF Session, Phase, SameDevice, SameProofs
  <1>13. StartNetworks(v) = z
    BY <1>11 DEF StartNetworks
  <1> HIDE DEF w
  <1>14. Opened(w) /\ Core(w, W)
    BY <1>9, <1>11, <1>12, OpenCore DEF Opened
  <1>15. Slate(w, W)
    BY <1>9, <1>11, <1>12, <1>14, SameOwes DEF Slate, Agenda, Shows
  <1>16. Moves(w.ipcp, Open(w.ipcp)) /\ "finished" \notin Calls(Open(w.ipcp))
    BY <1>11, FsmMoves, OpenCandid DEF Linked, Steady
  <1>17. x = IpcpDrop(w, Open(w.ipcp))
    BY <1>16, MadeCalls DEF IpcpQuit, IpcpFinish
  <1>18. Opened(x) /\ Slate(x, W) /\ x.lcp = w.lcp /\ SameProofs(w, x)
    BY <1>14, <1>15, <1>16, <1>17, IpcpDropSlate
  <1> HIDE DEF x
  <1>19. x \in Session /\ Aside(x, y) /\ Unmoved(x, y)
    BY <1>18, FieldAside, FieldUnmoved DEF Opened, Linked
  <1> HIDE DEF y
  <1>20. Opened(y) /\ Slate(y, W) /\ y \in Session /\ y.npOpen + 1 \in Int
    BY <1>18, <1>19, AsideUnmoved, SessionFields
  <1>21. /\ z \in Session /\ SameDevice(y, z) /\ SameProofs(y, z) /\ z.lcp = y.lcp
         /\ z.ipcpUp = y.ipcpUp /\ z.npUp = y.npUp /\ z.phase = y.phase
    BY <1>20 DEF Session, SameDevice, SameProofs
  <1> HIDE DEF z
  <1>22. Core(z, W)
    BY <1>20, <1>21, OpenCore DEF Opened, Slate
  <1>23. Slate(z, W) /\ Opened(z)
    <2>1. z.ipcp = y.ipcp
      BY <1>20 DEF z, Session
    <2>2. QED
      BY <1>20, <1>21, <1>22, <2>1, SameOwes
         DEF Opened, Linked, Slate, Agenda, Shows, SameProofs
  <1>24. z.lcp = a.lcp /\ z.chapS = a.chapS /\ z.pending = {}
    BY <1>9, <1>11, <1>12, <1>18, <1>19, <1>21 DEF SameProofs, Unmoved
  <1>25. QED
    BY <1>4, <1>13, <1>23, <1>24

\* t is a without the authentication that is done.
LEMMA AuthSuccessSlate ==
    ASSUME NEW a, Opened(a), NEW W, Core(a, W), Shows(a), ~a.ipcpUp, NEW x,
           Owes([a EXCEPT !.pending = @ \ {x}], W), Heard([a EXCEPT !.pending = @ \ {x}])
    PROVE  LET b == AuthSuccess(a, x)
           IN  /\ Slate(b, W) /\ Opened(b) /\ b.lcp = a.lcp /\ b.chapS = a.chapS
               /\ b.pending = a.pending \ {x}
  <1> DEFINE t == [a EXCEPT !.pending = @ \ {x}]
  <1>1. a \in Session /\ a.pending \ {x} \subseteq Auths
    BY SessionFields DEF Opened, Linked
  <1>2. /\ t \in Session /\ t.lcp = a.lcp /\ t.ipcp = a.ipcp /\ t.ipcpUp = a.ipcpUp
        /\ t.npUp = a.npUp /\ t.phase = a.phase /\ t.chapS = a.chapS
        /\ t.pending = a.pending \ {x} /\ SameDevice(a, t)
    BY <1>1 DEF Session, SameDevice
  <1>3. AuthSuccess(a, x) = IF t.pending = {} THEN NetworkPhase(t) ELSE t
    BY DEF AuthSuccess
  <1>4. Owes(t, W) /\ Heard(t)
    OBVIOUS
  <1> HIDE DEF t
  <1>5. Opened(t) /\ Core(t, W) /\ Shows(t)
    BY <1>2, OpenCore DEF Opened, Linked, Shows
  <1>6. CASE t.pending = {}
    BY <1>2, <1>3, <1>4, <1>5, <1>6, NetworkPhaseSlate
  <1>7. CASE t.pending # {}
    BY <1>2, <1>3, <1>4, <1>5, <1>7 DEF Slate, Agenda
  <1>8. QED
    BY <1>6, <1>7

-----------------------------------------------------------------------------
(* CHAP and PAP. *)

\* b is a but for the authentication protocols ...
Kin(a, b) == b \in Session /\ SameDevice(a, b) /\ SameNet(a, b) /\ b.lcp = a.lcp
\* ... and here but for the flags of the CHAP server.
FlagsOnly(a, b) ==
    /\ Kin(a, b)
    /\ b.papC = a.papC /\ b.papS = a.papS /\ b.chapC = a.chapC
    /\ b.pending = a.pending /\ b.success = a.success /\ b.authState = a.authState

LEMMA KinKeeps ==
    ASSUME NEW a, NEW b, Kin(a, b), NEW W
    PROVE  /\ Linked(a) => Linked(b)
           /\ Opened(a) => Opened(b)
           /\ Opened(a) /\ Core(a, W) => Core(b, W)
           /\ Shows(a) => Shows(b)
  BY OpenCore DEF Kin, Linked, Opened, SameNet, Shows

LEMMA KinTwice ==
    ASSUME NEW a, NEW b, NEW c
    PROVE  /\ Kin(a, b) /\ Kin(b, c) => Kin(a, c)
           /\ FlagsOnly(a, b) /\ FlagsOnly(b, c) => FlagsOnly(a, c)
           /\ b \in Session /\ Unmoved(a, b) => FlagsOnly(a, b) /\ b.chapS = a.chapS
  BY UnmovedTwice DEF Kin, FlagsOnly, Unmoved, SameProofs

LEMMA FlagsField ==
    ASSUME NEW a \in Session, NEW x \in SUBSET ChapFlags
    PROVE  LET b == [a EXCEPT !.chapS = x]
           IN  FlagsOnly(a, b) /\ b.chapS = x /\ b \in Session /\ b.chapXmits = a.chapXmits
  BY DEF Session, FlagsOnly, Kin, SameDevice, SameNet

\* The server sends a challenge, or gives up.
LEMMA ChapTimeoutFrame ==
    ASSUME NEW a \in Session
    PROVE  LET b == ChapTimeout(a)
           IN  \/ FlagsOnly(a, b) /\ b.chapS = a.chapS \cup {"VALID", "PENDING"}
               \/ /\ "VALID" \in a.chapS
                  /\ \E c : FlagsOnly(a, c) /\ b = LcpClose(c)
  <1> DEFINE t == [a EXCEPT !.chapS = @ \ {"PENDING"}]
             c == [t EXCEPT !.chapS = (@ \ {"VALID"}) \cup {"DONE", "FAILED"}]
             n == [t EXCEPT !.chapXmits = 0]
             v == [n EXCEPT !.chapS = @ \cup {"VALID"}]
             u == IF "VALID" \in a.chapS THEN t ELSE v
             w == [u EXCEPT !.chapXmits = @ + 1]
             x == [w EXCEPT !.chapS = @ \cup {"PENDING"}]
  <1>1. a.chapS \subseteq ChapFlags /\ 0 \in Nat
    BY SessionFields
  <1>2. {"PENDING", "VALID", "DONE", "FAILED"} \subseteq ChapFlags /\ "chap" \in Timers
    BY DEF ChapFlags, Timers
  <1>3. /\ ChapTimeout(a) = Arm(x, "chap")
           \/ ("VALID" \in a.chapS /\ ChapTimeout(a) = LcpClose(c))
    BY DEF ChapTimeout
  <1>4. FlagsOnly(a, t) /\ t \in Session /\ t.chapS = a.chapS \ {"PENDING"}
    BY <1>1, FlagsField
  <1> HIDE DEF t
  <1>5. t.chapS \subseteq ChapFlags
    BY <1>4, SessionFields
  <1>6. FlagsOnly(t, c)
    BY <1>2, <1>4, <1>5, FlagsField
  <1>7. n \in Session /\ Unmoved(t, n)
    BY <1>1, <1>4, FieldAside, FieldUnmoved, AsideSession
  <1> HIDE DEF n, c
  <1>8. FlagsOnly(t, n) /\ n.chapS = t.chapS /\ n.chapS \subseteq ChapFlags
    BY <1>5, <1>7, KinTwice
  <1>9. FlagsOnly(n, v) /\ v \in Session /\ v.chapS = n.chapS \cup {"VALID"}
    BY <1>2, <1>7, <1>8, FlagsField
  <1> HIDE DEF v
  <1>10. FlagsOnly(a, u) /\ u \in Session
         /\ u.chapS \cup {"PENDING"} = a.chapS \cup {"VALID", "PENDING"}
    BY <1>4, <1>8, <1>9, KinTwice
  <1> HIDE DEF u
  <1>11. u.chapXmits + 1 \in Nat
    BY <1>10, SessionFields
  <1>12. w \in Session /\ Unmoved(u, w)
    BY <1>10, <1>11, FieldAside, FieldUnmoved, AsideSession
  <1> HIDE DEF w
  <1>13. FlagsOnly(u, w) /\ w.chapS = u.chapS /\ w.chapS \subseteq ChapFlags
    BY <1>12, KinTwice, SessionFields
  <1>14. FlagsOnly(w, x) /\ x \in Session /\ x.chapS = w.chapS \cup {"PENDING"}
    BY <1>2, <1>12, <1>13, FlagsField
  <1> HIDE DEF x
  <1> DEFINE y == Arm(x, "chap")
  <1>15. y \in Session /\ Unmoved(x, y)
    BY <1>2, <1>14, Ticks, TickUnmoved
  <1> HIDE DEF y
  <1>16. FlagsOnly(x, y) /\ y.chapS = x.chapS
    BY <1>15, KinTwice
  <1>17. FlagsOnly(a, y) /\ y.chapS = a.chapS \cup {"VALID", "PENDING"}
    BY <1>10, <1>13, <1>14, <1>16, KinTwice
  <1>18. FlagsOnly(a, c)
    BY <1>4, <1>6, KinTwice
  <1>19. QED
    BY <1>3, <1>17, <1>18 DEF y

LEMMA ChapTimeoutSlate ==
    ASSUME NEW a, Opened(a), NEW W, Slate(a, W),
           "DONE" \notin a.chapS => "chapPeer" \in a.pending
    PROVE  Slate(ChapTimeout(a), W)
  <1> DEFINE b == ChapTimeout(a)
  <1>1. a \in Session
    BY DEF Opened, Linked
  <1>2. CASE FlagsOnly(a, b) /\ b.chapS = a.chapS \cup {"VALID", "PENDING"}
    <2> HIDE DEF b
    <2>1. Core(b, W) /\ Shows(b) /\ b.phase = a.phase
      BY <1>2, KinKeeps DEF FlagsOnly, Kin, SameNet, Opened, Slate, Agenda
    <2>2. Owes(b, W) /\ Heard(b)
      BY <1>2 DEF FlagsOnly, Opened, Slate, Agenda, Owes, Asks, Heard
    <2>3. QED
      BY <1>2, <2>1, <2>2 DEF b, FlagsOnly, Opened, Slate, Agenda
  <1>3. CASE \E c : FlagsOnly(a, c) /\ b = LcpClose(c)
    <2>1. PICK c : FlagsOnly(a, c) /\ b = LcpClose(c)
      BY <1>3
    <2>2. Opened(c) /\ Core(c, W)
      BY <2>1, KinKeeps DEF FlagsOnly, Slate
    <2>3. QED
      BY <2>1, <2>2, OpenedLoose, CloseSlate
  <1>4. QED
    BY <1>1, <1>2, <1>3, ChapTimeoutFrame

\* The last lines of chap_handle_response, when the response was right
LEMMA ChapMarkSlate ==
    ASSUME NEW a, Opened(a), NEW W, Slate(a, W),
           "clean" \in W => "chapPeer" \notin a.pending, NEW again \in BOOLEAN
    PROVE  LET w == [a EXCEPT !.chapS = @ \cup {"PENDING"}]
               x == IF again THEN Arm(w, "chap") ELSE a
           IN  Slate([x EXCEPT !.chapS = @ \cup {"DONE"}], W)
  <1> DEFINE w == [a EXCEPT !.chapS = @ \cup {"PENDING"}]
             v == Arm(w, "chap")
             x == IF again THEN v ELSE a
             b == [x EXCEPT !.chapS = @ \cup {"DONE"}]
  <1>1. {"PENDING", "DONE"} \subseteq ChapFlags /\ "chap" \in Timers
    BY DEF ChapFlags, Timers
  <1>2. a \in Session /\ a.chapS \cup {"PENDING"} \in SUBSET ChapFlags
    BY <1>1, SessionFields DEF Opened, Linked
  <1>3. FlagsOnly(a, w) /\ w \in Session
    BY <1>2, FlagsField
  <1> HIDE DEF w
  <1>4. v \in Session /\ Unmoved(w, v)
    BY <1>1, <1>3, Ticks, TickUnmoved
  <1> HIDE DEF v
  <1>5. FlagsOnly(a, v)
    BY <1>3, <1>4, KinTwice
  <1>6. FlagsOnly(a, a)
    BY <1>2 DEF FlagsOnly, Kin, SameDevice, SameNet
  <1>7. FlagsOnly(a, x) /\ x \in Session
    BY <1>2, <1>4, <1>5, <1>6
  <1> HIDE DEF x
  <1>8. x.chapS \cup {"DONE"} \in SUBSET ChapFlags
    BY <1>1, <1>7, SessionFields
  <1>9. FlagsOnly(x, b) /\ "DONE" \in b.chapS
    BY <1>7, <1>8, FlagsField
  <1> HIDE DEF b
  <1>10. FlagsOnly(a, b)
    BY <1>7, <1>9, KinTwice
  <1>11. Core(b, W) /\ Shows(b) /\ b.phase = a.phase
    BY <1>10, KinKeeps DEF FlagsOnly, Kin, SameNet, Opened, Slate, Agenda
  <1>12. Owes(b, W) /\ Heard(b)
    BY <1>9, <1>10 DEF FlagsOnly, Opened, Slate, Agenda, Owes, Asks, Heard
  <1>13. Slate(b, W)
    BY <1>10, <1>11, <1>12 DEF FlagsOnly, Opened, Slate, Agenda
  <1>14. QED
    BY <1>13 DEF b, x, v, w

\* The success that is told to the peer comes before the authentication is done.
LEMMA ChapJudgedSlate ==
    ASSUME NEW a, Opened(a), NEW W, Core(a, W), Owes(a, W), Shows(a),
           a.phase = "AUTHENTICATE" => a.pending # {},
           "DONE" \in a.chapS \/ ~a.ipcpUp, "PENDING" \notin a.chapS
    PROVE  Slate(ChapJudged(a), W)
  <1> DEFINE t == [a EXCEPT !.chapS = @ \ {"VALID"}]
             v == IF "DONE" \in t.chapS THEN t ELSE AuthSuccess(t, "chapPeer")
             w == [v EXCEPT !.chapS = @ \cup {"PENDING"}]
             x == IF Rechallenge THEN Arm(w, "chap") ELSE v
             c == LcpClose(t)
             y == IF "FAILED" \in t.chapS THEN c ELSE x
  <1>1. a \in Session /\ a.chapS \subseteq ChapFlags
    BY SessionFields DEF Opened, Linked
  <1>2. "DONE" \in ChapFlags /\ Rechallenge \in BOOLEAN
    BY SessionAssumption DEF ChapFlags
  <1>3. FlagsOnly(a, t) /\ t.chapS = a.chapS \ {"VALID"}
    BY <1>1, FlagsField
  <1>4. ChapJudged(a) = [y EXCEPT !.chapS = @ \cup {"DONE"}]
    BY DEF ChapJudged
  <1> HIDE DEF t
  <1>5. Opened(t) /\ Core(t, W) /\ Shows(t) /\ t.phase = a.phase /\ t.ipcpUp = a.ipcpUp
    BY <1>3, KinKeeps DEF FlagsOnly, Kin, SameNet
  <1>6. CASE "FAILED" \in t.chapS
    <2>1. Slate(c, W) /\ Clear(c) /\ c.lcp.state # "OPENED" /\ c \in Session
      BY <1>5, OpenedLoose, CloseSlate DEF Linked
    <2> HIDE DEF c
    <2> DEFINE d == [c EXCEPT !.chapS = @ \cup {"DONE"}]
    <2>2. c.chapS \cup {"DONE"} \in SUBSET ChapFlags
      BY <1>2, <2>1, SessionFields
    <2>3. FlagsOnly(c, d) /\ d.chapS = c.chapS \cup {"DONE"}
      BY <2>1, <2>2, FlagsField
    <2> HIDE DEF d
    <2>4. Clear(d)
      BY <2>1, <2>3 DEF Clear, FlagsOnly, Kin, SameNet
    <2>5. Slate(d, W)
      BY <2>1, <2>3, <2>4, ClosedSlate DEF FlagsOnly, Kin
    <2>6. ChapJudged(a) = d
      BY <1>4, <1>6 DEF d
    <2>7. QED
      BY <2>5, <2>6
  <1>7. CASE "FAILED" \notin t.chapS
    <2>1. Opened(v) /\ Slate(v, W) /\ ("clean" \in W => "chapPeer" \notin v.pending)
      <3>1. CASE "DONE" \in t.chapS
        <4>1. Owes(t, W) /\ Heard(t)
          BY <1>3, <3>1 DEF FlagsOnly, Owes, Asks, Heard
        <4>2. QED
          BY <1>3, <1>5, <3>1, <4>1 DEF FlagsOnly, Slate, Agenda, Owes
      <3>2. CASE "DONE" \notin t.chapS
        <4> DEFINE u == [t EXCEPT !.pending = @ \ {"chapPeer"}]
                   r == AuthSuccess(t, "chapPeer")
        <4>1. /\ u.papC = t.papC /\ u.papS = t.papS /\ u.chapC = t.chapC /\ u.chapS = t.chapS
              /\ u.success = t.success /\ u.pending = t.pending \ {"chapPeer"}
          BY <1>5 DEF Opened, Linked, Session
        <4> HIDE DEF u
        <4>2. Owes(u, W) /\ Heard(u)
          BY <1>3, <3>2, <4>1 DEF FlagsOnly, Owes, Asks, Heard
        <4>3. ~t.ipcpUp
          BY <1>3, <1>5, <3>2
        <4>4. Slate(r, W) /\ Opened(r) /\ r.pending = t.pending \ {"chapPeer"}
          BY <1>5, <4>2, <4>3, AuthSuccessSlate DEF u
        <4>5. QED
          BY <3>2, <4>4
      <3>3. QED
        BY <3>1, <3>2
    <2> HIDE DEF v
    <2>2. y = x
      BY <1>7
    <2>3. Slate([x EXCEPT !.chapS = @ \cup {"DONE"}], W)
      BY <1>2, <2>1, ChapMarkSlate
    <2>4. QED
      BY <1>4, <2>2, <2>3
  <1>8. QED
    BY <1>6, <1>7

\* What is pending keeps the network down.
LEMMA PendingDown ==
    ASSUME NEW a, Sound(a), a.lcp.state = "OPENED", a.pending # {}
    PROVE  Opened(a) /\ ~a.ipcpUp
  BY DEF Sound, Quiet, Proved, InNetwork, Opened, Linked

LEMMA SuccessField ==
    ASSUME NEW a \in Session, NEW x \in Auths
    PROVE  LET b == [a EXCEPT !.success = @ \cup {x}]
           IN  /\ Kin(a, b) /\ b.success = a.success \cup {x} /\ b.pending = a.pending
               /\ b.papC = a.papC /\ b.papS = a.papS /\ b.chapC = a.chapC /\ b.chapS = a.chapS
  <1> DEFINE y == a.success \cup {x}
             b == [a EXCEPT !.success = y]
  <1>1. y \in SUBSET Auths
    BY SessionFields
  <1> HIDE DEF y
  <1>2. /\ Kin(a, b) /\ b.success = y /\ b.pending = a.pending
        /\ b.papC = a.papC /\ b.papS = a.papS /\ b.chapC = a.chapC /\ b.chapS = a.chapS
    BY <1>1 DEF Session, Kin, SameDevice, SameNet
  <1>3. QED
    BY <1>2 DEF y

LEMMA ChapResponseSlate ==
    ASSUME NEW a, Sound(a), a.lcp.state = "OPENED", NEW W, Slate(a, W), NEW ok
    PROVE  Slate(ChapResponse(a, ok), W)
  <1> DEFINE t == IF "PENDING" \in a.chapS THEN Cancel(a, "chap") ELSE a
             flags == (t.chapS \ {"PENDING"}) \cup (IF ok THEN {} ELSE {"FAILED"})
             u == [t EXCEPT !.chapS = flags]
             tell(v) == IF "FAILED" \in v.chapS THEN v
                        ELSE [v EXCEPT !.success = @ \cup {"chapPeer"}]
             w == tell(u)
  <1>1. "chap" \in Timers /\ "FAILED" \in ChapFlags /\ "chapPeer" \in Auths
    BY DEF Timers, ChapFlags, Auths
  <1>2. a \in Session /\ Opened(a) /\ Agenda(a, W) /\ Core(a, W)
    BY DEF Sound, Linked, Opened, Slate
  <1>3. t \in Session /\ FlagsOnly(a, t) /\ t.chapS = a.chapS
    <2> DEFINE c == Cancel(a, "chap")
    <2>1. c \in Session /\ Unmoved(a, c)
      BY <1>1, <1>2, Ticks, TickUnmoved
    <2> HIDE DEF c
    <2>2. FlagsOnly(a, c) /\ c.chapS = a.chapS
      BY <2>1, KinTwice
    <2>3. FlagsOnly(a, a)
      BY <1>2 DEF FlagsOnly, Kin, SameDevice, SameNet
    <2>4. t = c \/ t = a
      BY DEF c
    <2>5. QED
      BY <1>2, <2>1, <2>2, <2>3, <2>4
  <1>4. ChapResponse(a, ok) = IF "LOWERUP" \notin a.chapS THEN a
                              ELSE IF "VALID" \in a.chapS THEN ChapJudged(w)
                              ELSE IF "DONE" \in a.chapS THEN tell(a) ELSE a
    BY DEF ChapResponse
  <1> HIDE DEF t
  <1>5. flags \in SUBSET ChapFlags
    BY <1>1, <1>3, SessionFields
  <1>6. "PENDING" \notin flags /\ ("DONE" \in flags <=> "DONE" \in a.chapS)
    BY <1>3
  <1> HIDE DEF flags
  <1>7. FlagsOnly(t, u) /\ u \in Session /\ u.chapS = flags
    BY <1>3, <1>5, FlagsField
  <1> HIDE DEF u
  <1>8. ASSUME NEW v \in Session
        PROVE  /\ Kin(v, tell(v)) /\ tell(v).pending = v.pending
               /\ tell(v).success \in {v.success, v.success \cup {"chapPeer"}}
               /\ tell(v).papC = v.papC /\ tell(v).papS = v.papS
               /\ tell(v).chapC = v.chapC /\ tell(v).chapS = v.chapS
    <2> DEFINE x == [v EXCEPT !.success = @ \cup {"chapPeer"}]
    <2>1. /\ Kin(v, x) /\ x.success = v.success \cup {"chapPeer"} /\ x.pending = v.pending
          /\ x.papC = v.papC /\ x.papS = v.papS /\ x.chapC = v.chapC /\ x.chapS = v.chapS
      BY <1>1, SuccessField
    <2>2. Kin(v, v)
      BY DEF Kin, SameDevice, SameNet
    <2>3. tell(v) = v \/ tell(v) = x
      OBVIOUS
    <2> HIDE DEF x
    <2>4. QED
      BY <2>1, <2>2, <2>3
  <1> HIDE DEF tell
  <1>9. CASE "VALID" \in a.chapS
    <2>1. /\ Kin(u, w) /\ w.pending = u.pending
          /\ w.success \in {u.success, u.success \cup {"chapPeer"}}
          /\ w.papC = u.papC /\ w.papS = u.papS /\ w.chapC = u.chapC /\ w.chapS = u.chapS
      BY <1>7, <1>8
    <2> HIDE DEF w
    <2>2. Kin(a, w)
      BY <1>3, <1>7, <2>1, KinTwice DEF FlagsOnly
    <2>3. Opened(w) /\ Core(w, W) /\ Shows(w) /\ w.phase = a.phase /\ w.ipcpUp = a.ipcpUp
      BY <1>2, <2>2, KinKeeps DEF Kin, SameNet, Agenda
    <2>4. "DONE" \notin a.chapS => "chapPeer" \in a.pending
      BY <1>2, <1>9 DEF Agenda, Owes, Asks
    <2>5. "DONE" \in a.chapS \/ ~a.ipcpUp
      BY <2>4, PendingDown
    <2>6. Owes(w, W) /\ w.pending = a.pending /\ "PENDING" \notin w.chapS
      BY <1>2, <1>3, <1>6, <1>7, <2>1, <2>4 DEF FlagsOnly, Agenda, Owes, Asks
    <2>7. "DONE" \in w.chapS \/ ~w.ipcpUp
      BY <1>6, <1>7, <2>1, <2>3, <2>5
    <2>8. Slate(ChapJudged(w), W)
      BY <1>2, <2>3, <2>6, <2>7, ChapJudgedSlate DEF Agenda
    <2>9. QED
      BY <1>4, <1>9, <2>8
  <1>10. CASE "DONE" \in a.chapS
    <2> DEFINE b == tell(a)
    <2>1. /\ Kin(a, b) /\ b.pending = a.pending
          /\ b.success \in {a.success, a.success \cup {"chapPeer"}}
          /\ b.papC = a.papC /\ b.papS = a.papS /\ b.chapC = a.chapC /\ b.chapS = a.chapS
      BY <1>2, <1>8
    <2> HIDE DEF b
    <2>2. Opened(b) /\ Core(b, W) /\ Shows(b) /\ b.phase = a.phase
      BY <1>2, <2>1, KinKeeps DEF Kin, SameNet, Agenda
    <2>3. Owes(b, W) /\ Heard(b)
      BY <1>2, <1>10, <2>1 DEF Agenda, Owes, Asks, Heard
    <2>4. Slate(b, W)
      BY <1>2, <2>1, <2>2, <2>3 DEF Slate, Agenda
    <2>5. QED
      BY <1>4, <1>9, <2>4 DEF b
  <1>11. QED
    BY <1>4, <1>9, <1>10

LEMMA ChapStatusSlate ==
    ASSUME NEW a, Sound(a), a.lcp.state = "OPENED", NEW W, Slate(a, W), NEW ok
    PROVE  Slate(ChapStatus(a, ok), W)
  <1> DEFINE t == [a EXCEPT !.chapC = @ \cup {"DONE"}]
             good == [t EXCEPT !.success = @ \cup {"chapWith"}]
             bad == [t EXCEPT !.chapC = @ \cup {"FAILED"}]
             u == [good EXCEPT !.pending = @ \ {"chapWith"}]
             idle == a.chapC \cap {"DONE", "STARTED", "LOWERUP"} # {"STARTED", "LOWERUP"}
  <1>1. {"DONE", "FAILED"} \subseteq ChapFlags /\ "chapWith" \in Auths
    BY DEF ChapFlags, Auths
  <1>2. /\ a \in Session /\ Opened(a) /\ Agenda(a, W) /\ Core(a, W)
        /\ a.chapC \cup {"DONE"} \in SUBSET ChapFlags
    BY <1>1, SessionFields DEF Sound, Linked, Opened, Slate
  <1>3. ChapStatus(a, ok) = IF idle THEN a
                            ELSE IF ok THEN AuthSuccess(good, "chapWith") ELSE LcpClose(bad)
    BY DEF ChapStatus
  <1>4. /\ Kin(a, t) /\ t.papC = a.papC /\ t.papS = a.papS /\ t.chapS = a.chapS
        /\ t.pending = a.pending /\ t.success = a.success /\ "DONE" \in t.chapC
    BY <1>2 DEF Session, Kin, SameDevice, SameNet
  <1> HIDE DEF t
  <1>5. t \in Session /\ t.chapC \cup {"FAILED"} \in SUBSET ChapFlags
    BY <1>1, <1>4, SessionFields DEF Kin
  <1>6. Kin(t, bad)
    BY <1>5 DEF Session, Kin, SameDevice, SameNet
  <1>7. /\ Kin(t, good) /\ good.success = t.success \cup {"chapWith"}
        /\ good.pending = t.pending /\ good.papC = t.papC /\ good.papS = t.papS
        /\ good.chapC = t.chapC /\ good.chapS = t.chapS
    BY <1>1, <1>5, SuccessField
  <1> HIDE DEF good, bad
  <1>8. good \in Session
    BY <1>7 DEF Kin
  <1>9. CASE ~idle /\ ok
    <2>1. "chapWith" \in a.pending
      <3>1. "STARTED" \in a.chapC /\ "LOWERUP" \in a.chapC /\ "DONE" \notin a.chapC
        BY <1>9
      <3>2. QED
        BY <1>2, <3>1 DEF Agenda, Owes, Asks
    <2>2. Kin(a, good) /\ good.ipcpUp = a.ipcpUp
      BY <1>4, <1>7, KinTwice DEF Kin, SameNet
    <2>3. Opened(good) /\ Core(good, W) /\ Shows(good) /\ ~good.ipcpUp
      BY <1>2, <2>1, <2>2, KinKeeps, PendingDown DEF Agenda
    <2>4. /\ u.papC = good.papC /\ u.papS = good.papS /\ u.chapC = good.chapC
          /\ u.chapS = good.chapS /\ u.success = good.success
          /\ u.pending = good.pending \ {"chapWith"}
      BY <1>8 DEF Session
    <2> HIDE DEF u
    <2>5. Owes(u, W) /\ Heard(u)
      BY <1>2, <1>4, <1>7, <2>4 DEF Agenda, Owes, Asks, Heard
    <2>6. Slate(AuthSuccess(good, "chapWith"), W)
      BY <2>3, <2>5, AuthSuccessSlate DEF u
    <2>7. QED
      BY <1>3, <1>9, <2>6
  <1>10. CASE ~idle /\ ~ok
    <2>1. Opened(bad) /\ Core(bad, W)
      BY <1>2, <1>4, <1>6, KinTwice, KinKeeps
    <2>2. QED
      BY <1>3, <1>10, <2>1, OpenedLoose, CloseSlate
  <1>11. QED
    BY <1>3, <1>9, <1>10

\* A Protocol-Reject closes the link once, whatever CHAP was at.
LEMMA ChapProtrejSlate ==
    ASSUME NEW a, Opened(a), NEW W, Slate(a, W)
    PROVE  Slate(ChapProtrej(a), W)
  <1> DEFINE c == Cancel(a, "chap")
             x == [c EXCEPT !.chapS = @ \ {"PENDING"}]
             t == IF "PENDING" \in a.chapS THEN x ELSE a
             z == [t EXCEPT !.chapS = {}]
             u == IF "STARTED" \in t.chapS THEN LcpClose(z) ELSE t
             v == [u EXCEPT !.chapC = @ \ {"STARTED"}]
             waits == u.chapC \cap {"STARTED", "DONE"} = {"STARTED"}
  <1>1. "chap" \in Timers /\ a \in Session /\ {} \in SUBSET ChapFlags
    BY DEF Timers, Opened, Linked
  <1>2. c \in Session /\ Unmoved(a, c)
    BY <1>1, Ticks, TickUnmoved
  <1>3. ChapProtrej(a) = IF waits THEN LcpClose(v) ELSE u
    BY DEF ChapProtrej
  <1> HIDE DEF c
  <1>4. c.chapS \ {"PENDING"} \in SUBSET ChapFlags /\ FlagsOnly(a, c) /\ c.chapS = a.chapS
    BY <1>2, SessionFields, KinTwice
  <1>5. FlagsOnly(c, x) /\ x.chapS = c.chapS \ {"PENDING"}
    BY <1>2, <1>4, FlagsField
  <1> HIDE DEF x
  <1>6. FlagsOnly(a, x)
    BY <1>4, <1>5, KinTwice
  <1>7. Opened(x) /\ Core(x, W) /\ Shows(x) /\ x.phase = a.phase
    BY <1>6, KinKeeps DEF FlagsOnly, Kin, SameNet, Opened, Slate, Agenda
  <1>8. Owes(x, W) /\ Heard(x)
    BY <1>4, <1>5, <1>6 DEF FlagsOnly, Opened, Slate, Agenda, Owes, Asks, Heard
  <1>9. Opened(t) /\ Slate(t, W)
    BY <1>6, <1>7, <1>8 DEF FlagsOnly, Opened, Slate, Agenda
  <1> HIDE DEF t
  <1>10. FlagsOnly(t, z)
    BY <1>1, <1>9, FlagsField DEF Opened, Linked
  <1> HIDE DEF z
  <1>11. Opened(z) /\ Core(z, W)
    BY <1>9, <1>10, KinKeeps DEF FlagsOnly, Slate
  <1>12. CASE "STARTED" \in t.chapS
    <2>1. Slate(u, W) /\ Clear(u)
      BY <1>11, <1>12, OpenedLoose, CloseSlate
    <2>2. ~waits
      BY <2>1 DEF Clear
    <2>3. QED
      BY <1>3, <2>1, <2>2
  <1>13. CASE "STARTED" \notin t.chapS
    <2>1. Opened(u) /\ Slate(u, W)
      BY <1>9, <1>13
    <2> HIDE DEF u
    <2>2. u \in Session /\ u.chapC \ {"STARTED"} \in SUBSET ChapFlags
      BY <2>1, SessionFields DEF Opened, Linked
    <2>3. Kin(u, v)
      BY <2>2 DEF Session, Kin, SameDevice, SameNet
    <2> HIDE DEF v
    <2>4. Opened(v) /\ Core(v, W)
      BY <2>1, <2>3, KinKeeps DEF Slate
    <2>5. Slate(LcpClose(v), W)
      BY <2>4, OpenedLoose, CloseSlate
    <2>6. QED
      BY <1>3, <2>1, <2>5
  <1>14. QED
    BY <1>12, <1>13

\* What PAP does with its own state
PapOnly(a, b) ==
    /\ Kin(a, b) /\ b.chapC = a.chapC /\ b.chapS = a.chapS
    /\ b.pending = a.pending /\ b.success = a.success /\ b.authState = a.authState

LEMMA PapField ==
    ASSUME NEW a \in Session, NEW x \in PapStates
    PROVE  /\ LET b == [a EXCEPT !.papC = x]
              IN  PapOnly(a, b) /\ b.papC = x /\ b.papS = a.papS /\ b \in Session
           /\ LET b == [a EXCEPT !.papS = x]
              IN  PapOnly(a, b) /\ b.papS = x /\ b.papC = a.papC /\ b \in Session
  <1>1. LET b == [a EXCEPT !.papC = x]
        IN  PapOnly(a, b) /\ b.papC = x /\ b.papS = a.papS /\ b \in Session
    BY DEF Session, PapOnly, Kin, SameDevice, SameNet
  <1>2. LET b == [a EXCEPT !.papS = x]
        IN  PapOnly(a, b) /\ b.papS = x /\ b.papC = a.papC /\ b \in Session
    BY DEF Session, PapOnly, Kin, SameDevice, SameNet
  <1>3. QED
    BY <1>1, <1>2

LEMMA PapOnlyTwice ==
    ASSUME NEW a, NEW b, NEW c
    PROVE  /\ PapOnly(a, b) /\ PapOnly(b, c) => PapOnly(a, c)
           /\ b \in Session /\ Unmoved(a, b) => PapOnly(a, b) /\ b.papC = a.papC /\ b.papS = a.papS
  BY KinTwice DEF PapOnly, Kin, Unmoved, SameProofs

LEMMA PapSendFrame ==
    ASSUME NEW a \in Session
    PROVE  LET b == PapSend(a)
           IN  PapOnly(a, b) /\ b.papC = "AUTHREQ" /\ b.papS = a.papS /\ b \in Session
  <1> DEFINE t == [a EXCEPT !.papXmits = @ + 1]
             u == [t EXCEPT !.papC = "AUTHREQ"]
             b == Arm(u, "pap")
  <1>1. "pap" \in Timers /\ "AUTHREQ" \in PapStates /\ a.papXmits + 1 \in Nat
    BY SessionFields DEF Timers, PapStates
  <1>2. PapSend(a) = b
    BY DEF PapSend
  <1>3. t \in Session /\ Unmoved(a, t)
    BY <1>1, FieldAside, FieldUnmoved, AsideSession
  <1> HIDE DEF t
  <1>4. PapOnly(a, t) /\ t.papS = a.papS
    BY <1>3, PapOnlyTwice
  <1>5. PapOnly(t, u) /\ u.papC = "AUTHREQ" /\ u.papS = t.papS /\ u \in Session
    BY <1>1, <1>3, PapField
  <1> HIDE DEF u
  <1>6. b \in Session /\ Unmoved(u, b)
    BY <1>1, <1>5, Ticks, TickUnmoved
  <1> HIDE DEF b
  <1>7. PapOnly(u, b) /\ b.papC = u.papC /\ b.papS = u.papS
    BY <1>6, PapOnlyTwice
  <1>8. QED
    BY <1>2, <1>4, <1>5, <1>6, <1>7, PapOnlyTwice

\* The link is closed, and PAP has given up.
LEMMA PapCloseSlate ==
    ASSUME NEW a, Opened(a), NEW W, Core(a, W)
    PROVE  /\ Slate(LcpClose([a EXCEPT !.papC = "BADAUTH"]), W)
           /\ Slate(LcpClose([a EXCEPT !.papS = "BADAUTH"]), W)
           /\ LcpClose([a EXCEPT !.papS = "BADAUTH"]) \in Session
           /\ Slate([LcpClose(a) EXCEPT !.papS = "BADAUTH"], W)
  <1> DEFINE client == [a EXCEPT !.papC = "BADAUTH"]
             server == [a EXCEPT !.papS = "BADAUTH"]
             c == LcpClose(a)
             d == [c EXCEPT !.papS = "BADAUTH"]
  <1>1. a \in Session /\ "BADAUTH" \in PapStates
    BY DEF Opened, Linked, PapStates
  <1>2. PapOnly(a, client) /\ PapOnly(a, server)
    BY <1>1, PapField
  <1> HIDE DEF client, server
  <1>3. /\ Loose(client) /\ Core(client, W)
        /\ Loose(server) /\ Core(server, W)
    BY <1>2, KinKeeps, OpenedLoose DEF PapOnly
  <1>4. /\ Slate(LcpClose(client), W) /\ Slate(LcpClose(server), W)
        /\ LcpClose(server) \in Session
    BY <1>3, CloseSlate DEF Linked
  <1>5. Slate(c, W) /\ Clear(c) /\ c.lcp.state # "OPENED" /\ c \in Session
    BY CloseSlate, OpenedLoose DEF Linked
  <1> HIDE DEF c
  <1>6. PapOnly(c, d) /\ d.papS = "BADAUTH" /\ d.papC = c.papC
    BY <1>1, <1>5, PapField
  <1> HIDE DEF d
  <1>7. Clear(d)
    BY <1>5, <1>6 DEF Clear, PapOnly, Kin, SameNet
  <1>8. Slate(d, W)
    BY <1>5, <1>6, <1>7, ClosedSlate DEF PapOnly, Kin
  <1>9. QED
    BY <1>4, <1>8 DEF client, server, c, d

LEMMA PapTimeoutSlate ==
    ASSUME NEW a, Linked(a), NEW W, Slate(a, W)
    PROVE  Slate(PapTimeout(a), W) /\ Slate(PapReqTimeout(a), W) /\ Slate(PapNak(a), W)
  <1>1. a.papC = "AUTHREQ" \/ a.papS = "LISTEN" => Opened(a) /\ Core(a, W)
    BY DEF Slate, Core, Base, Clear, Opened
  <1>2. a \in Session
    BY DEF Linked
  <1>3. a.papC = "AUTHREQ" => Slate(PapSend(a), W)
    <2> DEFINE b == PapSend(a)
    <2>1. PapOnly(a, b) /\ b.papC = "AUTHREQ" /\ b.papS = a.papS /\ b \in Session
      BY <1>2, PapSendFrame
    <2> HIDE DEF b
    <2>2. a.papC = "AUTHREQ" => Unmoved(a, b)
      BY <2>1 DEF PapOnly, Kin, Unmoved, SameProofs
    <2>3. QED
      BY <2>2, SlateUnmoved DEF b
  <1>4. Slate(PapTimeout(a), W)
    BY <1>1, <1>3, PapCloseSlate DEF PapTimeout
  <1>5. Slate(PapReqTimeout(a), W)
    BY <1>1, PapCloseSlate DEF PapReqTimeout
  <1>6. Slate(PapNak(a), W)
    BY <1>1, PapCloseSlate DEF PapNak
  <1>7. QED
    BY <1>4, <1>5, <1>6

LEMMA PapProtrejSlate ==
    ASSUME NEW a, Loose(a), NEW W, Slate(a, W)
    PROVE  Slate(PapProtrej(a), W)
  <1> DEFINE c == IF a.papC = "AUTHREQ" THEN LcpClose(a) ELSE a
             d == IF c.papS = "LISTEN" THEN LcpClose(c) ELSE c
             e == PapLowerdown(d)
  <1>1. PapProtrej(a) = e
    BY DEF PapProtrej
  <1>2. Loose(c) /\ Slate(c, W)
    BY CloseSlate DEF Slate
  <1> HIDE DEF c
  <1>3. Loose(d) /\ Slate(d, W)
    BY <1>2, CloseSlate DEF Slate
  <1> HIDE DEF d
  <1>4. /\ e \in Session /\ SameDevice(d, e) /\ SameNet(d, e) /\ e.lcp = d.lcp
        /\ e.papC = "INITIAL" /\ e.papS = "INITIAL"
        /\ e.chapC = d.chapC /\ e.chapS = d.chapS /\ e.pending = d.pending
        /\ e.success = d.success /\ e.authState = d.authState
    BY <1>3, PapLowerdownClears, PapLowerdownAside, AsideSession DEF Loose, Linked
  <1> HIDE DEF e
  <1>5. CASE d.lcp.state = "OPENED"
    <2>1. Kin(d, e) /\ Opened(d)
      BY <1>3, <1>4, <1>5 DEF Kin, Opened, Loose
    <2>2. Core(e, W) /\ Shows(e) /\ e.phase = d.phase
      BY <1>3, <1>5, <2>1, KinKeeps DEF Kin, SameNet, Slate, Agenda
    <2>3. Owes(e, W) /\ Heard(e)
      BY <1>3, <1>4, <1>5 DEF Slate, Agenda, Owes, Asks, Heard
    <2>4. QED
      BY <1>1, <1>3, <1>4, <1>5, <2>2, <2>3 DEF Slate, Agenda
  <1>6. CASE d.lcp.state # "OPENED"
    <2>1. Clear(d)
      BY <1>3, <1>6 DEF Slate, Core, Base
    <2>2. Clear(e)
      BY <1>4, <2>1 DEF Clear, SameNet
    <2>3. QED
      BY <1>1, <1>3, <1>4, <1>6, <2>2, ClosedSlate
  <1>7. QED
    BY <1>5, <1>6

LEMMA PapRequestSlate ==
    ASSUME NEW a, Sound(a), a.lcp.state = "OPENED", NEW W, Slate(a, W), NEW ok
    PROVE  Slate(PapRequest(a, ok), W)
  <1> DEFINE t == [a EXCEPT !.papS = "OPEN"]
             good == [t EXCEPT !.success = @ \cup {"papPeer"}]
             bad == [a EXCEPT !.papS = "BADAUTH"]
             u == [good EXCEPT !.pending = @ \ {"papPeer"}]
             c == IF ok THEN AuthSuccess(good, "papPeer") ELSE LcpClose(bad)
             d == Cancel(c, "papReq")
  <1>1. /\ a \in Session /\ "OPEN" \in PapStates
        /\ "papPeer" \in Auths /\ "papReq" \in Timers
        /\ Opened(a) /\ Agenda(a, W) /\ Core(a, W)
    BY DEF Sound, Linked, PapStates, Auths, Timers, Opened, Slate
  <1>2. PapRequest(a, ok) = IF a.papS # "LISTEN" THEN a ELSE d
    BY DEF PapRequest
  <1>3. PapOnly(a, t) /\ t.papS = "OPEN" /\ t.papC = a.papC /\ t \in Session
    BY <1>1, PapField
  <1> HIDE DEF t
  <1>4. /\ Kin(t, good) /\ good.success = t.success \cup {"papPeer"}
        /\ good.pending = t.pending /\ good.papC = t.papC /\ good.papS = t.papS
        /\ good.chapC = t.chapC /\ good.chapS = t.chapS
    BY <1>1, <1>3, SuccessField
  <1> HIDE DEF good
  <1>5. Kin(a, good) /\ good \in Session
    BY <1>3, <1>4, KinTwice DEF PapOnly, Kin
  <1>6. a.papS = "LISTEN" => Slate(AuthSuccess(good, "papPeer"), W)
                             /\ AuthSuccess(good, "papPeer") \in Session
    <2> SUFFICES ASSUME a.papS = "LISTEN"
                 PROVE  Slate(AuthSuccess(good, "papPeer"), W)
                        /\ AuthSuccess(good, "papPeer") \in Session
      OBVIOUS
    <2>1. "papPeer" \in a.pending
      BY <1>1 DEF Agenda, Owes, Asks
    <2>2. Opened(good) /\ Core(good, W) /\ Shows(good) /\ ~good.ipcpUp
      BY <1>1, <1>5, <2>1, KinKeeps, PendingDown DEF Agenda, Kin, SameNet
    <2>3. /\ u.papC = good.papC /\ u.papS = good.papS /\ u.chapC = good.chapC
          /\ u.chapS = good.chapS /\ u.success = good.success
          /\ u.pending = good.pending \ {"papPeer"}
      BY <1>5 DEF Session
    <2> HIDE DEF u
    <2>4. Owes(u, W) /\ Heard(u)
      BY <1>1, <1>3, <1>4, <2>3 DEF PapOnly, Agenda, Owes, Asks, Heard
    <2>5. QED
      BY <2>2, <2>4, AuthSuccessSlate DEF u, Opened, Linked
  <1>7. Slate(LcpClose(bad), W) /\ LcpClose(bad) \in Session
    BY <1>1, PapCloseSlate
  <1>8. a.papS = "LISTEN" => Slate(c, W) /\ c \in Session
    BY <1>6, <1>7
  <1> HIDE DEF c
  <1>9. c \in Session => Unmoved(c, d)
    BY <1>1, TickUnmoved
  <1>10. QED
    BY <1>2, <1>8, <1>9, SlateUnmoved

LEMMA PapAckSlate ==
    ASSUME NEW a, Sound(a), a.lcp.state = "OPENED", NEW W, Slate(a, W)
    PROVE  Slate(PapAck(a), W)
  <1> DEFINE t == [a EXCEPT !.papC = "OPEN"]
             good == [t EXCEPT !.success = @ \cup {"papWith"}]
             u == [good EXCEPT !.pending = @ \ {"papWith"}]
  <1>1. /\ a \in Session /\ "OPEN" \in PapStates /\ "papWith" \in Auths
        /\ Opened(a) /\ Agenda(a, W) /\ Core(a, W)
    BY DEF Sound, Linked, PapStates, Auths, Opened, Slate
  <1>2. PapAck(a) = IF a.papC # "AUTHREQ" THEN a ELSE AuthSuccess(good, "papWith")
    BY DEF PapAck
  <1>3. PapOnly(a, t) /\ t.papC = "OPEN" /\ t.papS = a.papS /\ t \in Session
    BY <1>1, PapField
  <1> HIDE DEF t
  <1>4. /\ Kin(t, good) /\ good.success = t.success \cup {"papWith"}
        /\ good.pending = t.pending /\ good.papC = t.papC /\ good.papS = t.papS
        /\ good.chapC = t.chapC /\ good.chapS = t.chapS
    BY <1>1, <1>3, SuccessField
  <1> HIDE DEF good
  <1>5. Kin(a, good) /\ good \in Session
    BY <1>3, <1>4, KinTwice DEF PapOnly, Kin
  <1>6. CASE a.papC = "AUTHREQ"
    <2>1. "papWith" \in a.pending
      BY <1>1, <1>6 DEF Agenda, Owes, Asks
    <2>2. Opened(good) /\ Core(good, W) /\ Shows(good) /\ ~good.ipcpUp
      BY <1>1, <1>5, <2>1, KinKeeps, PendingDown DEF Agenda, Kin, SameNet
    <2>3. /\ u.papC = good.papC /\ u.papS = good.papS /\ u.chapC = good.chapC
          /\ u.chapS = good.chapS /\ u.success = good.success
          /\ u.pending = good.pending \ {"papWith"}
      BY <1>5 DEF Session
    <2> HIDE DEF u
    <2>4. Owes(u, W) /\ Heard(u)
      BY <1>1, <1>3, <1>4, <2>3 DEF PapOnly, Agenda, Owes, Asks, Heard
    <2>5. Slate(AuthSuccess(good, "papWith"), W)
      BY <2>2, <2>4, AuthSuccessSlate DEF u
    <2>6. QED
      BY <1>2, <1>6, <2>5
  <1>7. CASE a.papC # "AUTHREQ"
    BY <1>2, <1>7
  <1>8. QED
    BY <1>6, <1>7

-----------------------------------------------------------------------------
(* LCP comes up. *)

LEMMA EchoCheckSlate ==
    ASSUME NEW a, Loose(a), NEW W, Core(a, W)
    PROVE  /\ Slate(a, W) => Slate(EchoCheck(a), W)
           /\ a.echos = 0 => Unmoved(a, EchoCheck(a))
  <1> DEFINE c == IF a.lcp.state = "OPENED" THEN LcpClose(a) ELSE a
             z == [c EXCEPT !.echos = 0]
             d == IF a.echos < EchoFails THEN a ELSE z
             w == [d EXCEPT !.echos = @ + 1]
             e == IF d.lcp.state = "OPENED" THEN w ELSE d
             f == [e EXCEPT !.echo = TRUE]
             g == Arm(f, "echo")
  <1>1. a \in Session /\ 0 \in Nat /\ "echo" \in Timers /\ Unmoved(a, a)
    BY DEF Loose, Linked, Timers, Unmoved, SameDevice, SameProofs, SameNet
  <1>2. EchoCheck(a) = IF e.lcp.state = "OPENED" THEN g ELSE e
    BY DEF EchoCheck, EchoSend
  <1>3. c \in Session /\ (Slate(a, W) => Slate(c, W))
    BY <1>1, CloseSlate DEF Linked
  <1> HIDE DEF c
  <1>4. z \in Session /\ (Slate(a, W) => Slate(z, W))
    BY <1>1, <1>3, FieldAside, FieldUnmoved, AsideSession, SlateUnmoved
  <1> HIDE DEF z
  <1>5. d \in Session /\ (Slate(a, W) => Slate(d, W)) /\ (a.echos = 0 => d = a)
    <2>1. a.echos = 0 => a.echos < EchoFails
      BY SessionAssumption
    <2>2. QED
      BY <1>1, <1>4, <2>1
  <1> HIDE DEF d
  <1>6. d.echos + 1 \in Nat
    BY <1>5, SessionFields
  <1>7. w \in Session /\ Unmoved(d, w)
    BY <1>5, <1>6, FieldAside, FieldUnmoved, AsideSession
  <1>8. Unmoved(d, d)
    BY DEF Unmoved, SameDevice, SameProofs, SameNet
  <1> HIDE DEF w
  <1>9. e \in Session /\ Unmoved(d, e)
    BY <1>5, <1>7, <1>8
  <1> HIDE DEF e
  <1>10. f \in Session /\ Unmoved(e, f)
    BY <1>9, FieldAside, FieldUnmoved, AsideSession
  <1> HIDE DEF f
  <1>11. Unmoved(f, g)
    BY <1>1, <1>10, TickUnmoved
  <1> HIDE DEF g
  <1>12. Unmoved(d, EchoCheck(a))
    BY <1>2, <1>9, <1>10, <1>11, UnmovedTwice
  <1>13. QED
    BY <1>5, <1>12, SlateUnmoved

LEMMA PapLowerupFrame ==
    ASSUME NEW a \in Session, a.papC = "INITIAL", a.papS \in {"INITIAL", "BADAUTH"}
    PROVE  LET b == PapLowerup(a)
           IN  PapOnly(a, b) /\ b.papC = "CLOSED" /\ b.papS \in {"CLOSED", "BADAUTH"}
  <1> DEFINE t == [a EXCEPT !.papC = "CLOSED"]
             u == [t EXCEPT !.papS = "CLOSED"]
  <1>1. "CLOSED" \in PapStates
    BY DEF PapStates
  <1>2. PapOnly(a, t) /\ t.papC = "CLOSED" /\ t.papS = a.papS /\ t \in Session
    BY <1>1, PapField
  <1>3. PapLowerup(a) = IF t.papS = "INITIAL" THEN u ELSE t
    BY <1>2 DEF PapLowerup
  <1> HIDE DEF t
  <1>4. PapOnly(t, u) /\ u.papS = "CLOSED" /\ u.papC = t.papC
    BY <1>1, <1>2, PapField
  <1> HIDE DEF u
  <1>5. PapOnly(a, u)
    BY <1>2, <1>4, PapOnlyTwice
  <1>6. QED
    BY <1>2, <1>3, <1>4, <1>5

\* The protocols are told that LCP is up, and none of them was asked for anything.
Raised(a, b) ==
    /\ SameDevice(a, b) /\ b.lcp = a.lcp /\ b.phase = a.phase
    /\ ~b.ipcpUp /\ b.npUp = 0 /\ b.success = {}
    /\ b.papC = "CLOSED" /\ b.papS \in {"CLOSED", "BADAUTH"}
    /\ b.chapC = {"LOWERUP"} /\ b.chapS = a.chapS \cup {"LOWERUP"}

LEMMA UpperLayersUpRaises ==
    ASSUME NEW a, Fresh(a), Clear(a)
    PROVE  LET b == UpperLayersUp(a) IN Raised(a, b) /\ Linked(b) /\ "STARTED" \notin b.chapS
  <1> DEFINE p == PapLowerup(a)
             t == [p EXCEPT !.chapC = @ \cup {"LOWERUP"}]
             c == [t EXCEPT !.chapS = @ \cup {"LOWERUP"}]
             f == Lowerup(c.ipcp)
             d == IpcpDrop(c, f)
  <1>1. a \in Session /\ Linked(a) /\ "STARTED" \notin a.chapS
    BY DEF Fresh, Linked
  <1>2. PapOnly(a, p) /\ p.papC = "CLOSED" /\ p.papS \in {"CLOSED", "BADAUTH"}
    BY <1>1, PapLowerupFrame DEF Clear
  <1>3. UpperLayersUp(a) = IpcpLowerup(ChapLowerup(p))
    BY DEF UpperLayersUp
  <1> HIDE DEF p
  <1>4. "LOWERUP" \in ChapFlags
    BY DEF ChapFlags
  <1>5. p \in Session /\ p.chapC = {} /\ p.chapS = a.chapS
    BY <1>2 DEF PapOnly, Kin, Clear
  <1>6. p.chapC \cup {"LOWERUP"} \in SUBSET ChapFlags
    BY <1>4, <1>5
  <1>7. /\ t \in Session /\ t.chapC = {"LOWERUP"} /\ t.chapS = p.chapS
        /\ SameDevice(p, t) /\ SameNet(p, t) /\ t.lcp = p.lcp
        /\ t.papC = p.papC /\ t.papS = p.papS /\ t.success = p.success
    BY <1>5, <1>6 DEF Session, SameDevice, SameNet
  <1>8. ChapLowerup(p) = c
    BY <1>1, <1>5 DEF ChapLowerup
  <1> HIDE DEF t
  <1>9. t.chapS \cup {"LOWERUP"} \in SUBSET ChapFlags
    BY <1>4, <1>7, SessionFields
  <1>10. /\ c \in Session /\ FlagsOnly(t, c) /\ c.chapS = a.chapS \cup {"LOWERUP"}
    BY <1>5, <1>7, <1>9, FlagsField
  <1>11. UpperLayersUp(a) = d
    BY <1>3, <1>8 DEF IpcpLowerup
  <1> HIDE DEF c
  <1>12. /\ SameDevice(a, c) /\ SameNet(a, c) /\ c.lcp = a.lcp
         /\ c.chapC = {"LOWERUP"} /\ c.papC = "CLOSED" /\ c.papS \in {"CLOSED", "BADAUTH"}
         /\ c.success = {}
    <2>1. SameDevice(a, p) /\ SameNet(a, p) /\ p.lcp = a.lcp /\ p.success = {}
      BY <1>2 DEF PapOnly, Kin, Clear
    <2>2. SameDevice(t, c) /\ SameNet(t, c) /\ c.lcp = t.lcp /\ c.success = t.success
          /\ c.chapC = t.chapC /\ c.papC = t.papC /\ c.papS = t.papS
      BY <1>10 DEF FlagsOnly, Kin
    <2>3. SameDevice(a, c) /\ SameNet(a, c)
      BY <1>7, <2>1, <2>2, UnmovedTwice
    <2>4. QED
      BY <1>2, <1>7, <2>1, <2>2, <2>3
  <1>13. Linked(c)
    BY <1>1, <1>10, <1>12 DEF Linked, SameNet
  <1>14. Moves(c.ipcp, f)
    BY <1>13, FsmMoves DEF Linked
  <1>15. /\ Linked(d) /\ d.lcp = c.lcp /\ SameDevice(c, d) /\ SameProofs(c, d)
         /\ ~c.ipcpUp => ~d.ipcpUp /\ d.phase = c.phase /\ d.npUp = c.npUp
    BY <1>13, <1>14, IpcpDropEffect, IpcpDropFrame DEF Lowered
  <1> HIDE DEF d
  <1>16. ~c.ipcpUp /\ c.npUp = 0 /\ c.phase = a.phase /\ SameDevice(a, d)
    BY <1>12, <1>15, UnmovedTwice DEF SameNet, Clear
  <1>17. Raised(a, d)
    BY <1>10, <1>12, <1>15, <1>16 DEF Raised, SameProofs
  <1>18. QED
    BY <1>1, <1>11, <1>15, <1>17 DEF Raised

\* The authentications that were agreed on are asked for, and no other.
LEMMA AuthPeerFrame ==
    ASSUME NEW a \in Session, a.papS \in {"CLOSED", "BADAUTH"},
           a.chapS \subseteq {"DONE", "LOWERUP"}, "LOWERUP" \in a.chapS
    PROVE  LET b == AuthPeer(a)
           IN  /\ Kin(a, b) /\ b.papC = a.papC /\ b.chapC = a.chapC /\ b.success = a.success
               /\ b.papS = "LISTEN" => a.lcp.go = pap
               /\ "VALID" \in b.chapS \/ "PENDING" \in b.chapS => a.lcp.go = chap
               /\ "DONE" \in b.chapS => "DONE" \in a.chapS
  <1> DEFINE t == [a EXCEPT !.chapS = @ \cup {"STARTED"}]
             l == [a EXCEPT !.papS = "LISTEN"]
             m == Arm(l, "papReq")
             b == AuthPeer(a)
  <1>1. Kin(a, a)
    BY DEF Kin, SameDevice, SameNet
  <1>2. CASE a.lcp.go = chap
    <2>1. a.chapS \cup {"STARTED"} \in SUBSET ChapFlags
      BY SessionFields DEF ChapFlags
    <2>2. FlagsOnly(a, t) /\ t.chapS = a.chapS \cup {"STARTED"} /\ t \in Session
      BY <2>1, FlagsField
    <2>3. b = ChapTimeout(t)
      <3>1. "STARTED" \notin a.chapS
        OBVIOUS
      <3>2. b = ChapAuthPeer(a)
        BY <1>2, SessionAssumption DEF AuthPeer
      <3>3. QED
        BY <3>1, <3>2 DEF ChapAuthPeer
    <2> HIDE DEF t, b
    <2>4. FlagsOnly(t, b) /\ b.chapS = t.chapS \cup {"VALID", "PENDING"}
      BY <2>2, <2>3, ChapTimeoutFrame
    <2>5. FlagsOnly(a, b) /\ ("DONE" \in b.chapS => "DONE" \in a.chapS)
      BY <2>2, <2>4, KinTwice
    <2>6. QED
      BY <1>2, <2>5 DEF FlagsOnly, b
  <1>3. CASE a.lcp.go = pap
    <2>1. "LISTEN" \in PapStates /\ "papReq" \in Timers
      BY DEF PapStates, Timers
    <2>2. PapOnly(a, l) /\ l.papC = a.papC /\ l \in Session
      BY <2>1, PapField
    <2>3. b = m
      BY <1>3, SessionAssumption DEF AuthPeer, PapAuthPeer
    <2> HIDE DEF l
    <2>4. m \in Session /\ Unmoved(l, m)
      BY <2>1, <2>2, Ticks, TickUnmoved
    <2> HIDE DEF m, b
    <2>5. PapOnly(a, b) /\ b.papC = a.papC
      BY <2>2, <2>3, <2>4, PapOnlyTwice
    <2>6. QED
      BY <1>3, <2>5 DEF PapOnly, b
  <1>4. CASE a.lcp.go \notin {chap, pap}
    <2>1. b = a
      BY <1>4 DEF AuthPeer
    <2>2. QED
      BY <1>1, <2>1
  <1>5. QED
    BY <1>2, <1>3, <1>4

LEMMA AuthWithPeerFrame ==
    ASSUME NEW a \in Session, a.papC = "CLOSED", a.chapC = {"LOWERUP"}
    PROVE  LET b == AuthWithPeer(a)
           IN  /\ Kin(a, b) /\ b.papS = a.papS /\ b.chapS = a.chapS /\ b.success = a.success
               /\ b.papC = "AUTHREQ" => a.lcp.ho = pap
               /\ "STARTED" \in b.chapC => a.lcp.ho = chap
  <1> DEFINE t == [a EXCEPT !.chapC = @ \cup {"STARTED"}]
             l == [a EXCEPT !.papXmits = 0]
             m == PapSend(l)
             b == AuthWithPeer(a)
  <1>1. Kin(a, a)
    BY DEF Kin, SameDevice, SameNet
  <1>2. CASE a.lcp.ho = chap
    <2>1. a.chapC \cup {"STARTED"} \in SUBSET ChapFlags
      BY DEF ChapFlags
    <2>2. /\ Kin(a, t) /\ t.papC = a.papC /\ t.papS = a.papS /\ t.chapS = a.chapS
          /\ t.success = a.success
      BY <2>1 DEF Session, Kin, SameDevice, SameNet
    <2>3. b = t
      BY <1>2, SessionAssumption DEF AuthWithPeer, ChapAuthWithPeer
    <2>4. QED
      BY <1>2, <2>2, <2>3
  <1>3. CASE a.lcp.ho = pap
    <2>1. l \in Session /\ Unmoved(a, l)
      BY FieldAside, FieldUnmoved, AsideSession
    <2>2. b = m
      BY <1>3, SessionAssumption DEF AuthWithPeer, PapAuthWithPeer
    <2>3. PapOnly(a, l) /\ l.papS = a.papS
      BY <2>1, PapOnlyTwice
    <2> HIDE DEF l
    <2>4. PapOnly(l, m) /\ m.papS = l.papS
      BY <2>1, PapSendFrame
    <2> HIDE DEF m, b
    <2>5. PapOnly(a, b) /\ b.papS = a.papS
      BY <2>2, <2>3, <2>4, PapOnlyTwice
    <2>6. QED
      BY <1>3, <2>5 DEF PapOnly, b
  <1>4. CASE a.lcp.ho \notin {chap, pap}
    <2>1. b = a
      BY <1>4 DEF AuthWithPeer
    <2>2. QED
      BY <1>1, <2>1
  <1>5. QED
    BY <1>2, <1>3, <1>4

LEMMA LinkEstablishedSlate ==
    ASSUME NEW a, Fresh(a), Clear(a), NEW W, Core(a, W),
           "clean" \in W => "DONE" \notin a.chapS
    PROVE  Slate(LinkEstablished(a), W)
  <1> DEFINE u == UpperLayersUp(a)
             p == Phase(u, "AUTHENTICATE")
             q == AuthPeer(p)
             r == AuthWithPeer(q)
             x == [r EXCEPT !.pending = Agreed(a.lcp)]
  <1>1. Raised(a, u) /\ Linked(u) /\ "STARTED" \notin u.chapS /\ a.lcp.state = "OPENED"
    BY UpperLayersUpRaises DEF Fresh
  <1>2. u.lcp = a.lcp
    BY <1>1 DEF Raised
  <1>3. LinkEstablished(a) \in {LcpClose(u), IF x.pending = {} THEN NetworkPhase(x) ELSE x}
    BY <1>2 DEF LinkEstablished
  <1> HIDE DEF u
  <1>4. Core(u, W)
    BY <1>1, OpenCore DEF Raised
  <1>5. Slate(LcpClose(u), W)
    BY <1>1, <1>2, <1>4, CloseSlate DEF Loose
  <1>6. Linked(p) /\ p.lcp = a.lcp /\ p.phase = "AUTHENTICATE" /\ p \in Session
    BY <1>1, <1>2, PhaseEffect DEF Phases, Linked
  <1>7. /\ SameDevice(u, p) /\ p.ipcpUp = u.ipcpUp /\ p.npUp = u.npUp /\ p.success = u.success
        /\ p.papC = u.papC /\ p.papS = u.papS /\ p.chapC = u.chapC /\ p.chapS = u.chapS
    BY <1>1 DEF Linked, Session, Phase, SameDevice
  <1> HIDE DEF p
  <1>8. Core(p, W)
    BY <1>1, <1>2, <1>4, <1>6, <1>7, OpenCore
  <1>9. /\ p.papC = "CLOSED" /\ p.papS \in {"CLOSED", "BADAUTH"} /\ p.chapC = {"LOWERUP"}
        /\ p.chapS = a.chapS \cup {"LOWERUP"} /\ p.success = {} /\ ~p.ipcpUp /\ p.npUp = 0
        /\ p.chapS \subseteq {"DONE", "LOWERUP"}
    BY <1>1, <1>7 DEF Raised, Clear
  <1>10. /\ Kin(p, q) /\ q.papC = "CLOSED" /\ q.chapC = {"LOWERUP"} /\ q.success = {}
         /\ q.papS = "LISTEN" => a.lcp.go = pap
         /\ "VALID" \in q.chapS \/ "PENDING" \in q.chapS => a.lcp.go = chap
         /\ "clean" \in W => "DONE" \notin q.chapS
    BY <1>6, <1>9, AuthPeerFrame
  <1> HIDE DEF q
  <1>11. q \in Session /\ q.lcp = a.lcp
    BY <1>6, <1>10 DEF Kin
  <1>12. /\ Kin(q, r) /\ r.papS = q.papS /\ r.chapS = q.chapS /\ r.success = {}
         /\ r.papC = "AUTHREQ" => a.lcp.ho = pap
         /\ "STARTED" \in r.chapC => a.lcp.ho = chap
    BY <1>10, <1>11, AuthWithPeerFrame
  <1> HIDE DEF r
  <1>13. Kin(p, r)
    BY <1>10, <1>12, KinTwice
  <1>14. /\ a.lcp.go = pap => "papPeer" \in Agreed(a.lcp)
         /\ a.lcp.go = chap => "chapPeer" \in Agreed(a.lcp)
         /\ a.lcp.ho = pap => "papWith" \in Agreed(a.lcp)
         /\ a.lcp.ho = chap => "chapWith" \in Agreed(a.lcp)
         /\ Agreed(a.lcp) \subseteq Auths
    BY DEF Agreed, Auths
  <1>15. r \in Session
    BY <1>13 DEF Kin
  <1>16. /\ Kin(r, x) /\ x.pending = Agreed(a.lcp) /\ x.success = r.success
         /\ x.papC = r.papC /\ x.papS = r.papS /\ x.chapC = r.chapC /\ x.chapS = r.chapS
    <2> DEFINE y == Agreed(a.lcp)
    <2> HIDE DEF y
    <2>1. y \subseteq Auths
      BY <1>14 DEF y
    <2>2. LET v == [r EXCEPT !.pending = y]
          IN  /\ Kin(r, v) /\ v.pending = y /\ v.success = r.success
              /\ v.papC = r.papC /\ v.papS = r.papS /\ v.chapC = r.chapC /\ v.chapS = r.chapS
      BY <1>15, <2>1 DEF Session, Kin, SameDevice, SameNet
    <2>3. QED
      BY <2>2 DEF y
  <1> HIDE DEF x
  <1>17. Kin(p, x)
    BY <1>13, <1>16, KinTwice
  <1>18. Opened(x) /\ Core(x, W)
    BY <1>1, <1>6, <1>8, <1>17, KinKeeps DEF Opened
  <1>19. Owes(x, W) /\ Heard(x)
    BY <1>10, <1>12, <1>14, <1>16 DEF Owes, Asks, Heard
  <1>20. ~x.ipcpUp /\ x.npUp = 0 /\ x.phase = "AUTHENTICATE"
    BY <1>6, <1>9, <1>17 DEF Kin, SameNet
  <1>21. Shows(x)
    BY <1>20 DEF Shows
  <1>22. x.pending = {} => Slate(NetworkPhase(x), W)
    BY <1>18, <1>19, <1>20, <1>21, NetworkPhaseSlate
  <1>23. x.pending # {} => Slate(x, W)
    BY <1>18, <1>19, <1>21 DEF Slate, Agenda
  <1>24. QED
    BY <1>3, <1>5, <1>22, <1>23

LEMMA LcpUpSlate ==
    ASSUME NEW a, Fresh(a), Clear(a), NEW W, Core(a, W),
           "clean" \in W => "DONE" \notin a.chapS
    PROVE  Slate(LcpUp(a), W)
  <1> DEFINE t == [a EXCEPT !.echos = 0]
             u == [t EXCEPT !.echo = FALSE]
             v == EchoCheck(u)
  <1>1. LcpUp(a) = LinkEstablished(v) /\ a \in Session
    BY DEF LcpUp, Fresh, Linked
  <1>2. Aside(a, t) /\ Unmoved(a, t)
    BY <1>1, FieldAside, FieldUnmoved
  <1>3. t \in Session /\ t.echos = 0
    BY <1>1, <1>2, AsideSession DEF Session
  <1> HIDE DEF t
  <1>4. Aside(t, u) /\ Unmoved(t, u)
    BY <1>3, FieldAside, FieldUnmoved
  <1>5. u.echos = 0
    BY <1>3 DEF Session
  <1> HIDE DEF u
  <1>6. Unmoved(a, u) /\ Core(u, W) /\ Fresh(u)
    BY <1>2, <1>4, AsideTwice, FreshAside, UnmovedTwice, UnmovedKeeps
  <1>7. Aside(u, v) /\ Unmoved(u, v)
    BY <1>5, <1>6, EchoCheckEnds, EchoCheckSlate DEF Fresh, Loose
  <1> HIDE DEF v
  <1>8. Fresh(v) /\ Unmoved(a, v)
    BY <1>6, <1>7, FreshAside, UnmovedTwice
  <1>9. Core(v, W) /\ Clear(v) /\ ("clean" \in W => "DONE" \notin v.chapS)
    BY <1>8, UnmovedKeeps DEF Unmoved, SameProofs
  <1>10. QED
    BY <1>1, <1>8, <1>9, LinkEstablishedSlate

LEMMA TerminatedSlate ==
    ASSUME NEW a, Linked(a), NEW W, Core(a, W)
    PROVE  /\ Slate(LinkTerminated(a), W) /\ ~LinkTerminated(a).fd
           /\ \A f : Slate(a, W) => Slate(LcpFinish(a, f), W)
  <1>1. Slate(LinkTerminated(a), W) /\ ~LinkTerminated(a).fd
    BY LinkTerminatedCore DEF Slate, Low, Below
  <1>2. QED
    BY <1>1 DEF LcpFinish

\* Any function of LCP but fsm_lowerup; CHAP starts anew if W has it "clean".
Ripe(a, W) == "clean" \in W /\ a.lcp.state # "OPENED" => "DONE" \notin a.chapS

LEMMA LcpRunSlate ==
    ASSUME NEW a, Sound(a), NEW W, Slate(a, W), Ripe(a, W),
           NEW f, Moves(a.lcp, f), Below(a.lcp) => Below(f)
    PROVE  Slate(LcpRun(a, f), W)
  <1> DEFINE t == LcpFall(a, f)
             u == IF "up" \in Calls(f) THEN LcpUp(t) ELSE t
  <1>1. Linked(a) /\ Core(a, W) /\ Base(a, W) /\ (a.delayed => Below(f))
    BY DEF Sound, Slate, Core, Base
  <1>2. /\ Linked(t) /\ t.lcp.state = f.state
        /\ IF a.lcp.state = "OPENED" /\ f.state # "OPENED"
             THEN Quiet(t)
             ELSE t.phase = a.phase /\ t.ipcp = a.ipcp /\ t.chapS = a.chapS
    BY <1>1, LcpFallEffect
  <1>3. /\ Base(t, W) /\ SameDevice(a, t)
        /\ a.lcp.state # "OPENED" => Clear(t)
        /\ a.lcp.state # "OPENED" \/ f.state = "OPENED" => SameProofs(a, t) /\ SameNet(a, t)
    BY <1>1, LcpFallBase
  <1>4. LcpRun(a, f) = LcpFinish(u, f)
    BY MadeCalls DEF LcpRun
  <1> HIDE DEF t
  <1>5. Core(t, W)
    BY <1>1, <1>2, <1>3 DEF Core, Low, Below, SameDevice
  <1>6. Linked(u) /\ Slate(u, W)
    <2>1. CASE "up" \in Calls(f)
      <3>1. a.lcp.state # "OPENED" /\ f.state = "OPENED"
        BY <2>1 DEF Moves, Candid
      <3>2. Fresh(t)
        BY <1>2, <3>1 DEF Fresh, Sound, Quiet, Proved, InNetwork
      <3>3. "clean" \in W => "DONE" \notin t.chapS
        BY <1>2, <3>1 DEF Ripe
      <3>4. Sound(LcpUp(t)) /\ Slate(LcpUp(t), W)
        BY <1>3, <1>5, <3>1, <3>2, <3>3, LcpUpSound, LcpUpSlate
      <3>5. QED
        BY <2>1, <3>4 DEF Sound
    <2>2. CASE "up" \notin Calls(f)
      <3>1. CASE f.state = "OPENED"
        <4>1. a.lcp.state = "OPENED" /\ Agenda(a, W)
          BY <2>2, <3>1 DEF Moves, Candid, Slate
        <4>2. Owes(t, W) /\ Heard(t)
          BY <1>3, <3>1, <4>1, SameOwes DEF Agenda
        <4>3. Shows(t) /\ (t.phase = "AUTHENTICATE" => t.pending # {})
          BY <1>3, <3>1, <4>1 DEF Agenda, Shows, SameProofs, SameNet
        <4>4. QED
          BY <1>2, <1>5, <2>2, <4>2, <4>3 DEF Slate, Agenda
      <3>2. CASE f.state # "OPENED"
        BY <1>2, <1>5, <2>2, <3>2 DEF Slate
      <3>3. QED
        BY <3>1, <3>2
    <2>3. QED
      BY <2>1, <2>2
  <1> HIDE DEF u
  <1>7. QED
    BY <1>4, <1>6, TerminatedSlate DEF Slate

\* fsm_lowerup makes no callback and opens nothing.
LEMMA LowerupSlate ==
    ASSUME NEW a, Linked(a), NEW W, Base(a, W), Below(a.lcp), a.fd, ~a.hungup, ~a.delayed
    PROVE  LET b == LcpRun(a, Lowerup(a.lcp))
           IN  Slate(b, W) /\ b.lcp.state # "OPENED" /\ b.chapS = a.chapS /\ SameDevice(a, b)
  <1> DEFINE f == Lowerup(a.lcp)
             t == LcpFall(a, f)
  <1>1. Steady(a.lcp) /\ a.lcp.state # "OPENED"
    BY DEF Linked, Below
  <1>2. Calls(f) = {} /\ f.state # "OPENED" /\ Moves(a.lcp, f)
    BY <1>1, LowerupCandid, FsmMoves DEF Steady
  <1>3. LcpRun(a, f) = t
    BY <1>2, MadeCalls DEF LcpRun, LcpFinish
  <1> HIDE DEF f
  <1>4. Base(t, W) /\ SameDevice(a, t) /\ SameProofs(a, t)
    BY <1>1, <1>2, LcpFallBase
  <1>5. t.lcp.state = f.state
    BY <1>2, LcpFallEffect
  <1> HIDE DEF t
  <1>6. Slate(t, W) /\ t.lcp.state # "OPENED"
    BY <1>2, <1>4, <1>5 DEF Slate, Core, SameDevice
  <1>7. QED
    BY <1>3, <1>4, <1>6 DEF SameProofs, f

LEMMA LcpLowerupSlate ==
    ASSUME NEW a, Linked(a), NEW W, Base(a, W), Below(a.lcp), a.fd, ~a.hungup, ~a.delayed
    PROVE  LET b == LcpLowerup(a)
           IN  Slate(b, W) /\ b.phase = a.phase
  <1> DEFINE t == [a EXCEPT !.delayed = TRUE]
             b == Arm(t, "delayed")
  <1>1. a \in Session /\ "delayed" \in Timers
    BY DEF Linked, Timers
  <1>2. CASE ListenTime
    <2>1. LcpLowerup(a) = b
      BY <1>2 DEF LcpLowerup
    <2>2. t \in Session
      BY <1>1, FieldAside, AsideSession
    <2>3. /\ t.delayed /\ SameProofs(a, t) /\ SameNet(a, t) /\ t.lcp = a.lcp
          /\ t.fd = a.fd /\ t.hungup = a.hungup /\ t.timers = a.timers
      BY <1>1 DEF Session, SameProofs, SameNet
    <2> HIDE DEF t
    <2>4. /\ SameProofs(t, b) /\ SameNet(t, b) /\ b.lcp = t.lcp
          /\ b.fd = t.fd /\ b.hungup = t.hungup /\ b.delayed = t.delayed
          /\ b.timers["holdoff"] = t.timers["holdoff"]
          /\ b.timers["delayed"] = t.timers["delayed"] + 1
      BY <1>1, <2>2, TickUnmoved DEF Timers
    <2>5. t.timers["delayed"] + 1 > 0
      BY <1>1, <2>2, SessionFields
    <2> HIDE DEF b
    <2>6. SameProofs(a, b) /\ SameNet(a, b) /\ b.lcp = a.lcp /\ b.fd /\ ~b.hungup
      BY <2>3, <2>4, UnmovedTwice
    <2>7. Clear(a) /\ a.lcp.state # "OPENED"
      BY DEF Base, Below
    <2>8. Clear(b) /\ b.phase = a.phase
      BY <2>6, <2>7 DEF Clear, SameProofs, SameNet
    <2>9. Core(b, W)
      BY <2>3, <2>4, <2>5, <2>6, <2>8 DEF Core, Base, Below
    <2>10. QED
      BY <2>1, <2>6, <2>7, <2>8, <2>9 DEF Slate
  <1>3. CASE ~ListenTime
    <2> DEFINE c == LcpRun(a, Lowerup(a.lcp))
    <2>1. LcpLowerup(a) = c
      BY <1>3 DEF LcpLowerup
    <2>2. Slate(c, W)
      BY LowerupSlate
    <2>3. c.phase = a.phase
      <3>1. Steady(a.lcp) /\ a.lcp.state # "OPENED"
        BY DEF Linked, Below
      <3>2. Calls(Lowerup(a.lcp)) = {} /\ Moves(a.lcp, Lowerup(a.lcp))
        BY <3>1, LowerupCandid, FsmMoves DEF Steady
      <3>3. c = LcpFall(a, Lowerup(a.lcp))
        BY <3>2, MadeCalls DEF LcpRun, LcpFinish
      <3>4. QED
        BY <3>1, <3>2, <3>3, LcpFallEffect
    <2>4. QED
      BY <2>1, <2>2, <2>3
  <1>4. QED
    BY <1>2, <1>3

\* The delay of lcp_lowerup ends.
LEMMA LcpDelayedUpSlate ==
    ASSUME NEW a, Linked(a), NEW W, Base([a EXCEPT !.delayed = FALSE], W),
           a.delayed => Below(a.lcp) /\ a.fd /\ ~a.hungup, ~a.delayed => Slate(a, W)
    PROVE  LET b == LcpDelayedUp(a)
           IN  Slate(b, W) /\ (Ripe(a, W) => Ripe(b, W))
  <1> DEFINE t == [a EXCEPT !.delayed = FALSE]
             b == LcpRun(t, Lowerup(t.lcp))
  <1>1. CASE ~a.delayed
    BY <1>1 DEF LcpDelayedUp
  <1>2. CASE a.delayed
    <2>1. a \in Session /\ Below(a.lcp) /\ a.lcp.state # "OPENED"
      BY <1>2 DEF Linked, Below
    <2>2. LcpDelayedUp(a) = b
      BY <1>2, <2>1 DEF LcpDelayedUp, Session
    <2>3. Aside(a, t)
      BY <2>1, FieldAside
    <2>4. /\ ~t.delayed /\ SameProofs(a, t) /\ SameNet(a, t) /\ t.lcp = a.lcp
          /\ t.fd = a.fd /\ t.hungup = a.hungup /\ t.timers = a.timers
      BY <2>1 DEF Session, SameProofs, SameNet
    <2>5. Linked(t) /\ Base(t, W)
      BY <2>3, AsideKeeps
    <2> HIDE DEF t
    <2>6. Below(t.lcp) /\ t.fd /\ ~t.hungup
      BY <1>2, <2>1, <2>4
    <2>7. Slate(b, W) /\ b.chapS = t.chapS
      BY <2>4, <2>5, <2>6, LowerupSlate
    <2> HIDE DEF b
    <2>8. QED
      BY <2>1, <2>2, <2>4, <2>7 DEF Ripe, SameProofs
  <1>3. QED
    BY <1>1, <1>2

\* Between two steps the entry of the delay is there.
LEMMA DelayedUpSlate ==
    ASSUME NEW a, Linked(a), NEW W, Slate(a, W)
    PROVE  LET b == LcpDelayedUp(a)
           IN  Slate(b, W) /\ (Ripe(a, W) => Ripe(b, W))
  <1> DEFINE t == [a EXCEPT !.delayed = FALSE]
  <1>1. a \in Session
    BY DEF Linked
  <1>2. /\ ~t.delayed /\ SameProofs(a, t) /\ SameNet(a, t) /\ t.lcp = a.lcp
        /\ t.fd = a.fd /\ t.hungup = a.hungup /\ t.timers = a.timers
    BY <1>1 DEF Session, SameProofs, SameNet
  <1> HIDE DEF t
  <1>3. Base(t, W)
    BY <1>2 DEF Slate, Core, Base, Clear, SameProofs, SameNet
  <1>4. a.delayed => Below(a.lcp) /\ a.fd /\ ~a.hungup
    BY <1>1, SessionFields DEF Slate, Core, Base, Low
  <1>5. QED
    BY <1>3, <1>4, LcpDelayedUpSlate DEF t
-----------------------------------------------------------------------------
(* Frames. *)

LEMMA RProtRejSlate ==
    ASSUME NEW a, Sound(a), a.lcp.state = "OPENED", NEW W, Slate(a, W), NEW proto
    PROVE  Slate(RProtRej(a, proto), W)
  <1>1. Opened(a) /\ Loose(a)
    BY SoundLoose DEF Opened, Sound
  <1>2. Slate(PapProtrej(a), W) /\ Slate(ChapProtrej(a), W)
    BY <1>1, PapProtrejSlate, ChapProtrejSlate
  <1>3. Slate(IpcpLowerdown(a), W)
    <2> DEFINE f == Lowerdown(a.ipcp)
    <2>1. Moves(a.ipcp, f) /\ IpcpLowerdown(a) = IpcpDrop(a, f)
      BY FsmMoves DEF Sound, Linked, IpcpLowerdown
    <2> HIDE DEF f
    <2>2. QED
      BY <1>1, <2>1, IpcpDropSlate
  <1>4. Slate(LcpRun(a, ProtReject(a.lcp)), W)
    <2>1. Moves(a.lcp, ProtReject(a.lcp)) /\ ~Below(a.lcp) /\ Ripe(a, W)
      BY FsmMoves DEF Sound, Linked, Below, Ripe
    <2>2. QED
      BY <2>1, LcpRunSlate
  <1>5. QED
    BY <1>2, <1>3, <1>4 DEF RProtRej

LEMMA LcpInputSlate ==
    ASSUME NEW a, Sound(a), NEW W, Slate(a, W), Ripe(a, W),
           NEW e \in PeerEvents, e.proto = "lcp"
    PROVE  Slate(LcpInput(a, e), W)
  <1> DEFINE b == LcpDelayedUp(a)
             m == [code |-> e.code, id |-> 0, val |-> e.val]
  <1>1. Sound(b) /\ Slate(b, W) /\ Ripe(b, W)
    BY LcpLowerupSound, DelayedUpSlate DEF Sound
  <1>2. LcpInput(a, e) = LcpFrame(b, e)
    BY DEF LcpInput
  <1> HIDE DEF b
  <1>3. b \in Session
    BY <1>1 DEF Sound, Linked
  <1>4. CASE e.code = "EchoRep"
    <2>1. Unmoved(b, [b EXCEPT !.echos = 0])
      BY <1>3, FieldUnmoved
    <2>2. LcpFrame(b, e) \in {b, [b EXCEPT !.echos = 0]}
      BY <1>4 DEF LcpFrame
    <2>3. QED
      BY <1>1, <1>2, <2>1, <2>2, SlateUnmoved
  <1>5. CASE e.code = "ProtRej"
    BY <1>1, <1>2, <1>5, RProtRejSlate DEF LcpFrame
  <1>6. CASE e.code \notin {"EchoRep", "ProtRej"}
    <2>1. m \in Frame
      BY <1>6, EventsAssumption, BoundsAssumption DEF Frame, Ids
    <2>2. LcpFrame(b, e) = LcpRun(b, Input(b.lcp, m))
      BY <1>6 DEF LcpFrame
    <2> HIDE DEF m
    <2>3. Moves(b.lcp, Input(b.lcp, m))
      BY <1>1, <2>1, FsmMoves DEF Sound, Linked
    <2>4. Below(b.lcp) => Below(Input(b.lcp, m))
      BY <1>1, StaysBelow DEF Sound, Linked, Steady
    <2>5. QED
      BY <1>1, <1>2, <2>2, <2>3, <2>4, LcpRunSlate
  <1>7. QED
    BY <1>4, <1>5, <1>6

LEMMA DeliverSlate ==
    ASSUME NEW a, Sound(a), a.lcp.state = "OPENED", NEW W, Slate(a, W),
           NEW e \in PeerEvents, e.proto \notin {"eof", "lcp"},
           e.proto = "ipcp" => a.pending = {}
    PROVE  Slate(Deliver(a, e), W)
  <1>1. Opened(a) /\ Linked(a)
    BY DEF Opened, Sound
  <1>2. CASE e.proto = "ipcp"
    <2> DEFINE m == [code |-> e.code, id |-> 0, val |-> e.val]
               f == Input(a.ipcp, m)
    <2>1. m \in Frame
      BY <1>2, EventsAssumption, BoundsAssumption DEF Frame, Ids
    <2>2. Deliver(a, e) = IpcpRun(a, f, e.ok)
      BY <1>2 DEF Deliver
    <2> HIDE DEF m
    <2>3. Moves(a.ipcp, f) /\ Steady(a.ipcp)
      BY <1>1, <2>1, FsmMoves DEF Linked
    <2>4. "up" \in Calls(f) => "finished" \notin Calls(f)
      BY <2>1, <2>3, InputOpens DEF Moves, Candid, Steady
    <2> HIDE DEF f
    <2> DEFINE ok == e.ok
    <2> HIDE DEF ok
    <2>5. Slate(IpcpRun(a, f, ok), W)
      BY <1>1, <1>2, <2>3, <2>4, IpcpRunSlate
    <2>6. QED
      BY <2>2, <2>5 DEF ok
  <1>3. CASE e.proto = "pap"
    <2>1. Slate(PapNak(a), W)
      BY <1>1, PapTimeoutSlate
    <2>2. e.code \in {"Req", "Ack", "Nak"}
      BY <1>3, EventsAssumption
    <2>3. QED
      BY <1>3, <2>1, <2>2, PapRequestSlate, PapAckSlate DEF Deliver
  <1>4. CASE e.proto = "chap"
    <2>1. e.code \in {"Response", "Status"}
      BY <1>4, EventsAssumption
    <2>2. QED
      BY <1>4, <2>1, ChapResponseSlate, ChapStatusSlate DEF Deliver
  <1>5. QED
    BY <1>2, <1>3, <1>4, EventsAssumption

LEMMA GetInputSlate ==
    ASSUME NEW a, Sound(a), NEW W, Slate(a, W), Ripe(a, W), NEW e \in PeerEvents
    PROVE  Slate(GetInput(a, e), W)
  <1>1. CASE e.proto = "eof"
    <2> DEFINE b == [a EXCEPT !.hungup = TRUE]
               c == LcpLowerdown(b)
    <2>1. a \in Session /\ Base(a, W)
      BY DEF Sound, Linked, Slate, Core
    <2>2. GetInput(a, e) = LinkTerminated(c)
      BY <1>1 DEF GetInput
    <2>3. Aside(a, b)
      BY <2>1, FieldAside
    <2>4. /\ SameProofs(a, b) /\ SameNet(a, b) /\ b.lcp = a.lcp /\ b.fd = a.fd
          /\ b.delayed = a.delayed /\ b.timers = a.timers
      BY <2>1 DEF Session, SameProofs, SameNet
    <2>5. Linked(b)
      BY <2>3, AsideKeeps DEF Sound
    <2> HIDE DEF b
    <2>6. Base(b, W)
      BY <2>1, <2>4 DEF Base, Clear, SameProofs, SameNet
    <2>7. Linked(c) /\ Core(c, W)
      BY <2>5, <2>6, LcpLowerdownCore
    <2> HIDE DEF c
    <2>8. QED
      BY <2>2, <2>7, TerminatedSlate
  <1>2. CASE e.proto = "lcp"
    BY <1>2, LcpInputSlate DEF GetInput
  <1>3. CASE e.proto \notin {"eof", "lcp"}
    <2>1. CASE GetInput(a, e) = a
      BY <2>1
    <2>2. CASE GetInput(a, e) # a
      <3>1. /\ GetInput(a, e) = Deliver(a, e) /\ a.lcp.state = "OPENED"
            /\ e.proto = "ipcp" =>
                 a.phase \notin {"DEAD", "SERIALCONN", "DORMANT", "ESTABLISH", "AUTHENTICATE"}
        BY <1>3, <2>2 DEF GetInput
      <3>2. a.phase \in Phases
        BY SessionFields DEF Sound, Linked
      <3>3. e.proto = "ipcp" => a.pending = {}
        BY <3>1, <3>2 DEF Sound, Quiet, Proved, InNetwork, Phases
      <3>4. QED
        BY <1>3, <3>1, <3>3, DeliverSlate
    <2>3. QED
      BY <2>1, <2>2
  <1>4. QED
    BY <1>1, <1>2, <1>3
-----------------------------------------------------------------------------
(* main(): between the steps. *)

\* The holdoff that is over, or was cut short, has left no entry to a session.
Calm ==
    /\ got \subseteq {"term"}
    /\ pc \in {"top", "dial", "session"} => s.timers["holdoff"] = 0
    /\ pc = "holdoff" => \/ s.timers["holdoff"] = 0
                         \/ s.timers["holdoff"] = 1 /\ (persist => s.phase = "HOLDOFF")

Room(W) == IF pc \in {"dial", "session"} THEN W ELSE W \ {"calm"}

Held(W) ==
    /\ Slate(s, Room(W))
    /\ pc # "session" => ~s.fd
    /\ pc = "dial" => ~s.hungup
    /\ "calm" \in W => Calm

LEMMA SlateLess ==
    ASSUME NEW a, NEW W, Slate(a, W), NEW V, V \subseteq W
    PROVE  Slate(a, V)
  <1>1. Core(a, V)
    BY DEF Slate, Core, Base
  <1>2. Owes(a, W) => Owes(a, V)
    BY DEF Owes
  <1>3. QED
    BY <1>1, <1>2 DEF Slate, Agenda

\* The phase of a holdoff, and its entry
LEMMA TurnSlate ==
    ASSUME NEW a, NEW W, Slate(a, W), NEW V, V \subseteq W, "calm" \notin V,
           NEW b, SameProofs(a, b), b.lcp = a.lcp, b.fd = a.fd, b.hungup = a.hungup,
           b.delayed = a.delayed, b.timers["delayed"] = a.timers["delayed"],
           b.ipcp = a.ipcp, b.ipcpUp = a.ipcpUp, b.npOpen = a.npOpen, b.npUp = a.npUp,
           \/ b.phase = a.phase
           \/ b.phase = "DORMANT"
           \/ b.phase = "HOLDOFF" /\ a.lcp.state # "OPENED"
    PROVE  Slate(b, V)
  <1>1. Slate(a, V)
    BY SlateLess
  <1>2. Clear(a) => Clear(b)
    BY DEF Clear, SameProofs
  <1>3. Core(b, V)
    BY <1>1, <1>2 DEF Slate, Core, Base, Low
  <1>4. a.lcp.state = "OPENED" => Owes(b, V) /\ Heard(b)
    BY <1>1, SameOwes DEF Slate, Agenda
  <1>5. a.lcp.state = "OPENED" => Shows(b) /\ (b.phase = "AUTHENTICATE" => b.pending # {})
    BY <1>1 DEF Slate, Agenda, Shows, SameProofs
  <1>6. QED
    BY <1>3, <1>4, <1>5 DEF Slate, Agenda

LEMMA InitHeld == ASSUME NEW W, Init PROVE Held(W)
  <1>1. lcp \in Units /\ ipcp \in Units
    BY SessionAssumption
  <1>2. /\ s.lcp.state = "INITIAL" /\ s.ipcp.state = "INITIAL" /\ s.phase = "DEAD"
        /\ s.fd = FALSE /\ s.hungup = FALSE /\ s.delayed = FALSE /\ s.success = {}
        /\ s.papC = "INITIAL" /\ s.papS = "INITIAL" /\ s.chapC = {} /\ s.chapS = {}
        /\ s.npOpen = 0 /\ s.npUp = 0 /\ s.ipcpUp = FALSE /\ s.authState = "down"
        /\ s.timers = [t \in Timers |-> 0]
    BY <1>1 DEF Init, SessionInit, FsmInit
  <1>3. s.timers["holdoff"] = 0 /\ pc = "top" /\ got = {}
    BY <1>2 DEF Init, Timers
  <1>4. Core(s, Room(W))
    BY <1>2, <1>3 DEF Core, Base, Clear, Low, Below
  <1>5. QED
    BY <1>2, <1>3, <1>4 DEF Held, Slate, Calm

\* A session is over, and main() closes LCP, which has no lower layer any more.
LEMMA AfterSessionHeld ==
    ASSUME NEW a, Sound(a), NEW W, Slate(a, W), ~a.fd, "calm" \in W => got' \subseteq {"term"},
           NEW q, AfterSession(a, persist', q)
    PROVE  Held(W)'
  <1> DEFINE t == LcpClose(a)
             slow == t.slow \/ t.unsuccess > SlowAfter
             u == [t EXCEPT !.slow = slow]
             v == Phase(u, "HOLDOFF")
             x == Arm(v, "holdoff")
  <1>1. /\ Slate(t, W) /\ Clear(t) /\ t.lcp.state # "OPENED" /\ (t.fd => a.fd)
        /\ Linked(t)
    BY SoundLoose, CloseSlate DEF Slate
  <1>2. \/ s' \in {t, u} /\ pc' \in {"wait", "top"}
        \/ s' = x /\ pc' = "holdoff"
    BY DEF AfterSession, Redial
  <1> HIDE DEF t
  <1>3. t \in Session /\ slow \in BOOLEAN
    BY <1>1, SessionFields DEF Linked
  <1> HIDE DEF slow
  <1>4. Unmoved(t, u) /\ u \in Session
    BY <1>3, FieldUnmoved, FieldAside, AsideSession
  <1> HIDE DEF u
  <1>5. Unmoved(t, t)
    BY DEF Unmoved, SameDevice, SameProofs, SameNet
  <1>6. ASSUME NEW b, Unmoved(t, b)
        PROVE  Slate(b, W) /\ ~b.fd /\ ("calm" \in W => b.timers["holdoff"] = 0)
    BY <1>1, <1>6, SlateUnmoved DEF Unmoved, SameDevice, Slate, Core, Base
  <1>7. CASE s' \in {t, u} /\ pc' \in {"wait", "top"}
    <2>1. Slate(s', W) /\ ~s'.fd /\ ("calm" \in W => s'.timers["holdoff"] = 0)
      BY <1>4, <1>5, <1>6, <1>7
    <2>2. Slate(s', W \ {"calm"})
      BY <2>1, SlateLess
    <2>3. QED
      BY <1>7, <2>1, <2>2 DEF Held, Room, Calm
  <1>8. CASE s' = x /\ pc' = "holdoff"
    <2>1. Slate(u, W) /\ ~u.fd /\ ("calm" \in W => u.timers["holdoff"] = 0)
      BY <1>4, <1>6
    <2>2. v \in Session /\ "holdoff" \in Timers
      BY <1>4 DEF Session, Phase, Phases, Timers
    <2>3. /\ SameProofs(u, v) /\ v.lcp = u.lcp /\ v.fd = u.fd /\ v.hungup = u.hungup
          /\ v.delayed = u.delayed /\ v.timers = u.timers
          /\ v.ipcp = u.ipcp /\ v.ipcpUp = u.ipcpUp /\ v.npOpen = u.npOpen /\ v.npUp = u.npUp
          /\ v.phase = "HOLDOFF"
      BY <1>4 DEF Session, Phase, SameProofs
    <2> HIDE DEF v
    <2>4. /\ SameProofs(v, x) /\ SameNet(v, x) /\ x.lcp = v.lcp
          /\ x.fd = v.fd /\ x.hungup = v.hungup /\ x.delayed = v.delayed
          /\ x.timers["delayed"] = v.timers["delayed"]
          /\ x.timers["holdoff"] = v.timers["holdoff"] + 1
      BY <2>2, TickUnmoved DEF Timers
    <2> HIDE DEF x
    <2>5. SameProofs(u, x)
      BY <2>3, <2>4, UnmovedTwice
    <2>6. u.lcp.state # "OPENED"
      BY <1>1, <1>4 DEF Unmoved
    <2>7. Slate(x, W \ {"calm"})
      BY <2>1, <2>3, <2>4, <2>5, <2>6, TurnSlate DEF SameNet
    <2>8. ~x.fd /\ x.phase = "HOLDOFF" /\ ("calm" \in W => x.timers["holdoff"] = 1)
      BY <2>1, <2>3, <2>4 DEF SameNet
    <2>9. QED
      BY <1>8, <2>7, <2>8 DEF Held, Room, Calm
  <1>9. QED
    BY <1>2, <1>7, <1>8

LEMMA EndRoundHeld ==
    ASSUME NEW a, Sound(a), NEW W, Slate(a, W), "calm" \in W => got' \subseteq {"term"},
           NEW q, EndRound(a, persist', q)
    PROVE  Held(W)'
  <1>1. CASE a.phase = "DEAD"
    <2>1. ~a.fd
      BY <1>1 DEF Slate, Core, Base
    <2>2. QED
      BY <1>1, <2>1, AfterSessionHeld DEF EndRound
  <1>2. CASE a.phase # "DEAD"
    <2>1. s' = a /\ pc' = "session"
      BY <1>2 DEF EndRound
    <2>2. QED
      BY <2>1 DEF Held, Room, Calm, Slate, Core, Base
  <1>3. QED
    BY <1>1, <1>2

LEMMA BetweenHeld ==
    ASSUME IndInv, NEW W, Held(W), Between
    PROVE  Held(W)'
  <1>1. s \in Session /\ Linked(s) /\ pc \in Places /\ (pc # "session" => Quiet(s))
    BY DEF IndInv, Sound, Linked
  <1>2. CASE Dial
    <2> DEFINE limit == IF MaxFail > SlowAfter THEN MaxFail ELSE SlowAfter + 1
               n == IF s.unsuccess >= limit THEN limit ELSE s.unsuccess + 1
               a == [s EXCEPT !.needHoldoff = TRUE]
               b == [a EXCEPT !.hungup = FALSE]
               t == [b EXCEPT !.unsuccess = n]
               f == Open(t.lcp)
               u == [t EXCEPT !.lcp = Silent(f)]
               v == Phase(u, "SERIALCONN")
    <2>1. s' = v /\ pc' = "dial" /\ pc = "top" /\ got' \subseteq got
      BY <1>2 DEF Dial
    <2>2. /\ t.lcp = s.lcp /\ SameProofs(s, t) /\ SameNet(s, t) /\ t.hungup = FALSE
          /\ t.fd = s.fd /\ t.delayed = s.delayed /\ t.timers = s.timers
          /\ DOMAIN t = DOMAIN s
      BY <1>1 DEF Session, SameProofs, SameNet
    <2> HIDE DEF t
    <2>3. /\ v.lcp = Silent(f) /\ SameProofs(t, v) /\ v.hungup = t.hungup
          /\ v.phase = "SERIALCONN" /\ v.fd = t.fd /\ v.delayed = t.delayed
          /\ v.timers = t.timers /\ v.ipcp = t.ipcp /\ v.ipcpUp = t.ipcpUp
          /\ v.npOpen = t.npOpen /\ v.npUp = t.npUp
      BY <1>1, <2>2 DEF Session, Phase, SameProofs
    <2> HIDE DEF v
    <2>4. Slate(s, W \ {"calm"}) /\ ~s.fd /\ s.lcp.state # "OPENED"
      BY <1>1, <2>1 DEF Held, Room, Quiet
    <2>5. Clear(s) /\ Below(s.lcp) /\ s.delayed = FALSE
      BY <1>1, <2>4, SessionFields DEF Slate, Core, Base, Low
    <2>6. Below(v.lcp)
      <3>1. Below(f) /\ f \in Fsm /\ Inv(f)
        BY <1>1, <2>2, <2>5, StaysBelow, FsmMoves DEF Linked, Steady, Moves
      <3> HIDE DEF f
      <3>2. QED
        BY <2>3, <3>1, SilentSteady DEF Below
    <2>7. Clear(v)
      BY <2>2, <2>3, <2>5 DEF Clear, SameProofs, SameNet
    <2>8. "calm" \in W => s.timers["holdoff"] = 0 /\ got' \subseteq {"term"}
      BY <2>1 DEF Held, Calm
    <2>9. Core(v, W)
      BY <2>2, <2>3, <2>4, <2>5, <2>6, <2>7, <2>8 DEF Core, Base, Low
    <2>10. QED
      BY <2>1, <2>2, <2>3, <2>4, <2>6, <2>8, <2>9 DEF Held, Room, Calm, Slate, Below
  <1>3. CASE EndHoldoff
    <2>1. s' = Phase(s, "DORMANT") /\ pc = "holdoff" /\ pc' = "holdoff" /\ got' = {}
      BY <1>3 DEF EndHoldoff, Take
    <2>2. "calm" \in W => persist' = FALSE
      BY <1>3 DEF EndHoldoff, Take, Held, Calm, IndInv
    <2>3. /\ SameProofs(s, s') /\ s'.lcp = s.lcp /\ s'.fd = s.fd /\ s'.hungup = s.hungup
          /\ s'.delayed = s.delayed /\ s'.timers = s.timers
          /\ s'.ipcp = s.ipcp /\ s'.ipcpUp = s.ipcpUp /\ s'.npOpen = s.npOpen
          /\ s'.npUp = s.npUp /\ s'.phase = "DORMANT"
      BY <1>1, <2>1 DEF Session, Phase, SameProofs
    <2>4. Slate(s', W \ {"calm"})
      BY <2>1, <2>3, TurnSlate DEF Held, Room
    <2>5. QED
      BY <2>1, <2>2, <2>3, <2>4 DEF Held, Room, Calm
  <1>4. CASE HoldoffOver
    <2>1. /\ s' = s /\ pc = "holdoff" /\ got' = got /\ s.phase # "HOLDOFF"
          /\ pc' \in {"top", "wait"} /\ (pc' = "top" => persist)
      BY <1>4 DEF HoldoffOver
    <2>2. QED
      BY <2>1 DEF Held, Room, Calm
  <1>5. CASE Exit
    <2>1. s' = s /\ pc = "wait" /\ got' = got /\ pc' = "exit"
      BY <1>5 DEF Exit
    <2>2. QED
      BY <2>1 DEF Held, Room, Calm
  <1>6. QED
    BY <1>2, <1>3, <1>4, <1>5 DEF Between

LEMMA RoundHeld ==
    ASSUME IndInv, NEW W, Held(W), Ripe(s, W), Round
    PROVE  Held(W)'
  <1>1. /\ Sound(s) /\ s \in Session /\ Linked(s) /\ pc \in Places
        /\ pc # "session" => Quiet(s)
    BY DEF IndInv, Sound, Linked
  <1>2. CASE Connect
    <2> DEFINE p == Phase(s, "ESTABLISH")
               b == [p EXCEPT !.fd = TRUE]
    <2>1. s' = LcpLowerup(b) /\ pc = "dial" /\ pc' = "session" /\ got' = got
      BY <1>2 DEF Connect
    <2>2. Linked(p) /\ p \in Session
      BY <1>1, PhaseEffect DEF Phases, Linked
    <2>3. /\ SameProofs(s, p) /\ p.lcp = s.lcp /\ p.hungup = s.hungup /\ p.delayed = s.delayed
          /\ p.timers = s.timers /\ p.ipcp = s.ipcp /\ p.ipcpUp = s.ipcpUp
          /\ p.npOpen = s.npOpen /\ p.npUp = s.npUp /\ p.phase = "ESTABLISH"
      BY <1>1 DEF Session, Phase, SameProofs
    <2> HIDE DEF p
    <2>4. /\ SameProofs(p, b) /\ SameNet(p, b) /\ b.lcp = p.lcp /\ b.hungup = p.hungup
          /\ b.delayed = p.delayed /\ b.timers = p.timers /\ b.fd
      BY <2>2 DEF Session, SameProofs, SameNet
    <2>5. Linked(b)
      BY <2>2, FieldAside, AsideKeeps
    <2> HIDE DEF b
    <2>6. Slate(s, W) /\ ~s.fd /\ ~s.hungup /\ s.lcp.state # "OPENED"
      BY <1>1, <2>1 DEF Held, Room, Quiet
    <2>7. Clear(s) /\ Below(s.lcp) /\ ~s.delayed
      BY <2>6 DEF Slate, Core, Base, Low
    <2>8. Clear(b)
      BY <2>3, <2>4, <2>7 DEF Clear, SameProofs, SameNet
    <2>9. Base(b, W) /\ Below(b.lcp) /\ ~b.hungup /\ ~b.delayed
      BY <2>3, <2>4, <2>6, <2>7, <2>8 DEF Slate, Core, Base, SameNet
    <2>10. Slate(LcpLowerup(b), W)
      BY <2>4, <2>5, <2>9, LcpLowerupSlate
    <2>11. "calm" \in W => s'.timers["holdoff"] = 0 /\ got' \subseteq {"term"}
      BY <2>1, <2>10 DEF Slate, Core, Base, Held, Calm
    <2>12. QED
      BY <2>1, <2>10, <2>11 DEF Held, Room, Calm
  <1>3. CASE ConnectFails
    <2> DEFINE b == Phase(s, "DEAD")
    <2>1. AfterSession(b, persist', quit') /\ pc = "dial" /\ got' = {}
      BY <1>3 DEF ConnectFails, Take
    <2>2. Sound(b) /\ b \in Session
      BY <1>1, <2>1, PhaseQuiet DEF Phases, Sound, Linked
    <2>3. /\ SameProofs(s, b) /\ b.lcp = s.lcp /\ b.hungup = s.hungup /\ b.delayed = s.delayed
          /\ b.timers = s.timers /\ b.ipcp = s.ipcp /\ b.ipcpUp = s.ipcpUp
          /\ b.npOpen = s.npOpen /\ b.npUp = s.npUp /\ b.phase = "DEAD" /\ b.fd = s.fd
      BY <1>1 DEF Session, Phase, SameProofs
    <2> HIDE DEF b
    <2>4. Slate(s, W) /\ ~s.fd /\ s.lcp.state # "OPENED"
      BY <1>1, <2>1 DEF Held, Room, Quiet
    <2>5. Clear(b)
      BY <2>3, <2>4 DEF Slate, Core, Base, Clear, SameProofs
    <2>6. Slate(b, W)
      BY <2>3, <2>4, <2>5 DEF Slate, Core, Base, Low
    <2>7. QED
      BY <2>1, <2>2, <2>3, <2>4, <2>6, AfterSessionHeld
  <1>4. CASE Leave
    <2>1. pc = "session" /\ EndRound(s, persist', quit) /\ got' = {}
      BY <1>4 DEF Leave
    <2>2. QED
      BY <1>1, <2>1, EndRoundHeld DEF Held, Room
  <1>5. CASE TakeSignals
    <2>1. pc = "session" /\ got' = {} /\ Slate(s, W)
      BY <1>5 DEF TakeSignals, Take, Held, Room
    <2>2. Sound(LcpClose(s)) /\ Slate(LcpClose(s), W)
      BY <1>1, <2>1, SoundLoose, CloseSlate DEF Slate
    <2>3. ASSUME NEW e \in PeerEvents
          PROVE  LET b == LcpClose(GetInput(s, e)) IN Sound(b) /\ Slate(b, W)
      <3>1. Sound(GetInput(s, e)) /\ Slate(GetInput(s, e), W)
        BY <1>1, <2>1, GetInputSound, GetInputSlate
      <3>2. QED
        BY <3>1, SoundLoose, CloseSlate DEF Slate
    <2>4. PICK b : Sound(b) /\ Slate(b, W) /\ EndRound(b, persist', quit')
      BY <1>5, <2>2, <2>3 DEF TakeSignals
    <2>5. QED
      BY <2>1, <2>4, EndRoundHeld
  <1>6. QED
    BY <1>2, <1>3, <1>4, <1>5 DEF Round

LEMMA ReceiveHeld ==
    ASSUME IndInv, NEW W, Held(W), Ripe(s, W), NEW e \in PeerEvents, Receive(e)
    PROVE  Held(W)'
  <1>1. pc = "session" /\ EndRound(GetInput(s, e), persist', quit) /\ got' = {}
    BY DEF Receive
  <1>2. Sound(s) /\ Slate(s, W)
    BY <1>1 DEF IndInv, Held, Room
  <1>3. Sound(GetInput(s, e)) /\ Slate(GetInput(s, e), W)
    BY <1>2, GetInputSound, GetInputSlate
  <1>4. QED
    BY <1>1, <1>3, EndRoundHeld

\* An entry of the callout list is due while a session goes on.
LEMMA TimersHeld ==
    ASSUME IndInv, Tidy(s, 1), NEW W, Held(W), Ripe(s, W),
           NEW timer \in Timers, Timeouts(timer)
    PROVE  Held(W)'
  <1> DEFINE t == Cancel(s, timer)
  <1>1. /\ Sound(s) /\ s \in Session /\ Linked(s) /\ s.timers[timer] > 0
        /\ s.timers[timer] \in Nat
    BY SessionFields DEF IndInv, Sound, Linked, Timeouts
  <1>2. Aside(s, t) /\ Sound(t) /\ t \in Session /\ Loose(t) /\ Linked(t)
    BY <1>1, TimerAside, AsideKeeps, AsideSession, SoundLoose
  <1>3. /\ Fire(t, timer) /\ pc' = pc /\ got' = got /\ persist' = persist
        /\ pc \in {"session", "holdoff", "wait"}
    BY DEF Timeouts, Sleeping
  <1>4. /\ timer \notin {"delayed", "holdoff"} => Unmoved(s, t)
        /\ SameProofs(s, t) /\ SameNet(s, t) /\ t.lcp = s.lcp
        /\ t.fd = s.fd /\ t.hungup = s.hungup /\ t.delayed = s.delayed
        /\ \A u \in Timers \ {timer} : t.timers[u] = s.timers[u]
        /\ t.timers[timer] = Less(s.timers[timer])
    BY <1>1, TickUnmoved
  <1> HIDE DEF t
  <1>5. CASE pc = "session"
    <2>1. Slate(s, W)
      BY <1>5 DEF Held, Room
    <2>2. timer # "holdoff" \/ "calm" \notin W
      BY <1>1, <2>1 DEF Slate, Core, Base
    <2>3. timer \notin {"delayed", "holdoff"} => Slate(t, W) /\ Core(t, W)
      BY <1>4, <2>1, SlateUnmoved DEF Slate
    <2> SUFFICES Slate(s', W)
      BY <1>3, <1>5 DEF Held, Room, Calm, Slate, Core, Base
    <2>4. CASE timer = "echo"
      <3> DEFINE b == [t EXCEPT !.echo = FALSE]
      <3>1. s' \in {EchoCheck(b), t}
        BY <1>3, <2>4 DEF Fire
      <3>2. Aside(t, b) /\ Unmoved(t, b)
        BY <1>2, FieldAside, FieldUnmoved
      <3> HIDE DEF b
      <3>3. Loose(b) /\ Slate(b, W)
        BY <1>2, <2>3, <2>4, <3>2, AsideUnmoved
      <3>4. QED
        BY <2>3, <2>4, <3>1, <3>3, EchoCheckSlate DEF Slate
    <2>5. CASE timer = "idle"
      <3> DEFINE c == LcpClose(t)
      <3>1. s' \in {[c EXCEPT !.needHoldoff = FALSE], Arm(t, "idle"), t}
        BY <1>3, <2>5 DEF Fire, CheckIdle
      <3>2. Slate(c, W) /\ c \in Session
        BY <1>2, <2>3, <2>5, CloseSlate DEF Linked
      <3> HIDE DEF c
      <3>3. Slate([c EXCEPT !.needHoldoff = FALSE], W)
        BY <3>2, FieldUnmoved, SlateUnmoved
      <3>4. Slate(Arm(t, "idle"), W)
        BY <1>2, <2>3, <2>5, TickUnmoved, SlateUnmoved
      <3>5. QED
        BY <2>3, <2>5, <3>1, <3>3, <3>4
    <2>6. CASE timer = "chap"
      <3>1. "PENDING" \in s.chapS /\ s.lcp.state = "OPENED"
        BY <1>1, <2>6 DEF Tidy, Counts, Off
      <3>2. "DONE" \notin t.chapS => "chapPeer" \in t.pending
        BY <1>4, <2>1, <3>1 DEF Slate, Agenda, Owes, Asks, SameProofs
      <3>3. s' = ChapTimeout(t)
        BY <1>3, <2>6 DEF Fire
      <3>4. QED
        BY <1>2, <1>4, <2>3, <2>6, <3>1, <3>2, <3>3, ChapTimeoutSlate DEF Opened
    <2>7. CASE timer = "pap"
      BY <1>2, <1>3, <2>3, <2>7, PapTimeoutSlate DEF Fire
    <2>8. CASE timer = "papReq"
      BY <1>2, <1>3, <2>3, <2>8, PapTimeoutSlate DEF Fire
    <2>9. CASE timer = "delayed"
      <3> DEFINE b == [t EXCEPT !.delayed = FALSE]
      <3>1. /\ ~b.delayed /\ SameProofs(t, b) /\ SameNet(t, b) /\ b.lcp = t.lcp
            /\ b.fd = t.fd /\ b.hungup = t.hungup /\ b.timers = t.timers
        BY <1>2 DEF Session, SameProofs, SameNet
      <3> HIDE DEF b
      <3>2. t.timers["holdoff"] = s.timers["holdoff"]
        BY <1>4, <2>9 DEF Timers
      <3>3. Base(b, W)
        BY <1>4, <2>1, <3>1, <3>2 DEF Slate, Core, Base, Clear, SameProofs, SameNet
      <3>4. t.delayed => Below(t.lcp) /\ t.fd /\ ~t.hungup
        BY <1>1, <1>4, <2>1, SessionFields DEF Slate, Core, Base, Low
      <3>5. ~t.delayed => Slate(t, W)
        <4> SUFFICES ASSUME ~t.delayed PROVE Slate(t, W)
          OBVIOUS
        <4>1. Core(t, W)
          BY <1>4, <2>1, <3>2 DEF Slate, Core, Base, Clear, Low, SameProofs, SameNet
        <4>2. t.lcp.state = "OPENED" => Agenda(t, W)
          BY <1>4, <2>1, SameOwes DEF Slate, Agenda, Shows, SameProofs, SameNet
        <4>3. QED
          BY <4>1, <4>2 DEF Slate
      <3>6. Slate(LcpDelayedUp(t), W)
        BY <1>2, <3>3, <3>4, <3>5, LcpDelayedUpSlate DEF b
      <3>7. QED
        BY <1>3, <2>9, <3>6 DEF Fire
    <2>10. CASE timer = "holdoff"
      <3>1. s' = Phase(t, "DORMANT")
        BY <1>3, <2>10 DEF Fire
      <3>2. /\ SameProofs(t, s') /\ s'.lcp = t.lcp /\ s'.fd = t.fd /\ s'.hungup = t.hungup
            /\ s'.delayed = t.delayed /\ s'.timers = t.timers
            /\ s'.ipcp = t.ipcp /\ s'.ipcpUp = t.ipcpUp /\ s'.npOpen = t.npOpen
            /\ s'.npUp = t.npUp /\ s'.phase = "DORMANT"
        BY <1>2, <3>1 DEF Session, Phase, SameProofs
      <3>3. SameProofs(s, s') /\ t.timers["delayed"] = s.timers["delayed"]
        BY <1>4, <2>10, <3>2, UnmovedTwice DEF Timers
      <3>4. QED
        BY <1>4, <2>1, <2>2, <2>10, <3>2, <3>3, TurnSlate DEF SameNet
    <2>11. QED
      BY <2>4, <2>5, <2>6, <2>7, <2>8, <2>9, <2>10 DEF Timers
  <1>6. CASE pc \in {"holdoff", "wait"}
    <2>1. Slate(s, W \ {"calm"}) /\ ~s.fd
      BY <1>6 DEF Held, Room
    <2>2. Clear(s) /\ Below(s.lcp) /\ ~s.delayed /\ s.lcp.state # "OPENED"
      BY <2>1 DEF Slate, Core, Base, Low, Below
    <2>3. timer \notin {"echo", "chap", "papReq", "idle"}
      <3>1. ~s.echo /\ "PENDING" \notin s.chapS /\ s.papS # "LISTEN" /\ s.npUp = 0
        BY <2>2 DEF Tidy, Off, Clear
      <3>2. s.timers \in [Timers -> Nat]
        BY <1>1, SessionFields
      <3>3. QED
        BY <1>1, <3>1, <3>2 DEF Tidy, Counts, Less, Timers
    <2>4. t.timers["delayed"] = s.timers["delayed"] \/ ~t.delayed
      BY <1>4, <2>2
    <2>5. Slate(t, W \ {"calm"})
      <3>1. Clear(t) /\ t.lcp.state # "OPENED"
        BY <1>4, <2>2 DEF Clear, SameProofs, SameNet
      <3>2. QED
        BY <1>4, <2>1, <2>2, <3>1 DEF Slate, Core, Base, Low, SameNet
    <2>6. CASE timer \in {"pap", "delayed"}
      <3>1. s' = t
        BY <1>3, <1>4, <2>2, <2>6 DEF Fire, PapTimeout, LcpDelayedUp, Clear, SameProofs
      <3>2. t.timers["holdoff"] = s.timers["holdoff"] /\ t.phase = s.phase
        BY <1>4, <2>6 DEF Timers, SameNet
      <3>3. QED
        BY <1>3, <1>4, <1>6, <2>1, <2>5, <3>1, <3>2 DEF Held, Room, Calm
    <2>7. CASE timer = "holdoff"
      <3>1. s' = Phase(t, "DORMANT")
        BY <1>3, <2>7 DEF Fire
      <3>2. /\ SameProofs(t, s') /\ s'.lcp = t.lcp /\ s'.fd = t.fd /\ s'.hungup = t.hungup
            /\ s'.delayed = t.delayed /\ s'.timers = t.timers
            /\ s'.ipcp = t.ipcp /\ s'.ipcpUp = t.ipcpUp /\ s'.npOpen = t.npOpen
            /\ s'.npUp = t.npUp /\ s'.phase = "DORMANT"
        BY <1>2, <3>1 DEF Session, Phase, SameProofs
      <3>3. Slate(s', W \ {"calm"})
        BY <2>5, <3>2, TurnSlate
      <3>4. "calm" \in W /\ pc = "holdoff" => s'.timers["holdoff"] = 0
        BY <1>1, <1>4, <2>7, <3>2 DEF Held, Calm, Less
      <3>5. QED
        BY <1>3, <1>4, <1>6, <2>1, <3>2, <3>3, <3>4 DEF Held, Room, Calm
    <2>8. QED
      BY <2>3, <2>6, <2>7 DEF Timers
  <1>7. QED
    BY <1>3, <1>5, <1>6

LEMMA DueHeld ==
    ASSUME IndInv, Tidy(s, 1), NEW W, Held(W), Ripe(s, W), Due
    PROVE  Held(W)'
  <1>1. Sound(s) /\ Linked(s) /\ pc \in Places
    BY DEF IndInv, Sound
  <1>2. ~Below(s.lcp) \/ s.lcp.state = "OPENED" => pc = "session" /\ Slate(s, W)
    BY DEF Held, Room, Slate, Core, Low, Below
  <1>3. ASSUME pc = "session", pc' = pc, got' = got, Slate(s', W)
        PROVE  Held(W)'
    BY <1>3 DEF Held, Room, Calm, Slate, Core, Base
  <1>4. CASE LcpTimeout
    <2> DEFINE f == Expire(Untimeout(s.lcp))
    <2>1. s' = LcpRun(s, f) /\ pc' = pc /\ got' = got /\ s.lcp.timers > 0
      BY <1>4 DEF LcpTimeout
    <2>2. Moves(s.lcp, f) /\ ~Below(s.lcp)
      BY <1>1, <2>1, FsmMoves, StaysBelow DEF Linked, Steady
    <2> HIDE DEF f
    <2>3. QED
      BY <1>1, <1>2, <1>3, <2>1, <2>2, LcpRunSlate
  <1>5. CASE IpcpTimeout
    <2> DEFINE f == Expire(Untimeout(s.ipcp))
    <2>1. s' = IpcpRun(s, f, TRUE) /\ pc' = pc /\ got' = got /\ s.ipcp.timers > 0
      BY <1>5 DEF IpcpTimeout
    <2>2. /\ Moves(s.ipcp, f) /\ (f.state = "OPENED" => s.ipcp.state = "OPENED")
          /\ s.ipcp.state # "INITIAL"
      BY <1>1, <2>1, FsmMoves, StaysBelow DEF Linked, Steady, Below
    <2>3. s.lcp.state = "OPENED"
      BY <2>2 DEF Held, Slate, Core, Base, Clear
    <2>4. "up" \notin Calls(f)
      BY <2>2 DEF Moves, Candid
    <2> HIDE DEF f
    <2>5. Slate(IpcpRun(s, f, TRUE), W)
      BY <1>1, <1>2, <2>2, <2>3, <2>4, IpcpRunSlate DEF Opened
    <2>6. QED
      BY <1>2, <1>3, <2>1, <2>3, <2>5
  <1>6. QED
    BY <1>4, <1>5, TimersHeld DEF Due

LEMMA ScriptsHeld == ASSUME IndInv, NEW W, Held(W), Scripts PROVE Held(W)'
  <1>1. s \in Session
    BY DEF IndInv, Sound, Linked
  <1>2. Unmoved(s, s') /\ pc' = pc /\ got' = got /\ persist' = persist
    <2>1. CASE AuthScriptDone
      <3> DEFINE pid == s.authState # s.authScript
      <3>1. /\ s' = [s EXCEPT !.authScript = s.authState, !.authPid = pid]
            /\ pc' = pc /\ got' = got /\ persist' = persist
        BY <2>1 DEF AuthScriptDone
      <3> HIDE DEF pid
      <3>2. QED
        BY <1>1, <3>1, FieldUnmoved
    <2>2. CASE IpScriptDone
      <3> DEFINE now == IF s.ipcp.state = "OPENED" THEN "up" ELSE "down"
      <3> DEFINE pid == now # s.ipScript
      <3>1. /\ s' = [s EXCEPT !.ipScript = now, !.ipPid = pid]
            /\ pc' = pc /\ got' = got /\ persist' = persist
        BY <2>2 DEF IpScriptDone
      <3> HIDE DEF now, pid
      <3>2. QED
        BY <1>1, <3>1, FieldUnmoved
    <2>3. QED
      BY <2>1, <2>2 DEF Scripts
  <1>3. /\ s'.fd = s.fd /\ s'.hungup = s.hungup /\ s'.phase = s.phase
        /\ s'.timers["holdoff"] = s.timers["holdoff"]
    BY <1>2 DEF Unmoved, SameDevice, SameNet
  <1>4. Slate(s', Room(W))
    BY <1>2, SlateUnmoved DEF Held
  <1>5. QED
    BY <1>2, <1>3, <1>4 DEF Held, Room, Calm

LEMMA StepHeld ==
    ASSUME IndInv, Tidy(s, 1), NEW W, Held(W), Ripe(s, W), [Next]_vars,
           "calm" \in W => "hup" \notin Signals
    PROVE  Held(W)'
  <1>1. CASE Between \/ Round \/ Due \/ Scripts
    BY <1>1, BetweenHeld, RoundHeld, DueHeld, ScriptsHeld
  <1>2. CASE \E e \in PeerEvents : Receive(e)
    BY <1>2, ReceiveHeld
  <1>3. CASE UNCHANGED vars \/ PeerDies
    BY <1>3 DEF vars, PeerDies, Held, Room, Calm
  <1>4. CASE \E sig \in Signals : Signal(sig)
    <2>1. UNCHANGED <<s, pc, persist>>
      BY <1>4 DEF Signal
    <2>2. "calm" \in W => got' \subseteq {"term"}
      BY <1>4, MainAssumption DEF Signal, Held, Calm
    <2>3. QED
      BY <2>1, <2>2 DEF Held, Room, Calm
  <1>5. QED
    BY <1>1, <1>2, <1>3, <1>4 DEF Next

\* LCP is down: the server of CHAP is not DONE with anything.
ChapStartsAnew == s.lcp.state # "OPENED" => "DONE" \notin s.chapS

LEMMA HeldAlways == Spec => [](IndInv /\ Held({}))
  <1>1. Init => Held({})
    BY InitHeld
  <1>2. IndInv /\ Orderly /\ Held({}) /\ [Next]_vars => Held({})'
    BY StepHeld DEF Orderly, Ripe
  <1>3. QED
    BY <1>1, <1>2, OrderlyAlways, PTL DEF Spec

LEMMA HeldOrderly == Spec => [](IndInv /\ Orderly /\ Held({}))
  BY OrderlyAlways, HeldAlways, PTL

(* When LCP is not open nothing it carried goes on, in every run, whatever ended the
   link, the peer, a hangup, a signal or a timer: no protocol, no count of open
   networks, no authentication, and no timer but the three kinds of entries that
   nothing cancels; and LCP itself does not negotiate without a device. *)
THEOREM CleanSlateCorrect == Spec => []CleanSlate
  <1>1. IndInv /\ Orderly /\ Held({}) => CleanSlate
    <2> SUFFICES ASSUME IndInv, Orderly, Held({}) PROVE CleanSlate
      OBVIOUS
    <2>1. /\ Base(s, Room({})) /\ Linked(s) /\ (~s.fd => Low(s))
          /\ s.timers \in [Timers -> Nat]
      BY SessionFields DEF Held, Slate, Core, IndInv, Sound, Linked
    <2>2. ASSUME s.lcp.state # "OPENED"
          PROVE  /\ Clear(s) /\ s.ipcp.timers = 0 /\ ~s.echo
                 /\ \A timer \in Timers \ {"pap", "delayed", "holdoff"} : s.timers[timer] = 0
      <3>1. Clear(s)
        BY <2>1, <2>2 DEF Base
      <3>2. s.ipcp.timers = 0
        BY <2>1, <3>1, StaysBelow DEF Linked, Steady, Clear, Below
      <3>3. Off(s) /\ Counts(s, 1)
        BY <2>2 DEF Orderly, Tidy
      <3>4. /\ s.timers["echo"] = 0 /\ s.timers["chap"] = 0 /\ s.timers["papReq"] = 0
            /\ s.timers["idle"] <= 0
        BY <3>1, <3>3 DEF Off, Counts, Less, Clear
      <3>5. s.timers["idle"] = 0
        BY <2>1, <3>4 DEF Timers
      <3>6. QED
        BY <3>1, <3>2, <3>3, <3>4, <3>5 DEF Off, Timers
    <2>3. ASSUME ~s.fd
          PROVE  s.lcp.state \in {"INITIAL", "STARTING"} /\ s.lcp.timers = 0 /\ ~s.delayed
      <3>1. Below(s.lcp) /\ ~s.delayed
        BY <2>1, <2>3 DEF Low
      <3>2. QED
        BY <2>1, <3>1, StaysBelow DEF Linked, Steady, Below
    <2>4. QED
      BY <2>2, <2>3 DEF CleanSlate, Clear
  <1>2. QED
    BY <1>1, HeldOrderly, PTL

(* What is pending was not yet told success, and the phase AUTHENTICATE has something
   pending, in every run and for every pair of directions; only a CHAP server that
   was DONE before it started is told success while it waits. *)
THEOREM AuthWaitsCorrect == Spec => []AuthWaits
  <1>1. Held({}) => AuthWaits
    <2> SUFFICES ASSUME Held({}), s.lcp.state = "OPENED"
                 PROVE  /\ s.phase = "AUTHENTICATE" => s.pending # {}
                        /\ s.pending \cap s.success
                             \subseteq (IF "DONE" \in s.chapS THEN {"chapPeer"} ELSE {})
      BY DEF AuthWaits
    <2>1. Agenda(s, Room({}))
      BY DEF Held, Slate
    <2>2. /\ s.pending \cap s.success \subseteq {"chapPeer"} /\ Heard(s)
          /\ s.phase = "AUTHENTICATE" => s.pending # {}
      BY <2>1 DEF Agenda, Owes
    <2>3. "DONE" \notin s.chapS => s.pending \cap s.success = {}
      BY <2>2 DEF Heard
    <2>4. QED
      BY <2>2, <2>3
  <1>2. QED
    BY <1>1, HeldAlways, PTL

(* A delayed lcp_lowerup is done or called off in every run: LCP waits for its
   lower layer with the device open and the entry that will end the wait. *)
THEOREM DelayedCorrect == Spec => []DelayedInv
  <1>1. IndInv /\ Held({}) => DelayedInv
    BY DEF DelayedInv, Held, Slate, Core, Base, Low, Below
  <1>2. QED
    BY <1>1, HeldAlways, PTL

\* The interface and the phase, with the DORMANT that holdoff_end can set in a session
Configured ==
    /\ s.npUp = (IF s.ipcpUp THEN 1 ELSE 0)
    /\ s.phase = "RUNNING" => s.ipcp.state = "OPENED" /\ s.ipcpUp
    /\ s.ipcp.state = "OPENED" /\ s.ipcpUp => s.phase \in {"RUNNING", "DORMANT"}

LEMMA HeldConfigured == ASSUME IndInv, NEW W, Held(W) PROVE Configured
  <1>1. Sound(s) /\ s \in Session
    BY DEF IndInv, Sound, Linked
  <1>2. CASE s.lcp.state = "OPENED"
    <2>1. s.fd
      BY <1>2 DEF Held, Slate, Core, Low, Below
    <2>2. pc = "session" /\ Slate(s, W)
      BY <2>1 DEF Held, Room
    <2>3. QED
      BY <1>1, <1>2, <2>2 DEF Slate, Core, Base, Agenda, Shows, Sound, Linked, Configured
  <1>3. CASE s.lcp.state # "OPENED"
    <2>1. Clear(s)
      BY <1>3 DEF Held, Slate, Core, Base
    <2>2. s.phase # "RUNNING"
      BY <1>1, <1>3 DEF Sound, Quiet, Proved, InNetwork
    <2>3. QED
      BY <2>1, <2>2 DEF Clear, Configured
  <1>4. QED
    BY <1>2, <1>3

LEMMA ConfiguredAlways == Spec => []Configured
  <1>1. IndInv /\ Held({}) => Configured
    BY HeldConfigured
  <1>2. QED
    BY <1>1, HeldAlways, PTL

\* Without SIGHUP no link is open in the phase DORMANT.
LEMMA HeldCalm == ASSUME IndInv, Held({"calm"}) PROVE s.lcp.state = "OPENED" => s.phase # "DORMANT"
  <1> SUFFICES ASSUME s.lcp.state = "OPENED" PROVE s.phase # "DORMANT"
    OBVIOUS
  <1>1. s.fd
    BY DEF Held, Slate, Core, Low, Below
  <1>2. pc = "session" /\ Slate(s, {"calm"})
    BY <1>1 DEF Held, Room
  <1>3. QED
    BY <1>2 DEF Slate, Core, Base

LEMMA CalmAlways ==
    ASSUME "hup" \notin Signals
    PROVE  Spec => [](s.lcp.state = "OPENED" => s.phase # "DORMANT")
  <1>1. Init => Held({"calm"})
    BY InitHeld
  <1>2. IndInv /\ Orderly /\ Held({"calm"}) /\ [Next]_vars => Held({"calm"})'
    BY StepHeld DEF Orderly, Ripe
  <1>3. IndInv /\ Held({"calm"}) => (s.lcp.state = "OPENED" => s.phase # "DORMANT")
    BY HeldCalm
  <1>4. QED
    BY <1>1, <1>2, <1>3, OrderlyAlways, PTL DEF Spec

(* num_np_up counts the interface, and it is configured exactly in the phase RUNNING,
   in every run and with any signals: renegotiations, rejects, hangups and timeouts
   take the phase, IPCP and the interface down together.  The one exception is that of
   RunningInv: the DORMANT of an entry of holdoff_end that a SIGHUP left behind. *)
THEOREM RunningCorrect == Spec => []RunningInv
  <1>1. IndInv /\ Held({}) => (s.ipcpUp => s.lcp.state = "OPENED" /\ s.ipcp.state = "OPENED")
    <2> SUFFICES ASSUME IndInv, Held({}), s.ipcpUp
                 PROVE  s.lcp.state = "OPENED" /\ s.ipcp.state = "OPENED"
      OBVIOUS
    <2>1. s.lcp.state # "OPENED" => Clear(s)
      BY DEF Held, Slate, Core, Base
    <2>2. QED
      BY <2>1 DEF Clear, IndInv, Sound, Linked
  <1>2. CASE "hup" \in Signals
    <2>1. Configured /\ (s.ipcpUp => s.ipcp.state = "OPENED") => RunningInv
      BY <1>2 DEF Configured, RunningInv, Misnamed
    <2>2. QED
      BY <1>1, <2>1, ConfiguredAlways, HeldAlways, PTL
  <1>3. CASE "hup" \notin Signals
    <2>1. Spec => [](s.lcp.state = "OPENED" => s.phase # "DORMANT")
      BY <1>3, CalmAlways
    <2>2. /\ Configured /\ (s.lcp.state = "OPENED" => s.phase # "DORMANT")
          /\ (s.ipcpUp => s.lcp.state = "OPENED" /\ s.ipcp.state = "OPENED")
          => RunningInv
      BY <1>3 DEF Configured, RunningInv, Misnamed
    <2>3. QED
      BY <1>1, <2>1, <2>2, ConfiguredAlways, HeldAlways, PTL
  <1>4. QED
    BY <1>2, <1>3

(* While the phase is AUTHENTICATE there is an authentication to wait for, in every
   run in which no late response has left the CHAP server DONE when LCP was already
   down: that is the only way in which pppd can wait for nothing. *)
THEOREM AuthCompletesCorrect == Spec /\ []ChapStartsAnew => []AuthCompletes
  <1>1. Init => Held({"clean"})
    BY InitHeld
  <1>2. IndInv /\ Orderly /\ Held({"clean"}) /\ ChapStartsAnew /\ [Next]_vars => Held({"clean"})'
    BY StepHeld DEF Orderly, Ripe, ChapStartsAnew
  <1>3. IndInv /\ Held({"clean"}) => AuthCompletes
    <2> SUFFICES ASSUME Held({"clean"}), s.phase = "AUTHENTICATE", s.lcp.state = "OPENED"
                 PROVE  s.pending \ s.success # {}
      BY DEF AuthCompletes
    <2>1. Agenda(s, {"clean"})
      <3>1. Agenda(s, Room({"clean"})) /\ Room({"clean"}) = {"clean"}
        BY DEF Held, Slate, Room
      <3>2. QED
        BY <3>1
    <2>2. s.pending \cap s.success = {} /\ s.pending # {}
      BY <2>1 DEF Agenda, Owes, Heard
    <2>3. QED
      BY <2>2
  <1>4. QED
    BY <1>1, <1>2, <1>3, OrderlyAlways, PTL DEF Spec
=============================================================================
