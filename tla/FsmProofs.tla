------------------------------ MODULE FsmProofs ------------------------------
(***************************************************************************)
(* Proofs about PppFsm, for every number of units, identifiers and values, *)
(* all limits, flags and option policies, and every peer.                  *)
(***************************************************************************)
EXTENDS PppFsm, FsmLemmas

USE DEF States, Negotiating, Terminating, Waiting

\* Forgetting what the last event sent changes nothing else.
LEMMA QuietEffect ==
    ASSUME f \in Fsm, Inv(f)
    PROVE  /\ Quiet \in Fsm /\ Quiet.unit = f.unit /\ Inv(Quiet)
           /\ Quiet.state = f.state /\ Quiet.timers = f.timers
  <1>1. <<>> \in Seq(Frame) /\ <<>> \in Seq(Callbacks)
    OBVIOUS
  <1>2. Quiet \in Fsm
    BY <1>1 DEF Quiet, Fsm
  <1>3. /\ Quiet.state = f.state /\ Quiet.unit = f.unit
        /\ Quiet.timers = f.timers /\ Quiet.upper = f.upper
        /\ Quiet.seen_ack = f.seen_ack /\ Quiet.retransmits = f.retransmits
        /\ Quiet.nakloops = f.nakloops
    BY DEF Quiet, Fsm
  <1>4. Inv(Quiet)
    BY <1>3 DEF Inv
  <1>5. QED
    BY <1>2, <1>3, <1>4

\* The inductive invariant: the fsm satisfies Inv, and its state tells what
\* the history variables record.
IndInv ==
    /\ f \in Fsm
    /\ Inv(f)
    /\ lower = LowerIsUp(f)
    /\ open = IsOpen(f)

LEMMA InitFine == Init => IndInv
  <1> SUFFICES ASSUME NEW u \in Units, f = FsmInit(u), ~lower, ~open,
                      lower \in BOOLEAN, open \in BOOLEAN
               PROVE  IndInv
    BY DEF Init
  <1>1. f \in Fsm
    <2>1. 0 \in Ids
      BY BoundsAssumption DEF Ids
    <2>2. <<>> \in Seq(Frame) /\ <<>> \in Seq(Callbacks)
      OBVIOUS
    <2>3. QED
      BY <2>1, <2>2, Nothing DEF FsmInit, Fsm
  <1>2. Inv(f)
    BY BoundsAssumption DEF FsmInit, Inv
  <1>3. ~LowerIsUp(f) /\ ~IsOpen(f)
    BY DEF FsmInit, LowerIsUp, IsOpen
  <1>4. QED
    BY <1>1, <1>2, <1>3 DEF IndInv, LowerIsUp, IsOpen

\* Every step takes the fsm where the history variables say.
LEMMA StepGuided ==
    ASSUME IndInv, Next
    PROVE  Guided(f, f', lower', open')
  <1> DEFINE q == Quiet
  <1>1. f \in Fsm /\ Inv(f) /\ lower = LowerIsUp(f) /\ open = IsOpen(f)
    BY DEF IndInv
  <1>2. /\ q \in Fsm /\ q.unit = f.unit /\ Inv(q)
        /\ q.state = f.state /\ q.timers = f.timers
    BY <1>1, QuietEffect
  <1>3. LowerIsUp(q) = lower /\ IsOpen(q) = open
    BY <1>1, <1>2 DEF LowerIsUp, IsOpen
  <1>4. ASSUME Fine(q, f'), UNCHANGED <<lower, open>>
        PROVE  Guided(q, f', lower', open')
    BY <1>3, <1>4 DEF Fine, Allowed, Guided
  <1> SUFFICES Guided(q, f', lower', open')
    BY <1>1, <1>2, <1>3 DEF Guided, Told
  <1>5. CASE LowerUp
    <2>1. f' = Lowerup(q) /\ lower' = TRUE /\ open' = open
      BY <1>5 DEF LowerUp
    <2> HIDE DEF q
    <2>2. QED
      BY <1>2, <1>3, <2>1, LowerupFine
  <1>6. CASE LowerDown
    <2>1. f' = Lowerdown(q) /\ lower' = FALSE /\ open' = open
      BY <1>6 DEF LowerDown
    <2> HIDE DEF q
    <2>2. QED
      BY <1>2, <1>3, <2>1, LowerdownFine
  <1>7. CASE UserOpens
    <2>1. f' = Open(q) /\ open' = TRUE /\ lower' = lower
      BY <1>7 DEF UserOpens
    <2> HIDE DEF q
    <2>2. QED
      BY <1>2, <1>3, <2>1, OpenFine
  <1>8. CASE UserCloses
    <2>1. f' = Close(q) /\ open' = FALSE /\ lower' = lower
      BY <1>8 DEF UserCloses
    <2> HIDE DEF q
    <2>2. QED
      BY <1>2, <1>3, <2>1, CloseFine
  <1>9. CASE Rejected
    <2>1. f' = ProtReject(q) /\ UNCHANGED <<lower, open>>
      BY <1>9 DEF Rejected
    <2> HIDE DEF q
    <2>2. QED
      BY <1>2, <1>4, <2>1, ProtRejectFine
  <1>10. CASE TimerFires
    <2>1. f' = Expire(Untimeout(q)) /\ f.timers > 0 /\ UNCHANGED <<lower, open>>
      BY <1>10 DEF TimerFires
    <2> HIDE DEF q
    <2>2. QED
      BY <1>2, <1>4, <2>1, ExpireFine
  <1>11. CASE \E m \in PeerFrames : Receive(m)
    <2>1. PICK m \in Frame : f' = Input(q, m) /\ UNCHANGED <<lower, open>>
      BY <1>11 DEF Receive, PeerFrames
    <2> HIDE DEF q
    <2>2. QED
      BY <1>2, <1>4, <2>1, InputFine
  <1>12. QED
    BY <1>5, <1>6, <1>7, <1>8, <1>9, <1>10, <1>11 DEF Next

LEMMA StepKeeps == IndInv /\ [Next]_vars => IndInv'
  <1> SUFFICES ASSUME IndInv, [Next]_vars PROVE IndInv'
    OBVIOUS
  <1>1. CASE Next
    BY <1>1, StepGuided DEF Guided, Told, Inv, IndInv, LowerIsUp, IsOpen
  <1>2. CASE UNCHANGED vars
    BY <1>2 DEF vars, IndInv, Inv, LowerIsUp, IsOpen
  <1>3. QED
    BY <1>1, <1>2

(* IndInv, from which the properties below follow, is an invariant of every
   fsm of pppd, whatever its limits, flags, option policy and peer. *)
THEOREM Invariance == Spec => []IndInv
  BY InitFine, StepKeeps, PTL DEF Spec

(* fsm.c keeps every field of the fsm in its range: identifiers wrap, the
   counters of naks are never negative. *)
THEOREM TypeCorrect == Spec => []TypeOK
  <1>1. IndInv => TypeOK
    BY DEF IndInv, TypeOK, LowerIsUp, IsOpen
  <1>2. QED
    BY <1>1, Invariance, PTL

(* The retransmit timer runs exactly while an answer is awaited, once. *)
THEOREM TimerCorrect == Spec => []TimerInv
  <1>1. IndInv => TimerInv
    BY DEF IndInv, Inv, TimerInv
  <1>2. QED
    BY <1>1, Invariance, PTL

(* No call from below or of the user is lost, and no frame undoes one. *)
THEOREM IntentCorrect == Spec => []IntentInv
  <1>1. IndInv => IntentInv
    BY DEF IndInv, IntentInv, LowerIsUp, IsOpen
  <1>2. QED
    BY <1>1, Invariance, PTL

(* The upper layer is up exactly while the fsm is in OPENED. *)
THEOREM UpperCorrect == Spec => []UpperInv
  <1>1. IndInv => UpperInv
    BY DEF IndInv, Inv, UpperInv
  <1>2. QED
    BY <1>1, Invariance, PTL

(* No second answer to a request is accepted once it is acknowledged. *)
THEOREM AckCorrect == Spec => []AckInv
  <1>1. IndInv => AckInv
    BY DEF IndInv, Inv, AckInv
  <1>2. QED
    BY <1>1, Invariance, PTL

(* The retransmission counters stay within their limits. *)
THEOREM RetransmitCorrect == Spec => []RetransmitInv
  <1>1. IndInv => RetransmitInv
    BY DEF IndInv, Inv, RetransmitInv
  <1>2. QED
    BY <1>1, Invariance, PTL

\* In the contract, an up report needs both ends; every other move of the
\* upper layer is one down report, made in the event that causes it.
LEMMA StepContract ==
    ASSUME IndInv, IndInv', [Next]_vars
    PROVE  [Contract!Next]_(Contract!vars)
  <1>1. CASE UNCHANGED vars
    BY <1>1 DEF vars, Contract!vars
  <1>2. CASE Next
    <2> DEFINE up == f.upper = 1
    <2>1. Told(f, f', lower', open')
      BY <1>2, StepGuided DEF Guided
    <2>2. /\ up <=> f.state = "OPENED"
          /\ up' <=> f'.state = "OPENED"
      BY DEF IndInv, Inv
    <2>3. /\ lower \in BOOLEAN /\ open \in BOOLEAN
          /\ lower' \in BOOLEAN /\ open' \in BOOLEAN
      BY DEF IndInv, LowerIsUp, IsOpen
    <2>4. up => lower /\ open
      BY <2>2 DEF IndInv, LowerIsUp, IsOpen
    <2>5. up' => lower' /\ open'
      BY <2>2 DEF IndInv, LowerIsUp, IsOpen
    <2>6. lower' = lower \/ open' = open
      BY <1>2 DEF Next, LowerUp, LowerDown, UserOpens, UserCloses, Rejected,
                  TimerFires, Receive
    <2>7. ~up /\ up' => lower' = lower /\ open' = open
      BY <2>1, <2>2 DEF Told, IndInv, LowerIsUp, IsOpen
    <2> HIDE DEF up
    <2>8. QED
      BY <2>3, <2>4, <2>5, <2>6, <2>7
      DEF Contract!Next, Contract!vars, Contract!LowerUp, Contract!LowerDown,
          Contract!Open, Contract!Close, Contract!Up, Contract!Down, up
  <1>3. QED
    BY <1>1, <1>2 DEF vars

(* fsm.c implements the contract with the layer above it. *)
THEOREM ContractRefined == Spec => ContractSpec
  <1>1. Init => Contract!Init
    BY BoundsAssumption DEF Init, FsmInit, Contract!Init
  <1>2. IndInv /\ IndInv' /\ [Next]_vars => [Contract!Next]_(Contract!vars)
    BY StepContract
  <1>3. QED
    BY <1>1, <1>2, Invariance, PTL DEF Spec, ContractSpec, Contract!Spec

(* A layer that was closing or stopping and comes to rest calls finished,
   whichever event ended it, unless the user opens it again. *)
THEOREM TerminationReportedCorrect == Spec => TerminationReported
  <1>1. ASSUME IndInv, Next, f.state \in Terminating, ~UserOpens
        PROVE  Reported(f')
    <2> DEFINE q == Quiet
    <2>1. /\ q \in Fsm /\ Inv(q) /\ q.state = f.state /\ q.calls = <<>>
      BY <1>1, QuietEffect DEF IndInv, Quiet, Fsm
    <2>2. CASE LowerUp
      BY <1>1, <2>1, <2>2, TerminatingReports DEF LowerUp, Lowerup, Terminating
    <2>3. CASE LowerDown
      <3>1. f' = Lowerdown(q)
        BY <2>3 DEF LowerDown
      <3>2. Lowerdown(q).state \in {"INITIAL", "STARTING"}
        BY <1>1, <2>1 DEF Lowerdown, Untimeout, Goto, Terminating, Negotiating, Fsm
      <3>3. QED
        BY <3>1, <3>2 DEF Reported
    <2>4. CASE UserCloses
      <3>1. f' = Close(q)
        BY <2>4 DEF UserCloses
      <3>2. Close(q).state = "CLOSING"
        BY <1>1, <2>1 DEF Close, Goto, Terminating, Negotiating, Fsm
      <3>3. QED
        BY <3>1, <3>2 DEF Reported
    <2>5. CASE Rejected
      BY <1>1, <2>1, <2>5, ProtRejectReports DEF Rejected
    <2>6. CASE TimerFires
      <3>1. f' = Expire(Untimeout(q))
        BY <2>6 DEF TimerFires
      <3>2. /\ Untimeout(q) \in Fsm /\ Untimeout(q).state = q.state
            /\ Untimeout(q).calls = <<>>
        BY <2>1, UntimeoutEffect DEF Untimeout, Fsm
      <3>3. QED
        BY <1>1, <2>1, <3>1, <3>2, ExpireReports
    <2>7. CASE \E m \in PeerFrames : Receive(m)
      BY <1>1, <2>1, <2>7, InputReports DEF Receive, PeerFrames
    <2>8. QED
      BY <1>1, <2>2, <2>3, <2>4, <2>5, <2>6, <2>7 DEF Next
  <1>2. IndInv /\ [Next]_vars =>
          [ /\ f.state \in Terminating
            /\ f'.state \in {"CLOSED", "STOPPED"}
            => f'.calls = <<"finished">> \/ UserOpens ]_vars
    BY <1>1 DEF Reported
  <1>3. QED
    BY <1>2, Invariance, PTL DEF Spec, TerminationReported
=============================================================================
