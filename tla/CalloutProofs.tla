---------------------------- MODULE CalloutProofs ----------------------------
(***************************************************************************)
(* Proofs about Callout, for every number of ticks to a second, tolerance, *)
(* set of delays and set of jumps of the clock.                            *)
(***************************************************************************)
EXTENDS Callout, TLAPS

-----------------------------------------------------------------------------
(* Sequences by the functions they are. *)

LEMMA FunctionIsSeq ==
    ASSUME NEW S, NEW n \in Nat, NEW s \in [1 .. n -> S]
    PROVE  s \in Seq(S) /\ Len(s) = n
  OBVIOUS

LEMMA SeqIsFunction ==
    ASSUME NEW S, NEW s \in Seq(S)
    PROVE  /\ Len(s) \in Nat /\ s \in [1 .. Len(s) -> S]
           /\ \A i \in 1 .. Len(s) : s[i] \in S
  OBVIOUS

-----------------------------------------------------------------------------
(* The operations on the list. *)

LEMMA MovedType ==
    ASSUME NEW m, clock \in Int, uptime \in Int, diff \in Int \cup {Never},
           m \in Entry \/ m \in Moment
    PROVE  /\ Correction \in Int
           /\ Moved(m).time = m.time + Correction * Second
           /\ Moved(m).due = m.due
           /\ m \in Entry => Moved(m) \in Entry
           /\ m \in Moment => Moved(m) \in Moment
  <1>1. NewDiff \in Int
    BY CalloutAssumption DEF NewDiff
  <1>2. Correction \in Int
    BY <1>1 DEF Correction
  <1>3. Correction * Second \in Int
    BY <1>2, CalloutAssumption
  <1>4. QED
    BY <1>2, <1>3 DEF Moved, Entry, Moment

LEMMA Division ==
    ASSUME NEW n \in Int, NEW d \in Nat \ {0}
    PROVE  /\ n \div d \in Int
           /\ (n \div d) * d <= n /\ n < (n \div d) * d + d
  OBVIOUS

(* The whole seconds of a difference are less than a second off. *)
LEMMA NewDiffNear ==
    ASSUME clock \in Int, uptime \in Int
    PROVE  /\ NewDiff \in Int
           /\ NewDiff * Second < clock - uptime + Second
           /\ clock - uptime < NewDiff * Second + Second
  <1> DEFINE c == clock \div Second
             u == uptime \div Second
  <1>1. /\ c \in Int /\ c * Second <= clock /\ clock < c * Second + Second
        /\ u \in Int /\ u * Second <= uptime /\ uptime < u * Second + Second
    BY Division, CalloutAssumption
  <1>2. NewDiff = c - u
    BY DEF NewDiff
  <1>3. NewDiff * Second = c * Second - u * Second
    BY <1>1, <1>2, CalloutAssumption
  <1>4. QED
    BY <1>1, <1>2, <1>3, CalloutAssumption

-----------------------------------------------------------------------------
(* The inductive invariant. *)

(* uptime_diff is the difference that was seen, to the second. *)
Accurate ==
    diff # Never =>
      diff * Second < seen + Second /\ seen < diff * Second + Second

(* While functions are called, the clock is the one that was looked at. *)
Current == pc \in {"fire", "call"} /\ ~upset => seen = clock - uptime

(* A wait with a call to come has an end, and a list out of order is known. *)
Consistent ==
    /\ pc = "wait" /\ callout # <<>> => left \in Nat
    /\ torn => upset

CInv == TypeOK /\ Sorted /\ Kept /\ WakesInTime /\ Accurate /\ Current /\ Consistent

-----------------------------------------------------------------------------
(* check_time *)

(* A bound on a distance bounds the difference. *)
LEMMA AtMost == ASSUME NEW n \in Int, NEW d \in Int, Abs(n) <= d PROVE n <= d
  BY DEF Abs

(* A correction of q seconds for a jump of j ticks is wrong by no more than
   Cost(j), and no jump beyond the tolerance is left uncorrected. *)
LEMMA CostBound ==
    ASSUME NEW d \in Int, NEW n \in Int, NEW s \in Int, NEW j \in Int,
           diff = d,
           n * Second < s + j + Second, s + j < n * Second + Second,
           d * Second < s + Second, s < d * Second + Second
    PROVE  LET q == IF Abs(n - d) > Tolerance THEN n - d ELSE 0
           IN  /\ q * Second - j <= Cost(j)
               /\ j - q * Second <= Cost(j)
  <1> DEFINE q == n - d
             t == Tolerance
             qs == q * Second
  <1>0. Second \in Nat \ {0} /\ t \in Nat \ {0} /\ diff # Never
    BY CalloutAssumption
  <1>1. qs = n * Second - d * Second /\ qs \in Int
    BY <1>0
  <1>2. qs < j + 2 * Second /\ j < qs + 2 * Second
    BY <1>0, <1>1
  <1>3. CASE Abs(q) > t
    <2>1. Cost(j) >= 2 * Second - 1 \/ j = 0
      BY <1>0 DEF Cost, Max2, Abs
    <2>2. j # 0
      <3>1. SUFFICES ASSUME j = 0 PROVE FALSE
        OBVIOUS
      <3>2. q * Second < 2 * Second /\ -(2 * Second) < q * Second
        BY <3>1, <1>0, <1>2
      <3>3. q < 2 /\ -2 < q
        BY <3>2, <1>0
      <3>4. QED
        BY <3>3, <1>3, <1>0 DEF Abs
    <2>3. qs - j <= 2 * Second - 1 /\ j - qs <= 2 * Second - 1
      BY <1>0, <1>1, <1>2
    <2>4. Cost(j) \in Int
      BY <1>0 DEF Cost, Max2, Abs
    <2>5. QED
      BY <1>0, <1>1, <1>3, <2>1, <2>2, <2>3, <2>4
  <1>4. CASE ~(Abs(q) > t)
    <2>1. q <= t /\ -t <= q
      BY <1>0, <1>4 DEF Abs
    <2>2. qs <= t * Second /\ -(t * Second) <= qs /\ t * Second \in Int
      BY <2>1, <1>0
    <2>3. (t + 2) * Second = t * Second + 2 * Second
      BY <1>0
    <2>4. Abs(j) <= (t + 2) * Second
      BY <1>0, <1>1, <1>2, <2>2, <2>3 DEF Abs
    <2>5. j = 0 \/ Cost(j) = Max2(Abs(j), 2 * Second - 1)
      BY <2>4, <1>0, <2>2, <2>3 DEF Cost, Abs
    <2>6. /\ j <= Cost(j) /\ -j <= Cost(j)
      BY <2>5, <1>0 DEF Cost, Max2, Abs
    <2>7. QED
      BY <1>4, <1>0, <2>6
  <1>5. QED
    BY <1>3, <1>4

LEMMA CostType == ASSUME NEW j \in Int PROVE Cost(j) \in Nat
  BY CalloutAssumption DEF Cost, Max2, Abs

LEMMA MoveBound ==
    ASSUME TypeOK, Accurate, NEW m, m \in Entry \/ m \in Moment,
           NEW now, now = clock - uptime
    PROVE  Abs(Moved(m).time - Moved(m).due - now)
             <= Abs(m.time - m.due - seen) + Cost(now - seen)
  <1> DEFINE j == now - seen
             q == Correction
             e == m.time - m.due - seen
  <1>0. /\ clock \in Int /\ uptime \in Int /\ diff \in Int \cup {Never}
        /\ seen \in Int /\ now \in Int /\ j \in Int
        /\ m.time \in Int /\ m.due \in Int /\ Second \in Nat \ {0}
    BY CalloutAssumption DEF TypeOK, Entry, Moment
  <1>1. /\ q \in Int /\ Moved(m).time = m.time + q * Second /\ Moved(m).due = m.due
    BY <1>0, MovedType
  <1>2. Cost(j) \in Nat
    BY <1>0, CostType
  <1>3. q * Second \in Int
    BY <1>0, <1>1
  <1>4. q * Second - j <= Cost(j) /\ j - q * Second <= Cost(j)
    <2>1. CASE diff = Never
      <3>1. q = 0
        BY <2>1 DEF Correction
      <3>2. j <= Cost(j) /\ -j <= Cost(j)
        BY <2>1, <1>0 DEF Cost, Max2, Abs
      <3>3. QED
        BY <3>1, <3>2, <1>0
    <2>2. CASE diff # Never
      <3>1. diff \in Int
        BY <2>2, <1>0
      <3>2. /\ NewDiff \in Int
            /\ NewDiff * Second < seen + j + Second
            /\ seen + j < NewDiff * Second + Second
        BY <1>0, NewDiffNear
      <3>3. q = IF Abs(NewDiff - diff) > Tolerance THEN NewDiff - diff ELSE 0
        BY <2>2 DEF Correction
      <3>4. diff * Second < seen + Second /\ seen < diff * Second + Second
        BY <2>2 DEF Accurate
      <3>5. QED
        BY <1>0, <3>1, <3>2, <3>3, <3>4, CostBound
    <2>3. QED
      BY <2>1, <2>2
  <1>5. Moved(m).time - Moved(m).due - now = e + q * Second - j
    BY <1>0, <1>1, <1>3
  <1> HIDE DEF j, q
  <1>6. Abs(e + q * Second - j) <= Abs(e) + Cost(j)
    BY <1>0, <1>2, <1>3, <1>4 DEF Abs, j
  <1>7. QED
    BY <1>5, <1>6 DEF j

LEMMA AllMovedType ==
    ASSUME TypeOK
    PROVE  /\ AllMoved \in Seq(Entry) /\ Len(AllMoved) = Len(callout)
           /\ \A i \in 1 .. Len(callout) :
                /\ callout[i] \in Entry
                /\ AllMoved[i] = Moved(callout[i])
                /\ AllMoved[i].time = callout[i].time + Correction * Second
  <1>1. /\ Len(callout) \in Nat
        /\ \A i \in 1 .. Len(callout) : callout[i] \in Entry
    BY SeqIsFunction DEF TypeOK
  <1>2. \A i \in 1 .. Len(callout) :
          /\ Moved(callout[i]) \in Entry
          /\ Moved(callout[i]).time = callout[i].time + Correction * Second
    BY <1>1, MovedType DEF TypeOK
  <1>3. AllMoved \in [1 .. Len(callout) -> Entry]
    BY <1>2 DEF AllMoved
  <1>4. AllMoved \in Seq(Entry) /\ Len(AllMoved) = Len(callout)
    BY <1>1, <1>3, FunctionIsSeq
  <1>5. QED
    BY <1>1, <1>2, <1>4 DEF AllMoved

(* What check_time does to the list and to the history. *)
LEMMA Checked ==
    ASSUME CInv, diff' = NewDiff, callout' = AllMoved, Noticed,
           clock' = clock, uptime' = uptime
    PROVE  /\ diff' \in Int /\ seen' = clock - uptime /\ seen' \in Int
           /\ drift' \in Nat /\ drift <= drift'
           /\ upset' = upset /\ torn' = torn
           /\ callout' \in Seq(Entry) /\ Len(callout') = Len(callout)
           /\ Accurate' /\ Sorted'
           /\ Moved(start) \in Moment
           /\ ~upset => \A i \in 1 .. Len(callout) :
                          Abs(callout'[i].time - callout'[i].due - seen') <= drift'
           /\ ~upset => Abs(Moved(start).time - Moved(start).due - seen') <= drift'
  <1> DEFINE c == Cost(clock - uptime - seen)
  <1>0. TypeOK /\ Sorted /\ Kept /\ Accurate
    BY DEF CInv
  <1>1. /\ clock \in Int /\ uptime \in Int /\ seen \in Int /\ drift \in Nat
        /\ diff \in Int \cup {Never}
        /\ start \in Moment /\ Second \in Nat \ {0}
    BY <1>0, CalloutAssumption DEF TypeOK
  <1>2. /\ seen' = clock - uptime /\ seen' \in Int
        /\ drift' = drift + c
        /\ upset' = upset /\ torn' = torn
    BY <1>1 DEF Noticed
  <1>3. c \in Nat
    BY <1>1, CostType
  <1>4. drift' \in Nat /\ drift <= drift'
    BY <1>1, <1>2, <1>3
  <1>5. callout' \in Seq(Entry) /\ Len(callout') = Len(callout)
    BY <1>0, AllMovedType
  <1>6. diff' \in Int /\ Accurate'
    BY <1>1, <1>2, NewDiffNear DEF Accurate
  <1>7. Sorted'
    <2>1. SUFFICES ASSUME ~torn, NEW i \in 1 .. Len(callout), NEW k \in 1 .. Len(callout), i < k
                   PROVE  callout'[i].time <= callout'[k].time
      BY <1>2, <1>5 DEF Sorted
    <2>2. callout[i].time <= callout[k].time
      BY <2>1, <1>0 DEF Sorted
    <2>3. /\ callout[i].time \in Int /\ callout[k].time \in Int
          /\ callout'[i].time = callout[i].time + Correction * Second
          /\ callout'[k].time = callout[k].time + Correction * Second
      BY <1>0, AllMovedType DEF Entry
    <2>4. Correction * Second \in Int
      BY <1>0, <1>1, NewDiffNear DEF Correction, TypeOK
    <2>5. QED
      BY <2>2, <2>3, <2>4
  <1>8. ASSUME NEW m, m \in Entry \/ m \in Moment, Error(m) <= drift
        PROVE  Abs(Moved(m).time - Moved(m).due - seen') <= drift'
    <2>1. /\ m.time \in Int /\ m.due \in Int
          /\ Moved(m).time \in Int /\ Moved(m).due \in Int
      BY <1>1, <1>8, MovedType DEF Entry, Moment
    <2>2. Abs(Moved(m).time - Moved(m).due - seen') <= Abs(m.time - m.due - seen) + c
      BY <1>0, <1>2, <1>8, MoveBound
    <2>3. /\ Abs(Moved(m).time - Moved(m).due - seen') \in Int
          /\ Abs(m.time - m.due - seen) \in Int
      BY <2>1, <1>1, <1>2 DEF Abs
    <2>4. Abs(m.time - m.due - seen) <= drift
      BY <1>8 DEF Error
    <2> HIDE DEF c
    <2>5. QED
      BY <2>2, <2>3, <2>4, <1>1, <1>2, <1>3
  <1>9. ASSUME ~upset, NEW i \in 1 .. Len(callout)
        PROVE  Abs(callout'[i].time - callout'[i].due - seen') <= drift'
    BY <1>0, <1>8, <1>9, AllMovedType DEF Kept
  <1>10. ~upset => Abs(Moved(start).time - Moved(start).due - seen') <= drift'
    BY <1>0, <1>1, <1>8 DEF Kept
  <1>11. Moved(start) \in Moment
    BY <1>1, MovedType
  <1>12. QED
    BY <1>2, <1>4, <1>5, <1>6, <1>7, <1>9, <1>10, <1>11

-----------------------------------------------------------------------------
(* Inductiveness, one lemma for each action. *)

LEMMA Types ==
    ASSUME TypeOK
    PROVE  /\ clock \in Int /\ uptime \in Int /\ seen \in Int /\ drift \in Nat
           /\ Len(callout) \in Nat
           /\ start \in Moment /\ start.time \in Int /\ start.due \in Int
           /\ \A i \in 1 .. Len(callout) :
                /\ callout[i] \in Entry
                /\ callout[i].time \in Int /\ callout[i].due \in Int
  <1>1. \A i \in 1 .. Len(callout) : callout[i] \in Entry
    BY SeqIsFunction DEF TypeOK
  <1>2. QED
    BY <1>1, SeqIsFunction, CalloutAssumption DEF TypeOK, Entry, Moment

LEMMA InitCInv == Init => CInv
  <1> SUFFICES ASSUME Init PROVE CInv
    OBVIOUS
  <1>1. Second \in Nat \ {0} /\ MaxUptime \in Nat /\ MaxJumps \in Nat /\ MaxEntries \in Nat
    BY CalloutAssumption
  <1>2. callout = <<>> /\ callout \in Seq(Entry) /\ Len(callout) = 0
    BY DEF Init
  <1>3. clock \in Int /\ start = [time |-> clock, due |-> 0] /\ seen = clock /\ drift = 0
    BY <1>1 DEF Init
  <1>4. TypeOK
    <2>1. clock = 10 * Second /\ 10 * Second \in Int /\ start \in Moment
      BY <1>1, <1>3 DEF Init, Moment
    <2>2. uptime \in 0 .. MaxUptime /\ jumps \in 0 .. MaxJumps
      BY <1>1 DEF Init
    <2>3. diff \in Int \cup {Never} /\ left \in Nat \cup {Never}
      BY DEF Init
    <2>4. pc \in {"run", "wait", "fire", "call"} /\ upset \in BOOLEAN /\ torn \in BOOLEAN
      BY DEF Init
    <2>5. clock \in Int /\ seen \in Int /\ drift \in Nat /\ Len(callout) <= MaxEntries
      BY <1>1, <1>2, <1>3
    <2>6. QED
      BY <1>2, <2>1, <2>2, <2>3, <2>4, <2>5 DEF TypeOK
  <1>5. Sorted /\ WakesInTime
    BY <1>2 DEF Sorted, WakesInTime, Init
  <1>6. Kept
    BY <1>2, <1>3 DEF Kept, Error, Abs
  <1>7. Accurate /\ Current /\ Consistent
    BY <1>2 DEF Accurate, Current, Consistent, Init
  <1>8. QED
    BY <1>4, <1>5, <1>6, <1>7 DEF CInv

LEMMA TickKeeps == ASSUME CInv, Tick PROVE CInv'
  <1>1. TypeOK /\ Sorted /\ Kept /\ WakesInTime /\ Accurate /\ Current /\ Consistent
    BY DEF CInv
  <1>2. /\ clock' = clock + 1 /\ uptime' = uptime + 1 /\ uptime < MaxUptime
        /\ pc = "wait" => left # 0
        /\ left' = IF pc = "wait" /\ left # Never THEN left - 1 ELSE left
        /\ UNCHANGED <<jumps, diff, callout, start, pc, seen, drift, upset, torn>>
    BY DEF Tick, list, history
  <1>3. TypeOK'
    BY <1>1, <1>2, CalloutAssumption DEF TypeOK
  <1>4. Sorted' /\ Kept' /\ Accurate'
    BY <1>1, <1>2 DEF Sorted, Kept, Error, Accurate
  <1>5. Current'
    BY <1>1, <1>2, Types DEF Current
  <1>6. Consistent'
    BY <1>1, <1>2, CalloutAssumption DEF Consistent
  <1>7. WakesInTime'
    <2>1. SUFFICES ASSUME pc = "wait", ~upset, NEW i \in 1 .. Len(callout)
                   PROVE  left' <= Max2(callout[i].due - uptime', 0) + drift
      BY <1>2 DEF WakesInTime
    <2>2. callout # <<>>
      BY <2>1
    <2>3. left \in Nat /\ left # 0
      BY <2>1, <2>2, <1>1, <1>2 DEF Consistent
    <2>4. left' = left - 1
      BY <2>1, <2>3, <1>2, CalloutAssumption
    <2>5. left <= Max2(callout[i].due - uptime, 0) + drift
      BY <2>1, <1>1 DEF WakesInTime
    <2>6. callout[i].due \in Int /\ uptime \in Int /\ drift \in Nat
      BY <2>1, <1>1, Types
    <2>7. QED
      BY <1>2, <2>3, <2>4, <2>5, <2>6 DEF Max2
  <1>8. QED
    BY <1>3, <1>4, <1>5, <1>6, <1>7 DEF CInv

LEMMA JumpKeeps == ASSUME CInv, Jump PROVE CInv'
  <1>1. TypeOK /\ Sorted /\ Kept /\ WakesInTime /\ Accurate /\ Current /\ Consistent
    BY DEF CInv
  <1>2. PICK j \in Jumps : clock' = clock + j
    BY DEF Jump
  <1>3. /\ jumps < MaxJumps /\ jumps' = jumps + 1
        /\ upset' = (upset \/ pc \in {"fire", "call"})
        /\ UNCHANGED <<uptime, diff, callout, start, pc, left, seen, drift, torn>>
    BY DEF Jump, list
  <1>4. TypeOK'
    BY <1>1, <1>2, <1>3, CalloutAssumption DEF TypeOK
  <1>5. Sorted' /\ Kept' /\ WakesInTime' /\ Accurate'
    BY <1>1, <1>3 DEF Sorted, Kept, Error, WakesInTime, Accurate
  <1>6. Current' /\ Consistent'
    BY <1>1, <1>3 DEF Current, Consistent
  <1>7. QED
    BY <1>4, <1>5, <1>6 DEF CInv

LEMMA InsertedType ==
    ASSUME TypeOK, NEW e \in Entry, NEW k \in 1 .. Len(callout) + 1
    PROVE  /\ Inserted(e, k) \in Seq(Entry)
           /\ Len(Inserted(e, k)) = Len(callout) + 1
           /\ \A i \in 1 .. Len(callout) + 1 :
                Inserted(e, k)[i] =
                  IF i < k THEN callout[i] ELSE IF i = k THEN e ELSE callout[i - 1]
  <1>1. Len(callout) \in Nat /\ \A i \in 1 .. Len(callout) : callout[i] \in Entry
    BY Types
  <1>2. Inserted(e, k) \in [1 .. Len(callout) + 1 -> Entry]
    <2>1. ASSUME NEW i \in 1 .. Len(callout) + 1
          PROVE  (IF i < k THEN callout[i] ELSE IF i = k THEN e ELSE callout[i - 1]) \in Entry
      BY <1>1
    <2>2. QED
      BY <2>1 DEF Inserted
  <1>3. QED
    BY <1>1, <1>2, FunctionIsSeq DEF Inserted

LEMMA TimeoutKeeps ==
    ASSUME CInv, NEW f \in Funcs, NEW d \in Delays, Timeout(f, d)
    PROVE  CInv'
  <1> DEFINE e == [time |-> clock + d, func |-> f, due |-> uptime + d]
             n == Len(callout)
  <1>1. TypeOK /\ Sorted /\ Kept /\ WakesInTime /\ Accurate /\ Current /\ Consistent
    BY DEF CInv
  <1>2. PICK k \in 1 .. n + 1 :
          /\ \A i \in 1 .. k - 1 : ~Before(e.time, callout[i].time)
          /\ k <= n => Before(e.time, callout[k].time)
          /\ callout' = Inserted(e, k)
    BY DEF Timeout
  <1>3. /\ pc \in {"run", "call"} /\ n < MaxEntries
        /\ upset' = (upset \/ clock - uptime # seen)
        /\ UNCHANGED <<clock, uptime, jumps, diff, start, pc, left, seen, drift, torn>>
    BY DEF Timeout, InProgram, time
  <1>4. d \in Nat /\ clock \in Int /\ uptime \in Int /\ seen \in Int /\ drift \in Nat
        /\ n \in Nat /\ MaxEntries \in Nat
    BY <1>1, Types, CalloutAssumption
  <1>5. e \in Entry /\ e.time = clock + d /\ e.due = uptime + d
    BY <1>4 DEF Entry
  <1> HIDE DEF e
  <1>6. /\ callout' \in Seq(Entry) /\ Len(callout') = n + 1
        /\ \A i \in 1 .. n + 1 :
             callout'[i] = IF i < k THEN callout[i] ELSE IF i = k THEN e ELSE callout[i - 1]
    BY <1>1, <1>2, <1>5, InsertedType
  <1>7. TypeOK'
    BY <1>1, <1>3, <1>4, <1>6 DEF TypeOK
  <1>8. Sorted'
    <2>1. SUFFICES ASSUME ~torn, NEW i \in 1 .. n + 1, NEW j \in 1 .. n + 1, i < j
                   PROVE  callout'[i].time <= callout'[j].time
      BY <1>3, <1>6 DEF Sorted
    <2>2. \A a, b \in 1 .. n : a < b => callout[a].time <= callout[b].time
      BY <1>1, <2>1 DEF Sorted
    <2>3. \A a \in 1 .. n : callout[a].time \in Int
      BY <1>1, Types
    <2>4. \A a \in 1 .. n : a < k => callout[a].time <= e.time
      <3>1. SUFFICES ASSUME NEW a \in 1 .. n, a < k
                     PROVE  callout[a].time <= e.time
        OBVIOUS
      <3>2. ~Before(e.time, callout[a].time)
        BY <3>1, <1>2, <1>4
      <3>3. callout[a].time \in Int /\ e.time \in Int
        BY <2>3, <1>4, <1>5
      <3>4. QED
        BY <3>2, <3>3 DEF Before
    <2>5. \A a \in 1 .. n : k <= a => e.time <= callout[a].time
      <3>1. SUFFICES ASSUME NEW a \in 1 .. n, k <= a
                     PROVE  e.time <= callout[a].time
        OBVIOUS
      <3>2. k \in 1 .. n /\ e.time < callout[k].time
        BY <3>1, <1>2, <1>4 DEF Before
      <3>3. callout[k].time <= callout[a].time
        BY <3>1, <3>2, <2>2, <2>3, <1>4
      <3>4. QED
        BY <3>1, <3>2, <3>3, <2>3, <1>4, <1>5
    <2>6. CASE j < k
      BY <2>1, <2>2, <2>6, <1>4, <1>6
    <2>7. CASE j = k
      BY <2>1, <2>4, <2>7, <1>4, <1>6
    <2>8. CASE k < j /\ i < k
      <3>1. i \in 1 .. n /\ j - 1 \in 1 .. n /\ k <= j - 1
        BY <2>1, <2>8, <1>4
      <3>2. callout[i].time <= e.time /\ e.time <= callout[j - 1].time
        BY <3>1, <2>4, <2>5, <2>8
      <3>3. QED
        BY <3>1, <3>2, <2>1, <2>3, <2>8, <1>4, <1>5, <1>6
    <2>9. CASE k < j /\ i = k
      <3>1. j - 1 \in 1 .. n /\ k <= j - 1
        BY <2>1, <2>9, <1>4
      <3>2. callout'[i] = e /\ callout'[j] = callout[j - 1]
        BY <2>1, <2>9, <1>4, <1>6
      <3>3. QED
        BY <3>1, <3>2, <2>5
    <2>10. CASE k < j /\ k < i
      <3>1. i - 1 \in 1 .. n /\ j - 1 \in 1 .. n /\ i - 1 < j - 1
        BY <2>1, <2>10, <1>4
      <3>2. callout'[i] = callout[i - 1] /\ callout'[j] = callout[j - 1]
        BY <2>1, <2>10, <1>4, <1>6
      <3>3. QED
        BY <3>1, <3>2, <2>2
    <2>11. QED
      BY <2>6, <2>7, <2>8, <2>9, <2>10, <1>4
  <1>9. Kept'
    <2>1. SUFFICES ASSUME ~upset, clock - uptime = seen
                   PROVE  /\ Error(start) <= drift
                          /\ \A i \in 1 .. n + 1 : Error(callout'[i]) <= drift
      BY <1>3, <1>6 DEF Kept, Error
    <2>2. Error(start) <= drift /\ \A i \in 1 .. n : Error(callout[i]) <= drift
      BY <1>1, <2>1 DEF Kept
    <2>3. Error(e) <= drift
      BY <1>4, <1>5, <2>1 DEF Error, Abs
    <2>4. ASSUME NEW i \in 1 .. n + 1 PROVE Error(callout'[i]) <= drift
      <3>1. callout'[i] = e \/ \E a \in 1 .. n : callout'[i] = callout[a]
        BY <1>4, <1>6
      <3>2. QED
        BY <3>1, <2>2, <2>3
    <2>5. QED
      BY <2>2, <2>4
  <1>10. WakesInTime' /\ Accurate' /\ Current' /\ Consistent'
    BY <1>1, <1>3 DEF WakesInTime, Accurate, Current, Consistent
  <1>11. QED
    BY <1>7, <1>8, <1>9, <1>10 DEF CInv

LEMMA UntimeoutKeeps ==
    ASSUME CInv, NEW f \in Funcs, Untimeout(f)
    PROVE  CInv'
  <1> DEFINE n == Len(callout)
  <1>1. TypeOK /\ Sorted /\ Kept /\ WakesInTime /\ Accurate /\ Current /\ Consistent
    BY DEF CInv
  <1>2. PICK k \in 1 .. n : callout' = Without(k)
    BY DEF Untimeout
  <1>3. /\ pc \in {"run", "call"}
        /\ UNCHANGED <<clock, uptime, jumps, diff, start, pc, left, seen, drift, upset, torn>>
    BY DEF Untimeout, InProgram, time, history
  <1>4. n \in Nat /\ \A i \in 1 .. n : callout[i] \in Entry
    BY <1>1, Types
  <1>5. \A i \in 1 .. n - 1 :
          callout'[i] = IF i < k THEN callout[i] ELSE callout[i + 1]
    BY <1>2 DEF Without
  <1>6. callout' \in [1 .. n - 1 -> Entry]
    BY <1>2, <1>4 DEF Without
  <1>7. n - 1 \in Nat /\ callout' \in Seq(Entry) /\ Len(callout') = n - 1
    BY <1>4, <1>6, FunctionIsSeq
  <1>8. TypeOK'
    BY <1>1, <1>3, <1>4, <1>7, CalloutAssumption DEF TypeOK
  <1>9. Sorted'
    <2>1. SUFFICES ASSUME ~torn, NEW i \in 1 .. n - 1, NEW j \in 1 .. n - 1, i < j
                   PROVE  callout'[i].time <= callout'[j].time
      BY <1>3, <1>7 DEF Sorted
    <2>2. PICK a \in 1 .. n, b \in 1 .. n :
            a < b /\ callout'[i] = callout[a] /\ callout'[j] = callout[b]
      BY <2>1, <1>4, <1>5
    <2>3. QED
      BY <1>1, <2>1, <2>2 DEF Sorted
  <1>10. Kept'
    <2>1. SUFFICES ASSUME ~upset
                   PROVE  /\ Error(start) <= drift
                          /\ \A i \in 1 .. n - 1 : Error(callout'[i]) <= drift
      BY <1>3, <1>7 DEF Kept, Error
    <2>2. Error(start) <= drift /\ \A i \in 1 .. n : Error(callout[i]) <= drift
      BY <1>1, <2>1 DEF Kept
    <2>3. \A i \in 1 .. n - 1 : \E a \in 1 .. n : callout'[i] = callout[a]
      BY <1>4, <1>5
    <2>4. QED
      BY <2>2, <2>3
  <1>11. WakesInTime' /\ Accurate' /\ Current' /\ Consistent'
    BY <1>1, <1>3 DEF WakesInTime, Accurate, Current, Consistent
  <1>12. QED
    BY <1>8, <1>9, <1>10, <1>11 DEF CInv

LEMMA StartLinkKeeps == ASSUME CInv, StartLink PROVE CInv'
  <1>1. TypeOK /\ Kept /\ Accurate /\ Current /\ Consistent
    BY DEF CInv
  <1>2. /\ pc = "run"
        /\ diff' = NewDiff /\ callout' = AllMoved /\ Noticed
        /\ start' = [time |-> clock, due |-> uptime]
        /\ UNCHANGED <<clock, uptime, jumps, pc, left>>
    BY DEF StartLink, time
  <1>3. /\ diff' \in Int /\ seen' = clock - uptime /\ seen' \in Int
        /\ drift' \in Nat /\ upset' = upset /\ torn' = torn
        /\ callout' \in Seq(Entry) /\ Len(callout') = Len(callout)
        /\ Accurate' /\ Sorted'
        /\ ~upset => \A i \in 1 .. Len(callout) :
                       Abs(callout'[i].time - callout'[i].due - seen') <= drift'
    BY <1>2, Checked
  <1>4. clock \in Int /\ uptime \in Int /\ Len(callout) \in Nat
    BY <1>1, Types
  <1>5. start' \in Moment /\ start'.time = clock /\ start'.due = uptime
    BY <1>2, <1>4 DEF Moment
  <1>6. TypeOK'
    BY <1>1, <1>2, <1>3, <1>5 DEF TypeOK
  <1>7. Abs(start'.time - start'.due - seen') <= drift'
    BY <1>3, <1>4, <1>5 DEF Abs
  <1>8. Kept'
    BY <1>3, <1>7 DEF Kept, Error
  <1>9. WakesInTime' /\ Current' /\ Consistent'
    BY <1>1, <1>2, <1>3 DEF WakesInTime, Current, Consistent
  <1>10. QED
    BY <1>3, <1>6, <1>8, <1>9 DEF CInv

LEMMA ResetLinkStatsKeeps == ASSUME CInv, ResetLinkStats PROVE CInv'
  <1>1. TypeOK /\ Sorted /\ Kept /\ WakesInTime /\ Accurate /\ Current /\ Consistent
    BY DEF CInv
  <1>2. /\ pc \in {"run", "call"}
        /\ start' = [time |-> clock, due |-> uptime]
        /\ upset' = (upset \/ clock - uptime # seen)
        /\ UNCHANGED <<clock, uptime, jumps, diff, callout, pc, left, seen, drift, torn>>
    BY DEF ResetLinkStats, InProgram, time
  <1>3. clock \in Int /\ uptime \in Int /\ seen \in Int /\ drift \in Nat
    BY <1>1, Types
  <1>4. start' \in Moment /\ start'.time = clock /\ start'.due = uptime
    BY <1>2, <1>3 DEF Moment
  <1>5. TypeOK'
    BY <1>1, <1>2, <1>4 DEF TypeOK
  <1>6. Kept'
    <2>1. SUFFICES ASSUME ~upset, clock - uptime = seen
                   PROVE  /\ Error(start)' <= drift
                          /\ \A i \in 1 .. Len(callout) : Error(callout[i]) <= drift
      BY <1>2 DEF Kept, Error
    <2>2. Error(start)' <= drift
      BY <1>2, <1>3, <1>4, <2>1 DEF Error, Abs
    <2>3. QED
      BY <1>1, <2>1, <2>2 DEF Kept
  <1>7. Sorted' /\ WakesInTime' /\ Accurate' /\ Current' /\ Consistent'
    BY <1>1, <1>2 DEF Sorted, WakesInTime, Accurate, Current, Consistent
  <1>8. QED
    BY <1>5, <1>6, <1>7 DEF CInv

(* What the two actions have in common that run the whole of check_time. *)
LEMMA CheckTimeKeeps ==
    ASSUME CInv, CheckTime, UNCHANGED <<clock, uptime, jumps>>,
           pc' \in {"wait", "fire"}, left' \in Nat \cup {Never}
    PROVE  /\ TypeOK' /\ Sorted' /\ Kept' /\ Accurate' /\ Current'
           /\ Len(callout') = Len(callout)
           /\ seen' = clock - uptime /\ (torn' => upset')
  <1>1. TypeOK /\ Consistent
    BY DEF CInv
  <1>2. diff' = NewDiff /\ callout' = AllMoved /\ start' = Moved(start) /\ Noticed
    BY DEF CheckTime
  <1>3. /\ diff' \in Int /\ seen' = clock - uptime /\ seen' \in Int
        /\ drift' \in Nat /\ upset' = upset /\ torn' = torn
        /\ callout' \in Seq(Entry) /\ Len(callout') = Len(callout)
        /\ Accurate' /\ Sorted' /\ start' \in Moment
        /\ ~upset => \A i \in 1 .. Len(callout) :
                       Abs(callout'[i].time - callout'[i].due - seen') <= drift'
        /\ ~upset => Abs(start'.time - start'.due - seen') <= drift'
    BY <1>2, Checked
  <1>4. TypeOK'
    BY <1>1, <1>3 DEF TypeOK
  <1>5. Kept'
    BY <1>3 DEF Kept, Error
  <1>6. Current'
    BY <1>3 DEF Current
  <1>7. QED
    BY <1>1, <1>3, <1>4, <1>5, <1>6 DEF Consistent

LEMMA SleepBound ==
    ASSUME NEW first \in Int, NEW at \in Int, NEW due \in Int, NEW now \in Int,
           NEW up \in Int, NEW d \in Nat,
           first <= at, Abs(at - due - (now - up)) <= d
    PROVE  Max2(first - now, 0) <= Max2(due - up, 0) + d
  BY DEF Max2, Abs

LEMMA WaitKeeps == ASSUME CInv, Wait PROVE CInv'
  <1>1. TypeOK /\ Sorted /\ Kept /\ WakesInTime /\ Accurate /\ Current /\ Consistent
    BY DEF CInv
  <1>2. pc = "run" /\ pc' = "wait" /\ UNCHANGED <<clock, uptime, jumps>>
    BY DEF Wait, time
  <1>3. CASE callout = <<>>
    <2>1. left' = Never /\ UNCHANGED <<diff, callout, start, seen, drift, upset, torn>>
      BY <1>3 DEF Wait, list, history
    <2>2. TypeOK'
      BY <1>1, <1>2, <2>1 DEF TypeOK
    <2>3. Sorted' /\ Kept' /\ Accurate'
      BY <1>1, <2>1 DEF Sorted, Kept, Error, Accurate
    <2>4. WakesInTime' /\ Current' /\ Consistent'
      BY <1>1, <1>2, <1>3, <2>1 DEF WakesInTime, Current, Consistent
    <2>5. QED
      BY <2>2, <2>3, <2>4 DEF CInv
  <1>4. CASE callout # <<>>
    <2>1. CheckTime /\ left' = Max2(callout'[1].time - clock, 0)
      BY <1>4 DEF Wait, Timeleft
    <2>2. 1 \in 1 .. Len(callout)
      BY <1>1, <1>4 DEF TypeOK
    <2>3. callout'[1].time \in Int
      <3>1. callout' = AllMoved
        BY <2>1 DEF CheckTime
      <3>2. callout'[1] \in Entry
        BY <3>1, <1>1, <2>2, AllMovedType, SeqIsFunction
      <3>3. QED
        BY <3>2 DEF Entry
    <2>4. left' \in Nat
      BY <1>1, <2>1, <2>3, Types DEF Max2
    <2>5. /\ TypeOK' /\ Sorted' /\ Kept' /\ Accurate' /\ Current'
          /\ Len(callout') = Len(callout)
          /\ seen' = clock - uptime /\ (torn' => upset')
      BY <1>2, <2>1, <2>4, CheckTimeKeeps
    <2>6. Consistent'
      BY <2>4, <2>5 DEF Consistent
    <2>7. WakesInTime'
      <3>1. SUFFICES ASSUME ~upset', NEW i \in 1 .. Len(callout)
                     PROVE  left' <= Max2(callout'[i].due - uptime, 0) + drift'
        BY <1>2, <2>5 DEF WakesInTime
      <3>2. /\ clock \in Int /\ uptime \in Int /\ drift' \in Nat
            /\ callout'[i].time \in Int /\ callout'[i].due \in Int
        <4>1. callout'[i] \in Entry
          BY <3>1, <2>5, SeqIsFunction DEF TypeOK
        <4>2. QED
          BY <4>1, <1>1, <2>5, Types DEF TypeOK, Entry
      <3>3. callout'[1].time <= callout'[i].time
        <4>1. CASE i = 1
          BY <4>1, <2>3
        <4>2. CASE 1 < i
          BY <4>2, <3>1, <2>2, <2>5 DEF Sorted
        <4>3. QED
          BY <3>1, <4>1, <4>2
      <3>4. Abs(callout'[i].time - callout'[i].due - (clock - uptime)) <= drift'
        BY <3>1, <2>5 DEF Kept, Error
      <3>5. QED
        BY <2>1, <2>3, <3>2, <3>3, <3>4, SleepBound
    <2>8. QED
      BY <2>5, <2>6, <2>7 DEF CInv
  <1>5. QED
    BY <1>3, <1>4

LEMMA SignalInCheckTimeKeeps ==
    ASSUME CInv, NEW k \in 0 .. MaxEntries, SignalInCheckTime(k)
    PROVE  CInv'
  <1>1. TypeOK /\ Accurate
    BY DEF CInv
  <1>2. /\ pc' = "wait" /\ left' = 0 /\ upset' = TRUE
        /\ torn' = (torn \/ k \in 1 .. Len(callout) - 1)
        /\ k \in Nat /\ k <= Len(callout)
        /\ callout' = [i \in 1 .. Len(callout) |->
                         IF i <= k THEN Moved(callout[i]) ELSE callout[i]]
        /\ start' = Moved(start)
        /\ UNCHANGED <<clock, uptime, jumps, diff, seen, drift>>
    BY CalloutAssumption DEF SignalInCheckTime, time
  <1>3. /\ clock \in Int /\ uptime \in Int /\ diff \in Int \cup {Never}
        /\ start \in Moment /\ Len(callout) \in Nat
        /\ \A i \in 1 .. Len(callout) : callout[i] \in Entry
    BY <1>1, Types DEF TypeOK
  <1>4. start' \in Moment /\ \A i \in 1 .. Len(callout) : Moved(callout[i]) \in Entry
    BY <1>2, <1>3, MovedType
  <1>5. callout' \in [1 .. Len(callout) -> Entry]
    BY <1>2, <1>3, <1>4
  <1>6. callout' \in Seq(Entry) /\ Len(callout') = Len(callout)
    BY <1>3, <1>5, FunctionIsSeq
  <1>7. TypeOK'
    BY <1>1, <1>2, <1>4, <1>6 DEF TypeOK
  <1>8. Sorted'
    <2> SUFFICES ASSUME ~torn', NEW i \in 1 .. Len(callout), NEW j \in 1 .. Len(callout), i < j
                 PROVE  callout'[i].time <= callout'[j].time
      BY <1>6 DEF Sorted
    <2>1. ~torn /\ k \notin 1 .. Len(callout) - 1
      BY <1>1, <1>2 DEF TypeOK
    <2>2. callout[i].time <= callout[j].time
      BY <2>1 DEF CInv, Sorted
    <2>3. callout[i].time \in Int /\ callout[j].time \in Int
      BY <1>3 DEF Entry
    <2>4. CASE k = 0
      <3>1. callout'[i] = callout[i] /\ callout'[j] = callout[j]
        BY <1>2, <2>4
      <3>2. QED
        BY <2>2, <3>1
    <2>5. CASE k = Len(callout)
      <3>1. callout'[i] = Moved(callout[i]) /\ callout'[j] = Moved(callout[j])
        BY <1>2, <1>3, <2>5
      <3>2. /\ Correction * Second \in Int
            /\ Moved(callout[i]).time = callout[i].time + Correction * Second
            /\ Moved(callout[j]).time = callout[j].time + Correction * Second
        BY <1>3, MovedType, CalloutAssumption
      <3>3. QED
        BY <2>2, <2>3, <3>1, <3>2
    <2>6. QED
      BY <1>2, <1>3, <2>1, <2>4, <2>5
  <1>9. Kept' /\ WakesInTime' /\ Accurate' /\ Current' /\ Consistent'
    BY <1>1, <1>2 DEF Kept, WakesInTime, Accurate, Current, Consistent
  <1>10. QED
    BY <1>7, <1>8, <1>9 DEF CInv

LEMMA CallTimeoutKeeps == ASSUME CInv, CallTimeout PROVE CInv'
  <1>1. /\ pc' = "fire" /\ left' = Never /\ CheckTime
        /\ UNCHANGED <<clock, uptime, jumps>>
    BY DEF CallTimeout, time
  <1>2. /\ TypeOK' /\ Sorted' /\ Kept' /\ Accurate' /\ Current' /\ (torn' => upset')
    BY <1>1, CheckTimeKeeps
  <1>3. WakesInTime' /\ Consistent'
    BY <1>1, <1>2 DEF WakesInTime, Consistent
  <1>4. QED
    BY <1>2, <1>3 DEF CInv

LEMMA FireKeeps == ASSUME CInv, Fire PROVE CInv'
  <1> DEFINE n == Len(callout)
  <1>1. TypeOK /\ Sorted /\ Kept /\ WakesInTime /\ Accurate /\ Current /\ Consistent
    BY DEF CInv
  <1>2. /\ pc = "fire" /\ pc' = "call" /\ callout # <<>> /\ callout' = Tail(callout)
        /\ UNCHANGED <<clock, uptime, jumps, diff, start, left, seen, drift, upset, torn>>
    BY DEF Fire, Due, time, history
  <1>3. /\ n \in Nat /\ n # 0 /\ Len(callout') = n - 1 /\ callout' \in Seq(Entry)
        /\ \A i \in 1 .. n - 1 : callout'[i] = callout[i + 1]
    BY <1>1, <1>2 DEF TypeOK
  <1>4. TypeOK'
    BY <1>1, <1>2, <1>3, CalloutAssumption DEF TypeOK
  <1>5. Sorted'
    <2>1. SUFFICES ASSUME ~torn, NEW i \in 1 .. n - 1, NEW j \in 1 .. n - 1, i < j
                   PROVE  callout'[i].time <= callout'[j].time
      BY <1>2, <1>3 DEF Sorted
    <2>2. i + 1 \in 1 .. n /\ j + 1 \in 1 .. n /\ i + 1 < j + 1
      BY <2>1, <1>3
    <2>3. QED
      BY <1>1, <1>3, <2>1, <2>2 DEF Sorted
  <1>6. Kept'
    <2>1. SUFFICES ASSUME ~upset
                   PROVE  /\ Error(start) <= drift
                          /\ \A i \in 1 .. n - 1 : Error(callout'[i]) <= drift
      BY <1>2, <1>3 DEF Kept, Error
    <2>2. Error(start) <= drift /\ \A i \in 1 .. n : Error(callout[i]) <= drift
      BY <1>1, <2>1 DEF Kept
    <2>3. \A i \in 1 .. n - 1 : i + 1 \in 1 .. n
      BY <1>3
    <2>4. QED
      BY <1>3, <2>2, <2>3
  <1>7. WakesInTime' /\ Accurate' /\ Current' /\ Consistent'
    BY <1>1, <1>2 DEF WakesInTime, Accurate, Current, Consistent
  <1>8. QED
    BY <1>4, <1>5, <1>6, <1>7 DEF CInv

LEMMA ReturnLeaveKeeps == ASSUME CInv, Return \/ Leave PROVE CInv'
  <1>1. TypeOK /\ Sorted /\ Kept /\ WakesInTime /\ Accurate /\ Current /\ Consistent
    BY DEF CInv
  <1>2. /\ pc \in {"call", "fire"} /\ pc' \in {"fire", "run"}
        /\ UNCHANGED <<clock, uptime, jumps, diff, callout, start, left,
                       seen, drift, upset, torn>>
    BY DEF Return, Leave, time, list, history
  <1>3. TypeOK'
    BY <1>1, <1>2 DEF TypeOK
  <1>4. Sorted' /\ Kept' /\ Accurate'
    BY <1>1, <1>2 DEF Sorted, Kept, Error, Accurate
  <1>5. WakesInTime' /\ Current' /\ Consistent'
    BY <1>1, <1>2 DEF WakesInTime, Current, Consistent
  <1>6. QED
    BY <1>3, <1>4, <1>5 DEF CInv

LEMMA StepCInv == CInv /\ [Next]_vars => CInv'
  <1> SUFFICES ASSUME CInv, [Next]_vars PROVE CInv'
    OBVIOUS
  <1>1. CASE Tick \/ Jump
    BY <1>1, TickKeeps, JumpKeeps
  <1>2. CASE \E f \in Funcs : Untimeout(f) \/ \E d \in Delays : Timeout(f, d)
    BY <1>2, UntimeoutKeeps, TimeoutKeeps
  <1>3. CASE StartLink \/ ResetLinkStats \/ Wait \/ CallTimeout
    BY <1>3, StartLinkKeeps, ResetLinkStatsKeeps, WaitKeeps, CallTimeoutKeeps
  <1>4. CASE \E k \in 0 .. MaxEntries : SignalInCheckTime(k)
    BY <1>4, SignalInCheckTimeKeeps
  <1>5. CASE Fire \/ Return \/ Leave
    BY <1>5, FireKeeps, ReturnLeaveKeeps
  <1>6. CASE UNCHANGED vars
    <2>1. UNCHANGED <<clock, uptime, jumps, diff, callout, start, pc, left,
                      seen, drift, upset, torn>>
      BY <1>6 DEF vars, time, list, history
    <2>2. QED
      BY <2>1 DEF CInv, TypeOK, Sorted, Kept, Error, WakesInTime, Accurate,
                  Current, Consistent
  <1>7. QED
    BY <1>1, <1>2, <1>3, <1>4, <1>5, <1>6 DEF Next

-----------------------------------------------------------------------------
(* CInv holds throughout. *)
THEOREM Inductive == Spec => []CInv
  BY InitCInv, StepCInv, PTL DEF Spec

(* The callout list, the clock and the history keep their types. *)
THEOREM TypeCorrect == Spec => []TypeOK
  <1>1. CInv => TypeOK
    BY DEF CInv
  <1>2. QED
    BY <1>1, Inductive, PTL

(* The list is in order of time whatever is entered, cancelled and corrected. *)
THEOREM SortedCorrect == Spec => []Sorted
  <1>1. CInv => Sorted
    BY DEF CInv
  <1>2. QED
    BY <1>1, Inductive, PTL

(* The corrections of check_time keep every entry and start_time within drift
   of the uptime they stand for. *)
THEOREM KeptCorrect == Spec => []Kept
  <1>1. CInv => Kept
    BY DEF CInv
  <1>2. QED
    BY <1>1, Inductive, PTL

(* select returns before the first of the calls is late by more than drift. *)
THEOREM WakesInTimeCorrect == Spec => []WakesInTime
  <1>1. CInv => WakesInTime
    BY DEF CInv
  <1>2. QED
    BY <1>1, Inductive, PTL

(* calltimeout takes no function off the list before its time. *)
THEOREM NeverEarlyCorrect == Spec => NeverEarly
  <1>1. ASSUME CInv, [Next]_vars
        PROVE  [pc = "fire" /\ pc' = "call" /\ ~upset => callout[1].due <= uptime + drift]_vars
    <2>1. SUFFICES ASSUME pc = "fire", pc' = "call", ~upset
                   PROVE  callout[1].due <= uptime + drift
      OBVIOUS
    <2>2. Fire
      BY <1>1, <2>1 DEF Next, vars, time, list, history, Tick, Jump, Untimeout, Timeout,
         StartLink, ResetLinkStats, Wait, CallTimeout, SignalInCheckTime, Return, Leave, InProgram
    <2>3. callout # <<>> /\ callout[1].time <= clock
      BY <2>2 DEF Fire, Due
    <2>4. TypeOK /\ Kept /\ seen = clock - uptime
      BY <1>1, <2>1 DEF CInv, Current
    <2>5. 1 \in 1 .. Len(callout)
      BY <2>3, <2>4 DEF TypeOK
    <2>6. /\ clock \in Int /\ uptime \in Int /\ drift \in Nat
          /\ callout[1].time \in Int /\ callout[1].due \in Int
      BY <2>4, <2>5, Types
    <2>7. Abs(callout[1].time - callout[1].due - (clock - uptime)) <= drift
      BY <2>1, <2>4, <2>5 DEF Kept, Error
    <2>8. QED
      BY <2>3, <2>6, <2>7 DEF Abs
  <1>2. QED
    BY <1>1, Inductive, PTL DEF Spec, NeverEarly

(* calltimeout leaves no entry behind that is late by drift or more. *)
THEOREM NoneOverdueCorrect == Spec => NoneOverdue
  <1>1. ASSUME CInv, [Next]_vars
        PROVE  [pc' = "run" /\ pc \in {"fire", "call"} /\ ~upset =>
                  \A i \in 1 .. Len(callout) : uptime < callout[i].due + drift]_vars
    <2>1. SUFFICES ASSUME pc' = "run", pc \in {"fire", "call"}, ~upset,
                          NEW i \in 1 .. Len(callout), vars' # vars
                   PROVE  uptime < callout[i].due + drift
      OBVIOUS
    <2>2. Leave
      BY <1>1, <2>1 DEF Next, vars, time, list, history, Tick, Jump, Untimeout, Timeout,
         StartLink, ResetLinkStats, Wait, CallTimeout, SignalInCheckTime, Return, Fire, InProgram
    <2>3. /\ TypeOK /\ Sorted /\ Kept /\ ~torn /\ seen = clock - uptime
      BY <1>1, <2>1 DEF CInv, Current, Consistent
    <2>4. 1 \in 1 .. Len(callout) /\ clock < callout[1].time
      <3>1. Len(callout) \in Nat /\ callout # <<>> /\ 1 \in 1 .. Len(callout)
        BY <2>1, <2>3 DEF TypeOK
      <3>2. QED
        BY <3>1, <2>2, <2>3, Types DEF Leave, Due
    <2>5. /\ clock \in Int /\ uptime \in Int /\ drift \in Nat
          /\ callout[1].time \in Int
          /\ callout[i].time \in Int /\ callout[i].due \in Int
      BY <2>1, <2>3, <2>4, Types
    <2>6. callout[1].time <= callout[i].time
      <3>1. CASE i = 1
        BY <3>1, <2>5
      <3>2. CASE 1 < i
        BY <3>2, <2>1, <2>3, <2>4 DEF Sorted
      <3>3. QED
        BY <2>1, <3>1, <3>2
    <2>7. Abs(callout[i].time - callout[i].due - (clock - uptime)) <= drift
      BY <2>1, <2>3 DEF Kept, Error
    <2>8. callout[i].time - callout[i].due - (clock - uptime) <= drift
      BY <2>5, <2>7, AtMost
    <2>9. QED
      BY <2>4, <2>5, <2>6, <2>8
  <1>2. QED
    BY <1>1, Inductive, PTL DEF Spec, NoneOverdue
=============================================================================
