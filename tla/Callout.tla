------------------------------- MODULE Callout -------------------------------
(***************************************************************************)
(* The callout list of pppd (main.c): functions to be called at a time of  *)
(* the system clock, in order of time.                                     *)
(*                                                                         *)
(* The system clock may be set.  check_time compares it with the uptime of *)
(* the kernel and moves the times in the list along when the difference    *)
(* has changed by more than Tolerance seconds.                             *)
(*                                                                         *)
(* Times are in ticks, Second of them to a second: the pairs of seconds    *)
(* and microseconds of the program, which it keeps normalised and compares *)
(* in lexicographic order.                                                 *)
(***************************************************************************)
EXTENDS Integers, Sequences

CONSTANTS
    Funcs,      \* functions with their argument
    Delays,     \* ticks after which a call may be wanted
    Jumps,      \* ticks by which the clock may be set
    Second,     \* ticks in a second
    Tolerance,  \* 5 seconds
    Never,      \* timeleft returns NULL; no difference is known yet
    MaxEntries, \* bound on the length of the list
    MaxUptime,  \* bound on the ticks that pass
    MaxJumps    \* bound on the number of times the clock is set

ASSUME CalloutAssumption ==
    /\ Delays \subseteq Nat /\ Jumps \subseteq Int
    /\ Second \in Nat \ {0} /\ Tolerance \in Nat \ {0}
    /\ Never \notin Int
    /\ MaxEntries \in Nat /\ MaxUptime \in Nat /\ MaxJumps \in Nat

VARIABLES
    clock,    \* gettimeofday
    uptime,   \* sysinfo
    diff,     \* uptime_diff, in seconds
    callout,  \* the list
    start,    \* start_time
    pc,       \* run, wait (in select), fire (in calltimeout), call (in a function)
    left,     \* what is left of the wait
    jumps,    \* how often the clock was set
    seen,     \* history: clock - uptime when check_time last ran
    drift,    \* history: by how much the times may be wrong
    upset,    \* history: was the list used while the clock had just been set?
    torn      \* history: was check_time cut short between two entries?

time == <<clock, uptime, jumps>>
list == <<diff, callout, start>>
history == <<seen, drift, upset, torn>>
vars == <<time, list, pc, left, history>>

\* c_time and c_func; due is the uptime at which the call is wanted.
Entry == [time : Int, func : Funcs, due : Int]
Moment == [time : Int, due : Int]

Abs(n) == IF n < 0 THEN -n ELSE n
Max2(m, n) == IF m < n THEN n ELSE m

Init ==
    /\ clock = 10 * Second /\ uptime = 0 /\ jumps = 0
    /\ diff = Never /\ callout = <<>>
    /\ start = [time |-> clock, due |-> 0]
    /\ pc = "run" /\ left = Never
    /\ seen = clock /\ drift = 0 /\ upset = FALSE /\ torn = FALSE
-----------------------------------------------------------------------------
\* The world
Tick ==
    /\ uptime < MaxUptime
    /\ pc = "wait" => left # 0
    /\ clock' = clock + 1 /\ uptime' = uptime + 1
    /\ left' = IF pc = "wait" /\ left # Never THEN left - 1 ELSE left
    /\ UNCHANGED <<jumps, list, pc, history>>

\* Nothing looks at the clock again before the functions that are due are
\* called: from there to the end of calltimeout the list is upset.
Jump ==
    /\ jumps < MaxJumps
    /\ \E j \in Jumps : clock' = clock + j
    /\ jumps' = jumps + 1
    /\ upset' = (upset \/ pc \in {"fire", "call"})
    /\ UNCHANGED <<uptime, list, pc, left, seen, drift, torn>>
-----------------------------------------------------------------------------
NewDiff == (clock \div Second) - (uptime \div Second)

\* new_diff - uptime_diff, when it is worth a correction
Correction ==
    IF diff # Never /\ Abs(NewDiff - diff) > Tolerance THEN NewDiff - diff ELSE 0

Moved(m) == [m EXCEPT !.time = @ + Correction * Second]
AllMoved == [i \in 1 .. Len(callout) |-> Moved(callout[i])]

\* What a jump may cost: all of it when it is small, less than two seconds
\* of rounding when it is not
Cost(j) ==
    IF j = 0 THEN 0
    ELSE IF diff # Never /\ Abs(j) > (Tolerance + 2) * Second THEN 2 * Second - 1
    ELSE Max2(Abs(j), 2 * Second - 1)

Noticed ==
    /\ seen' = clock - uptime
    /\ drift' = drift + Cost(clock - uptime - seen)
    /\ UNCHANGED <<upset, torn>>

\* Mutant: uptime_diff is left alone when the times are moved
CheckTimeKeepsDiff ==
    /\ diff' = IF diff = Never \/ Correction = 0 THEN NewDiff ELSE diff
    /\ callout' = AllMoved
    /\ start' = Moved(start)
    /\ Noticed

CheckTime ==
    /\ diff' = NewDiff
    /\ callout' = AllMoved
    /\ start' = Moved(start)
    /\ Noticed

InProgram == pc \in {"run", "call"}

\* Mutant: only the seconds are compared
BeforeBySeconds(s, t) == s \div Second < t \div Second

Before(s, t) == s < t

\* Behind the entries that are not later
Inserted(e, k) ==
    [i \in 1 .. Len(callout) + 1 |->
       IF i < k THEN callout[i] ELSE IF i = k THEN e ELSE callout[i - 1]]

Timeout(f, d) ==
    /\ InProgram /\ Len(callout) < MaxEntries
    /\ LET e == [time |-> clock + d, func |-> f, due |-> uptime + d]
       IN \E k \in 1 .. Len(callout) + 1 :
            /\ \A i \in 1 .. k - 1 : ~Before(e.time, callout[i].time)
            /\ k <= Len(callout) => Before(e.time, callout[k].time)
            /\ callout' = Inserted(e, k)
    /\ upset' = (upset \/ clock - uptime # seen)
    /\ UNCHANGED <<time, diff, start, pc, left, seen, drift, torn>>

Without(k) ==
    [i \in 1 .. Len(callout) - 1 |-> IF i < k THEN callout[i] ELSE callout[i + 1]]

\* The first entry of the function, if there is one
Untimeout(f) ==
    /\ InProgram
    /\ \E k \in 1 .. Len(callout) :
         /\ callout[k].func = f
         /\ \A i \in 1 .. k - 1 : callout[i].func # f
         /\ callout' = Without(k)
    /\ UNCHANGED <<time, diff, start, pc, left, history>>

\* main() sets start_time before it starts the link.
StartLink ==
    /\ pc = "run"
    /\ diff' = NewDiff
    /\ callout' = AllMoved
    /\ start' = [time |-> clock, due |-> uptime]
    /\ Noticed
    /\ UNCHANGED <<time, pc, left>>

\* reset_link_stats sets it anew when the network is up.  It does not look at
\* the uptime.
ResetLinkStats ==
    /\ InProgram
    /\ start' = [time |-> clock, due |-> uptime]
    /\ upset' = (upset \/ clock - uptime # seen)
    /\ UNCHANGED <<time, diff, callout, pc, left, seen, drift, torn>>

Timeleft(now, at) == Max2(at - now, 0)

\* Mutant: the clock is not looked at before the wait
WaitUnchecked ==
    /\ pc = "run" /\ pc' = "wait"
    /\ left' = IF callout = <<>> THEN Never ELSE Timeleft(clock, callout[1].time)
    /\ UNCHANGED <<time, list, history>>

\* handle_events: timeleft and select
Wait ==
    /\ pc = "run" /\ pc' = "wait"
    /\ IF callout = <<>>
         THEN left' = Never /\ UNCHANGED <<list, history>>
         ELSE CheckTime /\ left' = Timeleft(clock, callout'[1].time)
    /\ UNCHANGED time

\* waiting is set before timeleft runs.  A signal in check_time leaves by
\* siglongjmp when start_time and the first k entries, none or all of them too, are
\* moved and uptime_diff is not set.
SignalInCheckTime(k) ==
    /\ pc = "run" /\ pc' = "wait" /\ left' = 0
    /\ Correction # 0 /\ callout # <<>> /\ k <= Len(callout)
    /\ callout' = [i \in 1 .. Len(callout) |->
                     IF i <= k THEN Moved(callout[i]) ELSE callout[i]]
    /\ start' = Moved(start)
    /\ torn' = (torn \/ k \in 1 .. Len(callout) - 1) /\ upset' = TRUE
    /\ UNCHANGED <<time, diff, seen, drift>>

\* Mutant: calltimeout takes the clock as it is
CallTimeoutUnchecked ==
    /\ pc = "wait" /\ pc' = "fire"
    /\ left' = Never
    /\ UNCHANGED <<time, list, history>>

\* select returns: time is up, a frame, a signal
CallTimeout ==
    /\ pc = "wait" /\ pc' = "fire"
    /\ CheckTime
    /\ left' = Never
    /\ UNCHANGED time

Due == callout # <<>> /\ callout[1].time <= clock

Fire ==
    /\ pc = "fire" /\ Due
    /\ pc' = "call"
    /\ callout' = Tail(callout)
    /\ UNCHANGED <<time, diff, start, left, history>>

\* Mutant: one function in a turn
ReturnLeaves ==
    /\ pc = "call" /\ pc' = "run"
    /\ UNCHANGED <<time, list, left, history>>

Return ==
    /\ pc = "call" /\ pc' = "fire"
    /\ UNCHANGED <<time, list, left, history>>

Leave ==
    /\ pc = "fire" /\ ~Due
    /\ pc' = "run"
    /\ UNCHANGED <<time, list, left, history>>

Next ==
    \/ Tick \/ Jump
    \/ \E f \in Funcs : Untimeout(f) \/ \E d \in Delays : Timeout(f, d)
    \/ StartLink \/ ResetLinkStats \/ Wait \/ CallTimeout
    \/ \E k \in 0 .. MaxEntries : SignalInCheckTime(k)
    \/ Fire \/ Return \/ Leave

Spec == Init /\ [][Next]_vars
-----------------------------------------------------------------------------
TypeOK ==
    /\ clock \in Int /\ uptime \in 0 .. MaxUptime /\ jumps \in 0 .. MaxJumps
    /\ diff \in Int \cup {Never}
    /\ callout \in Seq(Entry) /\ Len(callout) <= MaxEntries
    /\ start \in Moment
    /\ pc \in {"run", "wait", "fire", "call"}
    /\ left \in Nat \cup {Never}
    /\ seen \in Int /\ drift \in Nat
    /\ upset \in BOOLEAN /\ torn \in BOOLEAN

(* The list is in order of time, across corrections of the clock and calls
   that are entered and cancelled while others are made. *)
Sorted ==
    ~torn => \A i, j \in 1 .. Len(callout) : i < j => callout[i].time <= callout[j].time

Error(m) == Abs(m.time - m.due - seen)

(* The times in the list, and the start of the link, stay what was asked for,
   up to the jumps that are too small for a correction and two seconds for
   every other. *)
Kept ==
    ~upset =>
      /\ Error(start) <= drift
      /\ \A i \in 1 .. Len(callout) : Error(callout[i]) <= drift

(* pppd does not sleep past a call. *)
WakesInTime ==
    pc = "wait" /\ ~upset =>
      \A i \in 1 .. Len(callout) : left <= Max2(callout[i].due - uptime, 0) + drift

(* No function is called before its time. *)
NeverEarly ==
    [][pc = "fire" /\ pc' = "call" /\ ~upset => callout[1].due <= uptime + drift]_vars

(* When the functions have been called, none is left that should have been. *)
NoneOverdue ==
    [][pc' = "run" /\ pc \in {"fire", "call"} /\ ~upset =>
         \A i \in 1 .. Len(callout) : uptime < callout[i].due + drift]_vars
=============================================================================
