---------------------------- MODULE ConfigProofs ----------------------------
(***************************************************************************)
(* Proofs about AirosConfig, for every set of configurations and services, *)
(* every number of soft restarts at once and of operations of the user.    *)
(***************************************************************************)
EXTENDS AirosConfig, TLAPS

-----------------------------------------------------------------------------
(* The inductive invariant. *)

(* A soft restart that is to save has its sorted copy from the start on. *)
CopyKept ==
    \A p \in Procs :
      /\ At(p, "save") => rs[p].mode = "save"
      /\ rs[p].mode = "save" /\ ~At(p, "begin") => rs[p].sorted \in Cfgs

(* The list is the one that was made for the configuration read last. *)
Listed == listed = Plugins(active)

(* A user who waits has one soft restart or one writer at work. *)
OneAtWork ==
    /\ \A p, q \in Procs : ~At(p, "none") /\ ~At(q, "none") => p = q
    /\ \A p \in Procs : ~At(p, "none") => writers = {}
    /\ \A v, w \in writers : v = w

(* Between the stop and the start of a soft restart nothing is up, and all of
   the list is up at other times. *)
UpAsListed ==
    up = IF \E p \in Procs : At(p, "conf") \/ At(p, "start") THEN {} ELSE listed

(* A soft restart that saves began with what runs and is stored, and goes from
   there to system.cfg. *)
SavingForm(p) ==
    rs[p].mode = "save" =>
      /\ lock = "none"
      /\ rs[p].pc \in {"begin", "stop", "conf"} => active = running /\ active = Restored
      /\ rs[p].pc \in {"stop", "conf", "start", "save"} => rs[p].sorted = system
      /\ rs[p].pc \in {"start", "save"} => active = system

(* A soft restart that does not save goes to what both files say, and to what
   is stored when it takes a test back. *)
TestingForm(p) ==
    rs[p].mode = "test" =>
      /\ running = system
      /\ lock = "none" => system = Restored
      /\ At(p, "start") => active = system

AtWork(p) ==
    ~At(p, "none") => rs[p].mode \in {"save", "test"} /\ SavingForm(p) /\ TestingForm(p)

(* What is being written is what runs and what both files say. *)
Writing(w) ==
    /\ lock = "none"
    /\ running = system /\ active = system
    /\ w \in {SystemCfg, system}

WaitedInv == Waited => OneAtWork /\ UpAsListed

AloneInv ==
    Alone => Settled /\ (\A p \in Procs : AtWork(p)) /\ (\A w \in writers : Writing(w))

ConfigInv == TypeOK /\ CopyKept /\ Listed /\ WaitedInv /\ AloneInv

-----------------------------------------------------------------------------
(* Types *)

LEMMA ConstantTypes ==
    /\ \A c \in Cfgs : Plugins(c) \subseteq AllPlugins
    /\ NoRestart \in Restart
    /\ NoRestart.pc = "none" /\ NoRestart.mode = "none" /\ NoRestart.sorted = NoCfg
    /\ SystemCfg \notin Cfgs /\ NoCfg \notin Cfgs /\ Default \in Cfgs
  <1>1. \A c \in Cfgs : Plugins(c) \subseteq AllPlugins
    BY DEF AllPlugins
  <1>2. NoRestart \in Restart
    BY DEF NoRestart, Restart
  <1>3. NoRestart.pc = "none" /\ NoRestart.mode = "none" /\ NoRestart.sorted = NoCfg
    BY DEF NoRestart
  <1>4. SystemCfg \notin Cfgs /\ NoCfg \notin Cfgs /\ Default \in Cfgs
    BY ConfigAssumption
  <1>5. QED
    BY <1>1, <1>2, <1>3, <1>4

LEMMA RestoredType == TypeOK => Restored \in Cfgs
  BY ConstantTypes DEF TypeOK, Restored

(* The device comes up idle, with one configuration everywhere. *)
LEMMA BootedInv ==
    ASSUME TypeOK, Booted(Restored), UNCHANGED <<flash, ops>>
    PROVE  ConfigInv'
  <1>1. Restored \in Cfgs /\ Restored' = Restored
    BY RestoredType DEF Restored
  <1>2. \A p \in Procs : rs'[p] = NoRestart
    BY DEF Booted
  <1>3. TypeOK'
    BY <1>1, ConstantTypes DEF TypeOK, Booted
  <1>4. (CopyKept /\ Listed)'
    BY <1>2, ConstantTypes DEF Booted, CopyKept, Listed, At, Plugins
  <1>5. (OneAtWork /\ UpAsListed)'
    BY <1>2, ConstantTypes DEF Booted, OneAtWork, UpAsListed, At
  <1>6. (Settled /\ (\A p \in Procs : AtWork(p)) /\ (\A w \in writers : Writing(w)))'
    BY <1>1, <1>2, ConstantTypes DEF Booted, Settled, AtWork, At
  <1>7. QED
    BY <1>3, <1>4, <1>5, <1>6 DEF ConfigInv, WaitedInv, AloneInv

LEMMA InitInv == Init => ConfigInv
  <1> SUFFICES ASSUME Init PROVE ConfigInv
    OBVIOUS
  <1>1. Restored \in Cfgs
    BY ConstantTypes DEF Init, Restored
  <1>2. \A p \in Procs : rs[p] = NoRestart
    BY DEF Init
  <1>3. TypeOK
    <2>1. rs \in [Procs -> Restart]
      BY ConstantTypes DEF Init
    <2>2. listed \subseteq AllPlugins /\ up \subseteq AllPlugins
      BY <1>1, ConstantTypes DEF Init
    <2>3. ops \in 0 .. MaxOps
      BY ConfigAssumption DEF Init
    <2>4. QED
      BY <1>1, <2>1, <2>2, <2>3 DEF Init, TypeOK
  <1>4. CopyKept /\ Listed
    BY <1>2, ConstantTypes DEF Init, CopyKept, Listed, At
  <1>5. OneAtWork /\ UpAsListed
    BY <1>2, ConstantTypes DEF Init, OneAtWork, UpAsListed, At
  <1>6. Settled /\ (\A p \in Procs : AtWork(p)) /\ (\A w \in writers : Writing(w))
    BY <1>2, ConstantTypes DEF Init, Settled, AtWork, At
  <1>7. QED
    BY <1>3, <1>4, <1>5, <1>6 DEF ConfigInv, WaitedInv, AloneInv

LEMMA ClickType == TypeOK /\ Click => ops' \in 0 .. MaxOps /\ raced' \in BOOLEAN
  BY ConfigAssumption DEF TypeOK, Click, Busy

LEMMA LaunchType ==
    ASSUME TypeOK, NEW mode \in {"none", "save", "test"}, Launch(mode)
    PROVE  rs' \in [Procs -> Restart]
  <1>1. [NoRestart EXCEPT !.pc = "begin", !.mode = mode] \in Restart
    BY DEF NoRestart, Restart
  <1>2. QED
    BY <1>1 DEF Launch, TypeOK

LEMMA UserType == TypeOK /\ (User \/ Others) => TypeOK'
  <1> SUFFICES ASSUME TypeOK, User \/ Others
               PROVE  TypeOK'
    OBVIOUS
  <1> USE ClickType, LaunchType, RestoredType
  <1>1. mixed' \in BOOLEAN
    BY DEF User, Others, TypeOK
  <1>2. ASSUME NEW c \in Cfgs, Save(c)
        PROVE  TypeOK'
    BY <1>1, <1>2 DEF Save, services, TypeOK
  <1>3. CASE Test
    BY <1>1, <1>3 DEF Test, services, TypeOK
  <1>4. CASE Apply
    <2>1. writers' \subseteq Cfgs \cup {SystemCfg} /\ system' \in Cfgs
      BY <1>4 DEF Apply, TypeOK
    <2>2. rs' \in [Procs -> Restart]
      BY <1>4 DEF Apply, TypeOK
    <2>3. QED
      BY <1>1, <1>4, <2>1, <2>2 DEF Apply, services, TypeOK
  <1>5. ASSUME NEW testmode \in BOOLEAN, Discard(testmode)
        PROVE  TypeOK'
    <2>1. rs' \in [Procs -> Restart] /\ running' \in Cfgs
      BY <1>5 DEF Discard, TypeOK
    <2>2. QED
      BY <1>1, <1>5, <2>1 DEF Discard, services, TypeOK
  <1>6. CASE AskReboot
    BY <1>1, <1>6 DEF AskReboot, files, services, TypeOK
  <1>7. CASE Reset
    BY <1>1, <1>7, ConstantTypes DEF Reset, files, services, TypeOK
  <1>8. ASSUME NEW c \in Cfgs, Store(c)
        PROVE  TypeOK'
    BY <1>1, <1>8 DEF Store, files, services, TypeOK
  <1>9. ASSUME NEW c \in Cfgs, Activate(c)
        PROVE  TypeOK'
    <2>1. rs' \in [Procs -> Restart]
      BY <1>9 DEF Activate
    <2>2. QED
      BY <1>1, <1>9, <2>1 DEF Activate, services, TypeOK
  <1>10. QED
    <2>1. system \in Cfgs /\ (lock # "none") \in BOOLEAN /\ (lock = "none") \in BOOLEAN
      BY DEF TypeOK
    <2>2. CASE User
      BY <1>2, <1>3, <1>4, <1>5, <1>6, <1>7, <2>1, <2>2 DEF User
    <2>3. CASE Others
      BY <1>5, <1>8, <1>9, <2>1, <2>3 DEF Others, StoreEdited
    <2>4. QED
      BY <2>2, <2>3

LEMMA StepType ==
    ASSUME TypeOK, CopyKept, NEW p \in Procs, Step(p)
    PROVE  TypeOK'
  <1>1. rs[p] \in Restart /\ NoRestart \in Restart
    BY ConstantTypes DEF TypeOK
  <1>2. \A pc \in {"none", "begin", "stop", "conf", "start", "save"} :
          [rs EXCEPT ![p].pc = pc] \in [Procs -> Restart]
    BY <1>1 DEF TypeOK, Restart
  <1>3. [rs EXCEPT ![p] = NoRestart] \in [Procs -> Restart]
    BY <1>1 DEF TypeOK
  <1>4. CASE Begin(p)
    <2>1. [rs EXCEPT ![p].sorted = system, ![p].pc = "stop"] \in [Procs -> Restart]
      BY <1>1 DEF TypeOK, Restart
    <2>2. rs' \in [Procs -> Restart]
      BY <1>2, <1>3, <1>4, <2>1 DEF Begin, Goto, Exit
    <2>3. QED
      BY <1>4, <2>2 DEF Begin, files, services, TypeOK
  <1>5. CASE Stop(p)
    BY <1>2, <1>5 DEF Stop, Goto, files, TypeOK
  <1>6. CASE Conf(p)
    <2>1. Plugins(system) \subseteq AllPlugins
      BY ConstantTypes DEF TypeOK
    <2>2. QED
      BY <1>2, <1>6, <2>1 DEF Conf, Goto, files, TypeOK
  <1>7. CASE Start(p)
    <2>1. rs' \in [Procs -> Restart]
      BY <1>2, <1>3, <1>7 DEF Start, Goto, Exit
    <2>2. QED
      BY <1>7, <2>1 DEF Start, files, TypeOK
  <1>8. CASE Finish(p)
    <2>1. rs[p].sorted \in Cfgs
      BY <1>8, ConstantTypes DEF Finish, CopyKept, At
    <2>2. QED
      BY <1>3, <1>8, <2>1 DEF Finish, Exit, services, TypeOK
  <1>9. QED
    BY <1>4, <1>5, <1>6, <1>7, <1>8 DEF Step

LEMMA WriteType ==
    ASSUME TypeOK, NEW w \in writers, Write(w)
    PROVE  TypeOK'
  BY ConstantTypes DEF TypeOK, Write, files, services

-----------------------------------------------------------------------------
(* What changes the soft restarts *)

(* A launch takes a process that is free and leaves the others. *)
LEMMA Launched ==
    ASSUME TypeOK, NEW mode \in {"none", "save", "test"}, Launch(mode)
    PROVE  \E p \in Procs :
             /\ At(p, "none") /\ rs'[p].pc = "begin" /\ rs'[p].mode = mode
             /\ rs'[p].sorted = NoCfg
             /\ \A q \in Procs \ {p} : rs'[q] = rs[q]
  <1>1. PICK p \in Procs :
          /\ rs[p].pc = "none"
          /\ rs' = [rs EXCEPT ![p] = [NoRestart EXCEPT !.pc = "begin", !.mode = mode]]
    BY DEF Launch
  <1>2. rs'[p] = [NoRestart EXCEPT !.pc = "begin", !.mode = mode]
    BY <1>1 DEF TypeOK
  <1>3. \A q \in Procs \ {p} : rs'[q] = rs[q]
    BY <1>1 DEF TypeOK
  <1>4. rs'[p].pc = "begin" /\ rs'[p].mode = mode /\ rs'[p].sorted = NoCfg
    BY <1>2 DEF NoRestart
  <1>5. At(p, "none")
    BY <1>1 DEF At
  <1>6. QED
    BY <1>3, <1>4, <1>5

(* The user and others launch at most one, which has its copy to make. *)
LEMMA ClickLaunches ==
    ASSUME TypeOK, User \/ Others
    PROVE  /\ Click /\ UNCHANGED services
           /\ \/ UNCHANGED rs /\ writers' \in {writers, writers \cup {SystemCfg}}
              \/ UNCHANGED writers /\ \E mode \in {"none", "save", "test"} : Launch(mode)
  BY DEF User, Others, Save, Test, Apply, Discard, AskReboot, Reset, Store,
         StoreEdited, Activate

(* A step of a process leaves the others. *)
LEMMA StepGoes ==
    ASSUME TypeOK, NEW p \in Procs, Step(p)
    PROVE  /\ ~At(p, "none")
           /\ \A q \in Procs \ {p} : rs'[q] = rs[q]
           /\ \/ rs'[p] = NoRestart
              \/ /\ rs'[p].mode = rs[p].mode /\ rs'[p].pc # "none"
                 /\ \/ /\ At(p, "begin") /\ rs'[p].pc = "stop"
                       /\ rs'[p].mode = "save" => rs'[p].sorted = system
                    \/ /\ ~At(p, "begin") /\ rs'[p].sorted = rs[p].sorted
                       /\ rs'[p].pc = "save" => rs[p].mode = "save"
  <1> USE DEF At, Goto, Exit, TypeOK, Restart
  <1>1. CASE Begin(p)
    BY <1>1 DEF Begin
  <1>2. CASE Stop(p)
    BY <1>2 DEF Stop
  <1>3. CASE Conf(p)
    BY <1>3 DEF Conf
  <1>4. CASE Start(p)
    BY <1>4 DEF Start
  <1>5. CASE Finish(p)
    BY <1>5 DEF Finish
  <1>6. QED
    BY <1>1, <1>2, <1>3, <1>4, <1>5 DEF Step

LEMMA CopyStaysKept ==
    ASSUME TypeOK, CopyKept,
           User \/ Others \/ (\E p \in Procs : Step(p)) \/ (\E w \in writers : Write(w))
    PROVE  CopyKept'
  <1>1. CASE User \/ Others
    <2>1. CASE UNCHANGED rs
      BY <2>1 DEF CopyKept, At
    <2>2. CASE \E mode \in {"none", "save", "test"} : Launch(mode)
      BY <2>2, Launched DEF CopyKept, At
    <2>3. QED
      BY <1>1, <2>1, <2>2, ClickLaunches
  <1>2. ASSUME NEW p \in Procs, Step(p)
        PROVE  CopyKept'
    BY <1>2, StepGoes, ConstantTypes DEF CopyKept, At, TypeOK
  <1>3. CASE \E w \in writers : Write(w)
    BY <1>3 DEF Write, CopyKept, At
  <1>4. QED
    BY <1>1, <1>2, <1>3

LEMMA ListStaysMade ==
    ASSUME Listed,
           User \/ Others \/ (\E p \in Procs : Step(p)) \/ (\E w \in writers : Write(w))
    PROVE  Listed'
  <1>1. CASE User \/ Others
    BY <1>1 DEF Listed, services, User, Others, Save, Test, Apply, Discard,
       AskReboot, Reset, Store, StoreEdited, Activate, Plugins
  <1>2. CASE \E p \in Procs : Step(p)
    BY <1>2 DEF Listed, services, Step, Begin, Stop, Conf, Start, Finish, Plugins
  <1>3. CASE \E w \in writers : Write(w)
    BY <1>3 DEF Listed, services, Write, Plugins
  <1>4. QED
    BY <1>1, <1>2, <1>3

-----------------------------------------------------------------------------
(* A user who waits *)

LEMMA IdleMeans == ~Busy => writers = {} /\ \A p \in Procs : At(p, "none")
  BY DEF Busy, At

(* A click of a user who waits is one on an idle device. *)
LEMMA ClickWaits ==
    ASSUME TypeOK, Click, Waited'
    PROVE  Waited /\ ~Busy
  BY DEF TypeOK, Click, Waited, Busy

LEMMA ClickKeepsOne ==
    ASSUME ConfigInv, User \/ Others, Waited'
    PROVE  OneAtWork' /\ UpAsListed'
  <1>1. TypeOK /\ Click
    BY ClickLaunches DEF ConfigInv
  <1>2. Waited /\ ~Busy
    BY <1>1, ClickWaits
  <1>3. writers = {} /\ \A p \in Procs : At(p, "none")
    BY <1>2, IdleMeans
  <1>4. UpAsListed
    BY <1>2 DEF ConfigInv, WaitedInv
  <1>5. up = listed
    BY <1>3, <1>4 DEF UpAsListed, At
  <1>6. up' = listed'
    BY <1>1, <1>5, ClickLaunches DEF services
  <1>7. CASE UNCHANGED rs /\ writers' \in {writers, writers \cup {SystemCfg}}
    BY <1>3, <1>6, <1>7 DEF OneAtWork, UpAsListed, At
  <1>8. CASE UNCHANGED writers /\ \E mode \in {"none", "save", "test"} : Launch(mode)
    <2>1. PICK p \in Procs : rs'[p].pc = "begin" /\ \A q \in Procs \ {p} : rs'[q] = rs[q]
      BY <1>1, <1>8, Launched
    <2>2. \A q \in Procs \ {p} : At(q, "none")'
      BY <1>3, <2>1 DEF At
    <2>3. OneAtWork'
      BY <1>3, <1>8, <2>2 DEF OneAtWork
    <2>4. UpAsListed'
      BY <1>6, <2>1, <2>2 DEF UpAsListed, At
    <2>5. QED
      BY <2>3, <2>4
  <1>9. QED
    BY <1>1, <1>7, <1>8, ClickLaunches

LEMMA StepKeepsOne ==
    ASSUME ConfigInv, NEW p \in Procs, Step(p), Waited
    PROVE  OneAtWork' /\ UpAsListed'
  <1>1. TypeOK /\ CopyKept /\ OneAtWork /\ UpAsListed
    BY DEF ConfigInv, WaitedInv
  <1>2. ~At(p, "none") /\ \A q \in Procs \ {p} : rs'[q] = rs[q]
    BY <1>1, StepGoes
  <1>3. \A q \in Procs \ {p} : At(q, "none") /\ At(q, "none")'
    BY <1>1, <1>2 DEF OneAtWork, At
  <1>4. writers = {}
    BY <1>1, <1>2 DEF OneAtWork
  <1>5. \/ writers' = {}
        \/ rs'[p].pc = "none" /\ writers' = {rs[p].sorted}
    BY <1>1, <1>4, ConstantTypes
    DEF Step, Begin, Stop, Conf, Start, Finish, Exit, TypeOK
  <1>6. OneAtWork'
    BY <1>3, <1>5 DEF OneAtWork, At
  <1> DEFINE between == At(p, "conf") \/ At(p, "start")
  <1>7. up = IF between THEN {} ELSE listed
    BY <1>1, <1>3 DEF UpAsListed, At
  <1>8. up' = IF between' THEN {} ELSE listed'
    <2> USE <1>1, <1>7, ConstantTypes DEF At, Goto, Exit, TypeOK, Restart
    <2>1. CASE Begin(p)
      BY <2>1 DEF Begin, services
    <2>2. CASE Stop(p)
      BY <2>2 DEF Stop
    <2>3. CASE Conf(p)
      BY <2>3 DEF Conf
    <2>4. CASE Start(p)
      BY <2>4 DEF Start
    <2>5. CASE Finish(p)
      BY <2>5 DEF Finish, services
    <2>6. QED
      BY <2>1, <2>2, <2>3, <2>4, <2>5 DEF Step
  <1>9. UpAsListed'
    BY <1>3, <1>8 DEF UpAsListed, At
  <1>10. QED
    BY <1>6, <1>9

LEMMA WriteKeepsOne ==
    ASSUME OneAtWork, UpAsListed, NEW w \in writers, Write(w)
    PROVE  OneAtWork' /\ UpAsListed'
  BY DEF OneAtWork, UpAsListed, Write, At, services

LEMMA WaitedStays ==
    ASSUME ConfigInv,
           User \/ Others \/ (\E p \in Procs : Step(p)) \/ (\E w \in writers : Write(w))
    PROVE  WaitedInv'
  <1> SUFFICES ASSUME Waited' PROVE OneAtWork' /\ UpAsListed'
    BY DEF WaitedInv
  <1>1. CASE User \/ Others
    BY <1>1, ClickKeepsOne
  <1>2. ASSUME NEW p \in Procs, Step(p)
        PROVE  OneAtWork' /\ UpAsListed'
    <2>1. Waited
      BY <1>2 DEF Waited, Step, Begin, Stop, Conf, Start, Finish
    <2>2. QED
      BY <1>2, <2>1, StepKeepsOne
  <1>3. ASSUME NEW w \in writers, Write(w)
        PROVE  OneAtWork' /\ UpAsListed'
    <2>1. Waited
      BY <1>3 DEF Waited, Write
    <2>2. QED
      BY <1>3, <2>1, WriteKeepsOne DEF ConfigInv, WaitedInv
  <1>4. QED
    BY <1>1, <1>2, <1>3

-----------------------------------------------------------------------------
(* A user who waits and is alone *)

(* Whoever launches a soft restart on an idle device has one process to
   speak of. *)
LEMMA LaunchAtWork ==
    ASSUME TypeOK, ~Busy, NEW mode \in {"save", "test"}, Launch(mode),
           mode = "save" => (lock' = "none" /\ active' = running' /\ active' = Restored'),
           mode = "test" => (running' = system' /\ (lock' = "none" => system' = Restored'))
    PROVE  Busy' /\ \A p \in Procs : AtWork(p)'
  <1>1. PICK p \in Procs :
          /\ rs'[p].pc = "begin" /\ rs'[p].mode = mode
          /\ \A q \in Procs \ {p} : rs'[q] = rs[q]
    BY Launched
  <1>2. \A q \in Procs \ {p} : At(q, "none")'
    BY <1>1, IdleMeans DEF At
  <1>3. Busy'
    BY <1>1 DEF Busy
  <1>4. AtWork(p)'
    BY <1>1 DEF AtWork, At, SavingForm, TestingForm
  <1>5. QED
    BY <1>2, <1>3, <1>4 DEF AtWork

LEMMA ClickKeepsAlone ==
    ASSUME ConfigInv, User, Alone'
    PROVE  AloneInv'
  <1>1. TypeOK /\ Click
    BY ClickLaunches DEF ConfigInv
  <1>2. Alone /\ ~Busy
    BY <1>1, ClickWaits DEF Alone, User
  <1>3. writers = {} /\ \A p \in Procs : At(p, "none")
    BY <1>2, IdleMeans
  <1>4. active = running /\ (lock = "none" => active = Restored /\ (modified \/ system = active))
    BY <1>2 DEF ConfigInv, AloneInv, Settled
  <1>5. UNCHANGED rs => \A p \in Procs : AtWork(p)'
    BY <1>3 DEF AtWork, At
  <1>6. UNCHANGED writers => \A w \in writers' : Writing(w)'
    BY <1>3
  <1>7. UNCHANGED flash => UNCHANGED Restored
    BY DEF Restored
  <1> SUFFICES Settled' /\ (\A p \in Procs : AtWork(p)') /\ (\A w \in writers' : Writing(w)')
    BY DEF AloneInv
  <1>8. ASSUME NEW c \in Cfgs, Save(c)
        PROVE  Settled' /\ UNCHANGED <<rs, writers>>
    BY <1>4, <1>7, <1>8 DEF Save, Settled, services
  <1>9. CASE Test
    <2>1. Launch("test") /\ running' = system' /\ lock' # "none" /\ UNCHANGED writers
      BY <1>9 DEF Test
    <2>2. Busy' /\ \A p \in Procs : AtWork(p)'
      BY <1>1, <1>2, <2>1, LaunchAtWork
    <2>3. QED
      BY <1>6, <2>1, <2>2 DEF Settled
  <1>10. CASE Apply
    <2>1. CASE lock = "none"
      <3>1. /\ Launch("save") /\ lock' = "none" /\ UNCHANGED <<writers, flash>>
            /\ active' = running'
        BY <1>4, <1>10, <2>1 DEF Apply, services
      <3>2. active' = Restored'
        BY <1>4, <1>7, <1>10, <2>1, <3>1 DEF Apply, services
      <3>3. Busy' /\ \A p \in Procs : AtWork(p)'
        BY <1>1, <1>2, <3>1, <3>2, LaunchAtWork
      <3>4. QED
        BY <1>6, <3>1, <3>3 DEF Settled
    <2>2. CASE lock # "none"
      <3>1. /\ UNCHANGED rs /\ writers' = {SystemCfg} /\ lock' = "none"
            /\ running' = system' /\ active' = system'
        BY <1>3, <1>4, <1>10, <2>2 DEF Apply, services
      <3>2. Busy'
        BY <3>1 DEF Busy
      <3>3. \A w \in writers' : Writing(w)'
        BY <3>1 DEF Writing
      <3>4. QED
        BY <1>5, <3>1, <3>2, <3>3 DEF Settled
    <2>3. QED
      BY <2>1, <2>2
  <1>11. CASE Discard(lock # "none")
    <2>1. CASE lock = "none"
      <3>1. UNCHANGED <<rs, writers, flash, running, active>> /\ system' = Restored /\ lock' = "none"
        BY <1>11, <2>1 DEF Discard, services
      <3>2. Settled'
        BY <1>4, <1>7, <2>1, <3>1 DEF Settled
      <3>3. QED
        BY <1>5, <1>6, <3>1, <3>2
    <2>2. CASE lock # "none"
      <3>1. /\ Launch("test") /\ running' = system' /\ UNCHANGED <<writers, flash>>
            /\ system' = Restored
        BY <1>11, <2>2 DEF Discard
      <3>2. system' = Restored'
        BY <1>7, <3>1
      <3>3. Busy' /\ \A p \in Procs : AtWork(p)'
        BY <1>1, <1>2, <3>1, <3>2, LaunchAtWork
      <3>4. QED
        BY <1>6, <3>1, <3>3 DEF Settled
    <2>3. QED
      BY <2>1, <2>2
  <1>12. CASE AskReboot \/ Reset
    BY <1>12 DEF AskReboot, Reset, Alone, Waited
  <1>13. QED
    BY <1>5, <1>6, <1>8, <1>9, <1>10, <1>11, <1>12 DEF User

LEMMA StepKeepsAlone ==
    ASSUME ConfigInv, NEW p \in Procs, Step(p), Alone
    PROVE  AloneInv'
  <1>1. TypeOK /\ CopyKept /\ OneAtWork /\ rs[p] \in Restart
    BY DEF ConfigInv, WaitedInv, Alone, TypeOK
  <1>2. ~At(p, "none") /\ \A q \in Procs \ {p} : rs'[q] = rs[q]
    BY <1>1, StepGoes
  <1>3. \A q \in Procs \ {p} : AtWork(q)'
    BY <1>1, <1>2 DEF OneAtWork, At, AtWork
  <1>4. writers = {}
    BY <1>1, <1>2 DEF OneAtWork
  <1>5. rs[p].mode \in {"save", "test"} /\ SavingForm(p) /\ TestingForm(p)
    BY <1>2 DEF ConfigInv, AloneInv, AtWork
  <1>6. At(p, "none")' => AtWork(p)'
    BY DEF AtWork
  <1>7. ~At(p, "none")' => Busy'
    BY DEF Busy, At
  <1>8. UNCHANGED <<system, flash>> /\ Restored' = Restored
    BY DEF Step, Begin, Stop, Conf, Start, Finish, files, Restored
  <1> SUFFICES Settled' /\ AtWork(p)' /\ (\A w \in writers' : Writing(w)')
    BY <1>3 DEF AloneInv
  <1> USE DEF At, Goto, Exit, TypeOK, Restart
  <1>9. CASE Begin(p)
    <2>1. UNCHANGED <<running, active, lock, modified, writers>>
      BY <1>9 DEF Begin, files, services
    <2>2. CASE rs[p].mode = "save" /\ running = system
      <3>1. At(p, "none")'
        BY <1>1, <1>9, <2>2, ConstantTypes DEF Begin
      <3>2. active = running /\ active = Restored
        BY <1>5, <1>9, <2>2 DEF Begin, SavingForm
      <3>3. Settled'
        BY <1>8, <2>1, <2>2, <3>2 DEF Settled
      <3>4. QED
        BY <1>4, <1>6, <2>1, <3>1, <3>3
    <2>3. CASE rs[p].mode = "save" /\ running # system
      <3>1. rs'[p].pc = "stop" /\ rs'[p].mode = "save" /\ rs'[p].sorted = system
        BY <1>1, <1>9, <2>3 DEF Begin
      <3>2. AtWork(p)'
        BY <1>5, <1>8, <1>9, <2>1, <2>3, <3>1 DEF AtWork, SavingForm, TestingForm, Begin
      <3>3. QED
        BY <1>4, <1>7, <2>1, <3>1, <3>2 DEF Settled
    <2>4. CASE rs[p].mode = "test"
      <3>1. rs'[p].pc = "stop" /\ rs'[p].mode = "test"
        BY <1>1, <1>9, <2>4 DEF Begin
      <3>2. AtWork(p)'
        BY <1>5, <1>8, <2>1, <2>4, <3>1 DEF AtWork, SavingForm, TestingForm
      <3>3. QED
        BY <1>4, <1>7, <2>1, <3>1, <3>2 DEF Settled
    <2>5. QED
      BY <1>5, <2>2, <2>3, <2>4
  <1>10. CASE Stop(p)
    <2>1. UNCHANGED <<running, active, lock, modified, writers>>
      BY <1>10 DEF Stop, files
    <2>2. /\ rs[p].pc = "stop" /\ rs'[p].pc = "conf" /\ rs'[p].mode = rs[p].mode
          /\ rs'[p].sorted = rs[p].sorted
      BY <1>1, <1>10 DEF Stop
    <2>3. AtWork(p)'
      BY <1>5, <1>8, <2>1, <2>2 DEF AtWork, SavingForm, TestingForm
    <2>4. QED
      BY <1>4, <1>7, <2>1, <2>2, <2>3 DEF Settled
  <1>11. CASE Conf(p)
    <2>1. UNCHANGED <<running, lock, modified, writers>> /\ active' = system
      BY <1>11 DEF Conf, files
    <2>2. /\ rs[p].pc = "conf" /\ rs'[p].pc = "start" /\ rs'[p].mode = rs[p].mode
          /\ rs'[p].sorted = rs[p].sorted
      BY <1>1, <1>11 DEF Conf
    <2>3. AtWork(p)'
      BY <1>5, <1>8, <2>1, <2>2 DEF AtWork, SavingForm, TestingForm
    <2>4. QED
      BY <1>4, <1>7, <2>1, <2>2, <2>3 DEF Settled
  <1>12. CASE Start(p)
    <2>1. UNCHANGED <<running, active, modified, writers>> /\ (lock' = "none" <=> lock = "none")
      BY <1>12 DEF Start, files
    <2>2. CASE rs[p].mode = "save"
      <3>1. /\ rs[p].pc = "start" /\ rs'[p].pc = "save" /\ rs'[p].mode = "save"
            /\ rs'[p].sorted = rs[p].sorted
        BY <1>1, <1>12, <2>2 DEF Start
      <3>2. AtWork(p)'
        BY <1>5, <1>8, <2>1, <2>2, <3>1 DEF AtWork, SavingForm, TestingForm
      <3>3. QED
        BY <1>4, <1>7, <2>1, <3>1, <3>2 DEF Settled
    <2>3. CASE rs[p].mode = "test"
      <3>1. rs[p].pc = "start" /\ At(p, "none")'
        BY <1>1, <1>12, <2>3, ConstantTypes DEF Start
      <3>2. active = system /\ running = system /\ (lock = "none" => system = Restored)
        BY <1>5, <2>3, <3>1 DEF TestingForm
      <3>3. Settled'
        BY <1>8, <2>1, <3>2 DEF Settled
      <3>4. QED
        BY <1>4, <1>6, <2>1, <3>1, <3>3
    <2>4. QED
      BY <1>5, <2>2, <2>3
  <1>13. CASE Finish(p)
    <2>1. rs[p].pc = "save" /\ rs[p].mode = "save" /\ At(p, "none")'
      BY <1>1, <1>13, ConstantTypes DEF Finish, CopyKept
    <2>2. lock = "none" /\ rs[p].sorted = system /\ active = system
      BY <1>5, <2>1 DEF SavingForm
    <2>3. /\ UNCHANGED <<lock, active>>
          /\ running' = rs[p].sorted /\ writers' = {rs[p].sorted}
      BY <1>4, <1>13 DEF Finish, services
    <2>4. \A w \in writers' : Writing(w)'
      BY <1>8, <2>2, <2>3 DEF Writing
    <2>5. Busy'
      BY <2>3 DEF Busy
    <2>6. QED
      BY <1>6, <2>1, <2>4, <2>5 DEF Settled
  <1>14. QED
    BY <1>9, <1>10, <1>11, <1>12, <1>13 DEF Step

(* What is written is system.cfg as it is, by either kind of writer. *)
LEMMA WriteStores ==
    ASSUME ConfigInv, NEW w \in writers, Write(w), Alone
    PROVE  /\ flash' = active /\ writers' = {} /\ lock = "none"
           /\ active = running /\ active = system
  <1>1. Writing(w)
    BY DEF ConfigInv, AloneInv
  <1>2. \A v \in writers : v = w
    BY DEF ConfigInv, WaitedInv, OneAtWork, Alone
  <1>3. QED
    BY <1>1, <1>2 DEF Write, Writing

LEMMA WriteKeepsAlone ==
    ASSUME ConfigInv, NEW w \in writers, Write(w), Alone
    PROVE  AloneInv'
  <1>1. /\ flash' = active /\ writers' = {} /\ lock = "none"
        /\ active = running /\ active = system
    BY WriteStores
  <1>2. UNCHANGED <<system, running, modified, lock, rs, active>>
    BY DEF Write, files, services
  <1>3. \A p \in Procs : At(p, "none")'
    BY <1>2 DEF ConfigInv, WaitedInv, OneAtWork, Alone, At
  <1>4. active \in Cfgs
    BY DEF ConfigInv, TypeOK
  <1>5. Restored' = active
    BY <1>1, <1>4, ConstantTypes DEF Restored
  <1>6. QED
    BY <1>1, <1>2, <1>3, <1>5 DEF AloneInv, Settled, AtWork

LEMMA AloneStays ==
    ASSUME ConfigInv,
           User \/ Others \/ (\E p \in Procs : Step(p)) \/ (\E w \in writers : Write(w))
    PROVE  AloneInv'
  <1> SUFFICES ASSUME Alone' PROVE AloneInv'
    BY DEF AloneInv
  <1>1. CASE User
    BY <1>1, ClickKeepsAlone
  <1>2. CASE Others
    BY <1>2 DEF Others, Alone
  <1>3. ASSUME NEW p \in Procs, Step(p)
        PROVE  AloneInv'
    <2>1. Alone
      BY <1>3 DEF Alone, Waited, Step, Begin, Stop, Conf, Start, Finish
    <2>2. QED
      BY <1>3, <2>1, StepKeepsAlone
  <1>4. ASSUME NEW w \in writers, Write(w)
        PROVE  AloneInv'
    <2>1. Alone
      BY <1>4 DEF Alone, Waited, Write
    <2>2. QED
      BY <1>4, <2>1, WriteKeepsAlone
  <1>5. QED
    BY <1>1, <1>2, <1>3, <1>4

-----------------------------------------------------------------------------
LEMMA NextKeepsInv == ConfigInv /\ [Next]_vars => ConfigInv'
  <1> SUFFICES ASSUME ConfigInv, [Next]_vars
               PROVE  ConfigInv'
    OBVIOUS
  <1>1. TypeOK /\ CopyKept /\ Listed
    BY DEF ConfigInv
  <1>2. CASE User \/ Others \/ (\E p \in Procs : Step(p)) \/ (\E w \in writers : Write(w))
    <2>1. TypeOK'
      BY <1>1, <1>2, UserType, StepType, WriteType
    <2>2. QED
      BY <1>1, <1>2, <2>1, CopyStaysKept, ListStaysMade, WaitedStays, AloneStays
      DEF ConfigInv
  <1>3. CASE Reboot \/ TestExpires \/ PowerCut
    BY <1>1, <1>3, BootedInv DEF Reboot, TestExpires, PowerCut
  <1>4. CASE UNCHANGED vars
    BY <1>4 DEF vars, files, services, ConfigInv, TypeOK, CopyKept, Listed,
       WaitedInv, OneAtWork, UpAsListed, AloneInv, Settled, Busy, Restored, Alone, Waited,
       AtWork, SavingForm, TestingForm, Writing, At, Plugins
  <1>5. QED
    BY <1>2, <1>3, <1>4 DEF Next

(* Soft restarts and writers of a user who waits follow one another, and each
   starts from a device on which what runs, the files and the flash agree. *)
THEOREM ConfigInvariance == Spec => []ConfigInv
  BY InitInv, NextKeepsInv, PTL DEF Spec

(* Every variable keeps its type; in particular nothing but a configuration
   is ever written to the flash. *)
THEOREM TypeCorrect == Spec => []TypeOK
  <1>1. ConfigInv => TypeOK
    BY DEF ConfigInv
  <1>2. QED
    BY <1>1, ConfigInvariance, PTL

(* When all work is done, what runs, the files and, with no test under way,
   the flash agree, however soft restarts, tests and power cuts followed one
   another. *)
THEOREM SettledCorrect == Spec => []Settled
  <1>1. ConfigInv => Settled
    BY DEF ConfigInv, AloneInv, Settled
  <1>2. QED
    BY <1>1, ConfigInvariance, PTL

(* rc.softrestart is right to leave when there is nothing to save. *)
THEOREM NothingToSaveCorrect == Spec => []NothingToSave
  <1>1. ConfigInv => NothingToSave
    <2> SUFFICES ASSUME ConfigInv, NEW p \in Procs, Alone
                 PROVE  NothingToDo(p)
      BY DEF NothingToSave
    <2>1. AtWork(p)
      BY DEF ConfigInv, AloneInv
    <2>2. QED
      BY <2>1 DEF AtWork, SavingForm, NothingToDo, At
  <1>2. QED
    BY <1>1, ConfigInvariance, PTL

(* No plugin of an earlier configuration is left running, and none of the
   present one is missing, for every assignment of plugins to configurations. *)
THEOREM ServicesMatchCorrect == Spec => []ServicesMatch
  <1>1. ConfigInv => ServicesMatch
    <2> SUFFICES ASSUME ConfigInv, Waited, ~Busy
                 PROVE  up = Plugins(active)
      BY DEF ServicesMatch
    <2>1. UpAsListed /\ Listed
      BY DEF ConfigInv, WaitedInv
    <2>2. QED
      BY <2>1, IdleMeans DEF UpAsListed, Listed, At
  <1>2. QED
    BY <1>1, ConfigInvariance, PTL

LEMMA FlashStep ==
    ASSUME ConfigInv, [Next]_vars, Alone', flash' # flash
    PROVE  flash' = active /\ lock = "none"
  <1>1. CASE User
    BY <1>1 DEF User, Save, Test, Apply, Discard, AskReboot, Reset, Alone, Waited
  <1>2. CASE Others
    BY <1>2 DEF Others, Alone
  <1>3. CASE \E p \in Procs : Step(p)
    BY <1>3 DEF Step, Begin, Stop, Conf, Start, Finish
  <1>4. ASSUME NEW w \in writers, Write(w)
        PROVE  flash' = active /\ lock = "none"
    <2>1. Alone
      BY <1>4 DEF Alone, Waited, Write
    <2>2. QED
      BY <1>4, <2>1, WriteStores
  <1>5. CASE Reboot \/ TestExpires \/ PowerCut \/ UNCHANGED vars
    BY <1>5 DEF Reboot, TestExpires, PowerCut, vars
  <1>6. QED
    BY <1>1, <1>2, <1>3, <1>4, <1>5 DEF Next

(* The writers store only what the device runs. *)
THEOREM KeepsWhatRunsCorrect == Spec => KeepsWhatRuns
  <1>1. ConfigInv /\ [Next]_vars => [Alone' /\ flash' # flash => flash' = active]_vars
    BY FlashStep
  <1>2. QED
    BY <1>1, ConfigInvariance, PTL DEF Spec, KeepsWhatRuns

(* The flash is not written in test mode. *)
THEOREM TestLeavesFlashCorrect == Spec => TestLeavesFlash
  <1>1. ConfigInv /\ [Next]_vars
          => [Alone' /\ lock # "none" /\ lock' # "none" => flash' = flash]_vars
    BY FlashStep
  <1>2. QED
    BY <1>1, ConfigInvariance, PTL DEF Spec, TestLeavesFlash

=============================================================================
