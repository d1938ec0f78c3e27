----------------------------- MODULE AirosConfig -----------------------------
(***************************************************************************)
(* How a configuration gets from the pages of the web interface to the     *)
(* running device and to the flash (apply.cgi, discard.cgi, rc.softrestart,*)
(* init, rc.stop, mca-config).                                             *)
(*                                                                         *)
(* The pages edit /tmp/system.cfg.  Apply restarts the services with it    *)
(* (rc.softrestart save), which then makes it the running.cfg and writes   *)
(* it to the flash.  Test restarts the services too, but leaves the flash  *)
(* alone: the device reboots into the old configuration unless the user    *)
(* applies in time.  Soft restarts and flash writes are processes of their *)
(* own.  The power may be cut at any time.                                 *)
(***************************************************************************)
EXTENDS Naturals

CONSTANTS
    Cfgs,          \* configurations
    Default,       \* /etc/default.cfg
    NoCfg,         \* no configuration: the flash is empty
    Services,      \* the plugins that ubntconf sets up for a configuration
    Procs,         \* processes that run rc.softrestart
    MaxOps         \* bound on the operations of the user

SystemCfg == "system.cfg"  \* what a writer without -f reads

ASSUME ConfigAssumption ==
    /\ Default \in Cfgs
    /\ {NoCfg, SystemCfg} \cap Cfgs = {}
    /\ DOMAIN Services = Cfgs
    /\ MaxOps \in Nat

VARIABLES
    system,    \* /tmp/system.cfg
    modified,  \* its mode is 0777: the message bar with the buttons is shown
    running,   \* /tmp/running.cfg
    flash,     \* what cfgmtd -r finds
    lock,      \* /var/run/testmode: none, starting (755), on (644)
    rs,        \* the soft restarts
    writers,   \* cfgmtd -w in the background, by what they write
    reboot,    \* a reboot is on its way
    active,    \* the configuration ubntconf read last
    listed,    \* the plugins in startup.list that have their sysinit file
    up,        \* the plugins that are started
    ops,       \* operations of the user since the device was started
    raced,     \* has someone not waited for a soft restart or a writer?
    mixed      \* has someone beside the buttons been at work (Others)?

files == <<system, modified, running>>
services == <<active, listed, up>>
vars == <<system, modified, running, flash, lock, rs, writers, reboot,
          active, listed, up, ops, raced, mixed>>

Plugins(c) == Services[c] \cup {"quagga"}
Restored == IF flash = NoCfg THEN Default ELSE flash
NoRestart == [pc |-> "none", mode |-> "none", sorted |-> NoCfg]

Busy == (\E p \in Procs : rs[p].pc # "none") \/ writers # {}

\* After init: what it leaves in the files and has started
Booted(c) ==
    /\ system' = c /\ running' = c /\ modified' = FALSE
    /\ lock' = "none"
    /\ rs' = [p \in Procs |-> NoRestart]
    /\ writers' = {} /\ reboot' = FALSE
    /\ active' = c /\ listed' = Plugins(c) /\ up' = Plugins(c)
    /\ raced' = FALSE /\ mixed' = FALSE

Init ==
    /\ flash \in Cfgs \cup {NoCfg}
    /\ system = Restored /\ running = Restored /\ modified = FALSE
    /\ lock = "none"
    /\ rs = [p \in Procs |-> NoRestart]
    /\ writers = {} /\ reboot = FALSE
    /\ active = Restored /\ listed = Plugins(Restored) /\ up = Plugins(Restored)
    /\ ops = 0 /\ raced = FALSE /\ mixed = FALSE
-----------------------------------------------------------------------------
\* The pages.  A click is taken only once the device has reacted to the one
\* before; that it has done all of its work is not required (see raced).
Click ==
    /\ ~reboot /\ ops < MaxOps
    /\ ops' = ops + 1
    /\ raced' = (raced \/ Busy)

Launch(mode) ==
    \E p \in Procs :
      /\ rs[p].pc = "none"
      /\ rs' = [rs EXCEPT ![p] = [NoRestart EXCEPT !.pc = "begin", !.mode = mode]]

\* A page saves: cfg_save, cfg_set_modified
Save(c) ==
    /\ Click
    /\ system' = c /\ modified' = TRUE
    /\ UNCHANGED <<running, flash, lock, rs, writers, reboot, services>>

\* apply.cgi, button Test
Test ==
    /\ Click /\ modified
    /\ lock' = "starting"
    /\ running' = system
    /\ Launch("test")
    /\ UNCHANGED <<system, modified, flash, writers, reboot, services>>

\* Mutant: the file that was edited last is confirmed, not the one under test
ApplyEdited ==
    /\ Click /\ modified
    /\ modified' = FALSE
    /\ IF lock = "none"
         THEN Launch("save") /\ UNCHANGED <<system, writers>>
         ELSE /\ writers' = writers \cup {SystemCfg}
              /\ UNCHANGED <<rs, system>>
    /\ lock' = "none"
    /\ UNCHANGED <<running, flash, reboot, services>>

\* apply.cgi, button Apply.  In test mode the configuration under test is
\* confirmed, and what was edited since is gone.
Apply ==
    /\ Click /\ modified
    /\ modified' = FALSE
    /\ IF lock = "none"
         THEN Launch("save") /\ UNCHANGED <<system, writers>>
         ELSE /\ system' = running
              /\ writers' = writers \cup {SystemCfg}
              /\ UNCHANGED rs
    /\ lock' = "none"
    /\ UNCHANGED <<running, flash, reboot, services>>

\* Mutant: running.cfg stays what was tested
DiscardKeepsRunning(testmode) ==
    /\ Click /\ modified
    /\ lock' = "none"
    /\ system' = Restored /\ modified' = FALSE
    /\ IF testmode THEN Launch("test") ELSE UNCHANGED rs
    /\ UNCHANGED <<running, flash, writers, reboot, services>>

\* discard.cgi.  testmode is what the page believes.
Discard(testmode) ==
    /\ Click /\ modified
    /\ lock' = "none"
    /\ system' = Restored /\ modified' = FALSE
    /\ IF testmode
         THEN running' = Restored /\ Launch("test")
         ELSE UNCHANGED <<running, rs>>
    /\ UNCHANGED <<flash, writers, reboot, services>>

\* reboot.cgi, reset.cgi
AskReboot ==
    /\ Click
    /\ reboot' = TRUE
    /\ UNCHANGED <<files, flash, lock, rs, writers, services>>

Reset ==
    /\ Click
    /\ flash' = Default
    /\ reboot' = TRUE
    /\ UNCHANGED <<files, lock, rs, writers, services>>

\* mca-config set (config_store)
Store(c) ==
    /\ Click
    /\ flash' = c
    /\ UNCHANGED <<files, lock, rs, writers, reboot, services>>

\* cfgmtd -w of language.cgi and mca-provision
StoreEdited == Store(system)

\* mca-config activate; the file is made anew or written over
Activate(c) ==
    /\ Click
    /\ flash' = c /\ system' = c
    /\ modified' \in {modified, FALSE}
    /\ Launch("none")
    /\ UNCHANGED <<running, lock, writers, reboot, services>>

User ==
    /\ UNCHANGED mixed
    /\ \/ \E c \in Cfgs : Save(c)
       \/ Test \/ Apply \/ Discard(lock # "none")
       \/ AskReboot \/ Reset

\* Whoever writes the files and the flash beside the buttons: mca-config; the
\* language page and mca-provision, which store system.cfg as it is; a page
\* that was made before a test was begun or ended.
Others ==
    /\ mixed' = TRUE
    /\ \/ \E c \in Cfgs : Store(c) \/ Activate(c)
       \/ StoreEdited
       \/ Discard(lock = "none")
-----------------------------------------------------------------------------
\* rc.softrestart, process p.  The power is on, and init has not yet killed it.
At(p, pc) == rs[p].pc = pc
Goto(p, pc) == rs' = [rs EXCEPT ![p].pc = pc]
Exit(p) == rs' = [rs EXCEPT ![p] = NoRestart]

\* Nothing to save when running.cfg and system.cfg are the same
Begin(p) ==
    /\ At(p, "begin")
    /\ IF rs[p].mode # "save" THEN Goto(p, "stop")
       ELSE IF running = system THEN Exit(p)
       ELSE rs' = [rs EXCEPT ![p].sorted = system, ![p].pc = "stop"]
    /\ UNCHANGED <<files, flash, lock, writers, reboot, services, ops, raced, mixed>>

\* Mutant: the services of the old configuration are not stopped
StopNothing(p) ==
    /\ At(p, "stop") /\ Goto(p, "conf")
    /\ UNCHANGED <<files, flash, lock, writers, reboot, services, ops, raced, mixed>>

\* rc_stop: the plugins that are listed and have their file
Stop(p) ==
    /\ At(p, "stop") /\ Goto(p, "conf")
    /\ up' = up \ listed
    /\ UNCHANGED <<files, flash, lock, writers, reboot, active, listed, ops, raced, mixed>>

\* rm sysinit, ubntconf, quagga
Conf(p) ==
    /\ At(p, "conf") /\ Goto(p, "start")
    /\ active' = system /\ listed' = Plugins(system)
    /\ UNCHANGED <<files, flash, lock, writers, reboot, up, ops, raced, mixed>>

\* Mutant: the lock is left alone
StartKeepsLock(p) ==
    /\ At(p, "start")
    /\ up' = up \cup listed
    /\ IF rs[p].mode = "save" THEN Goto(p, "save") ELSE Exit(p)
    /\ UNCHANGED <<files, flash, lock, writers, reboot, active, listed, ops, raced, mixed>>

\* Mutant: whatever was restarted is saved
StartSaves(p) ==
    /\ At(p, "start")
    /\ lock' = IF lock = "none" THEN lock ELSE "on"
    /\ up' = up \cup listed
    /\ rs' = [rs EXCEPT ![p].pc = "save", ![p].sorted = system]
    /\ UNCHANGED <<files, flash, writers, reboot, active, listed, ops, raced, mixed>>

\* The lock, rc_start
Start(p) ==
    /\ At(p, "start")
    /\ lock' = IF lock = "none" THEN lock ELSE "on"
    /\ up' = up \cup listed
    /\ IF rs[p].mode = "save" THEN Goto(p, "save") ELSE Exit(p)
    /\ UNCHANGED <<files, flash, writers, reboot, active, listed, ops, raced, mixed>>

\* What was compared at the start is saved, not what the file has become.
Finish(p) ==
    /\ At(p, "save") /\ Exit(p)
    /\ running' = rs[p].sorted
    /\ writers' = writers \cup {rs[p].sorted}
    /\ UNCHANGED <<system, modified, flash, lock, reboot, services, ops, raced, mixed>>

\* cfgmtd -w
Write(w) ==
    /\ flash' = IF w = SystemCfg THEN system ELSE w
    /\ writers' = writers \ {w}
    /\ UNCHANGED <<files, lock, rs, reboot, services, ops, raced, mixed>>

\* rc.stop waits for the writers that bgnd knows, those of rc.softrestart.
Reboot ==
    /\ reboot /\ writers \subseteq {SystemCfg}
    /\ Booted(Restored)
    /\ UNCHANGED <<flash, ops>>

\* Nobody applied in time
TestExpires ==
    /\ lock = "on"
    /\ Booted(Restored)
    /\ UNCHANGED <<flash, ops>>

\* Power, or the watchdog
PowerCut ==
    /\ Booted(Restored)
    /\ UNCHANGED <<flash, ops>>

Step(p) == Begin(p) \/ Stop(p) \/ Conf(p) \/ Start(p) \/ Finish(p)

Next ==
    \/ User \/ Others
    \/ \E p \in Procs : Step(p)
    \/ \E w \in writers : Write(w)
    \/ Reboot \/ TestExpires \/ PowerCut

Fairness ==
    /\ \A p \in Procs : WF_vars(Step(p))
    /\ WF_vars(\E w \in writers : Write(w))
    /\ WF_vars(TestExpires) /\ WF_vars(Reboot)

Spec == Init /\ [][Next]_vars /\ Fairness
-----------------------------------------------------------------------------
AllPlugins == UNION {Plugins(c) : c \in Cfgs}
Restart == [pc : {"none", "begin", "stop", "conf", "start", "save"},
            mode : {"none", "save", "test"},
            sorted : Cfgs \cup {NoCfg}]

TypeOK ==
    /\ system \in Cfgs /\ running \in Cfgs /\ active \in Cfgs
    /\ flash \in Cfgs \cup {NoCfg}
    /\ modified \in BOOLEAN /\ reboot \in BOOLEAN
    /\ raced \in BOOLEAN /\ mixed \in BOOLEAN
    /\ lock \in {"none", "starting", "on"}
    /\ rs \in [Procs -> Restart]
    /\ writers \subseteq Cfgs \cup {SystemCfg}
    /\ listed \subseteq AllPlugins /\ up \subseteq AllPlugins
    /\ ops \in 0 .. MaxOps

Waited == ~raced /\ ~reboot
Alone == Waited /\ ~mixed

(* When all work is done, the device runs what running.cfg says.  With no test
   under way that is also what a power cut brings back, and what the pages
   show unless they say that there are changes. *)
Settled ==
    Alone /\ ~Busy =>
      /\ active = running
      /\ lock = "none" => active = Restored /\ (modified \/ system = active)

NothingToDo(p) ==
    At(p, "begin") /\ rs[p].mode = "save" /\ running = system
      => active = system /\ Restored = system

(* "Nothing to save, no need to restart": a soft restart that leaves at once
   because running.cfg and system.cfg are the same leaves a device that runs
   this configuration and has it in the flash. *)
NothingToSave == \A p \in Procs : Alone => NothingToDo(p)

(* The same, whoever changes configurations beside the page. *)
NothingToSaveEver == \A p \in Procs : Waited => NothingToDo(p)

(* When all work is done, the plugins that run are those of the configuration
   and quagga: none is left over from an earlier one. *)
ServicesMatch == Waited /\ ~Busy => up = Plugins(active)

(* Short of a reset, the flash gets a configuration only when the device runs
   it. *)
KeepsWhatRuns == [][Alone' /\ flash' # flash => flash' = active]_vars

(* A test does not touch the flash, so that its end takes everything back. *)
TestLeavesFlash == [][Alone' /\ lock # "none" /\ lock' # "none" => flash' = flash]_vars

(* A test comes to an end, by the user or by a reboot.  This needs no patience. *)
TestEnds == lock # "none" ~> lock = "none"
=============================================================================
