# A verification development for the link layer of airos_dynamic_routing

The repository is the firmware SDK of an airOS wireless router (three releases,
of which `src/SDK.UBNT.v5.3` is the newest; the others are earlier copies of the
same tree) with hooks that start the quagga routing daemons after a soft
restart.  Most of it is a build system: makefiles, kernel patches, patches of
other programs.  The part that is a program with state of its own, and the part
a wrong step of which takes a remote router off the air, is the control of the
point-to-point link: `package/ppp/src/pppd`, whose sources are in the tree,
modified by the vendor (monotonic callout list, redial back-off).  This
development models it from the inside out, together with the two parts it stands
on: the list of timed calls, and the PPPoE discovery that finds the other end.  The
other part with state of its own that a user can lose is the configuration: the scripts
that restart the services, test a configuration and write it to the flash.

Paths below are relative to `src/SDK.UBNT.v5.3/openwrt`; `pppd/` is
`package/ppp/src/pppd/`.

## 1. Inventory

| part | source | state | operations |
|---|---|---|---|
| negotiation automaton | `pppd/fsm.c`, `fsm.h` | `state`, `id`, `reqid`, `seen_ack`, `retransmits`, `nakloops`, `rnakloops`; a callout entry | `fsm_lowerup`, `fsm_lowerdown`, `fsm_open`, `fsm_close`, `fsm_timeout`, `fsm_input`, `fsm_protreject` |
| option procedures | `pppd/lcp.c`, `ipcp.c`, `ccp.c` | want / got / allow / his options per unit | `resetci`, `addci`, `ackci`, `nakci`, `rejci`, `reqci` |
| LCP glue, echo | `pppd/lcp.c` | `lcp_echos_pending`, `lcp_echo_timer_running`, `delayed_up` | `lcp_up`, `lcp_down`, `lcp_finished`, `LcpEchoCheck`, ... |
| phases, authentication | `pppd/auth.c` | `phase`, `auth_pending`, `auth_done`, `num_np_open`, `num_np_up`, `unsuccess`, auth scripts | `link_established`, `link_down`, `link_terminated`, `auth_peer_success`, `network_phase`, `np_up`, `np_finished`, ... |
| CHAP, PAP | `pppd/chap-new.c`, `upap.c` | client and server flags and timers | challenge, response, status; request, ack, nak |
| IPCP | `pppd/ipcp.c` | `ipcp_is_up`, `ipcp_is_open` | `ipcp_up`, `ipcp_down`, `ipcp_finished`, `ipcp_protrej` |
| main loop | `pppd/main.c` | signal flags, `kill_link`, `persist`, children | `main`, `handle_events`, `get_input`, `reap_kids` |
| callout list | `pppd/main.c` | `callout`, `uptime_diff`, `start_time` | `timeout`, `untimeout`, `calltimeout`, `timeleft`, `check_time`, `reset_link_stats` |
| PPPoE discovery | `pppd/plugins/rp-pppoe/discovery.c`, `plugin.c` | `struct PPPoEConnection`, `struct PacketCriteria`, attempts | `discovery`, `waitForPADO`, `waitForPADS`, `parsePADOTags`, `PPPOEConnectDevice`, `PPPOEDisconnectDevice` |
| CCP, demand dialling, other protocols | `pppd/ccp.c`, `demand.c`, `ipv6cp.c`, ... | compressor reset state, packet queue | |
| configuration, soft restart | `package/ubnt-base-files/files/usr/etc/`, `package/ubnt-web/src/*.cgi` | `/tmp/system.cfg`, `/tmp/running.cfg`, the flash, `startup.list`, test mode lock | save, apply, test, discard, soft restart, reboot |

How they interact.  pppd is one process that runs one event at a time.
`main()` takes the events: a due entry of the callout list (`calltimeout`), a
frame of the peer (`get_input`), a signal, the end of a child.  A frame goes to
the `input` function of its protocol and from there to `fsm_input`; the automaton
answers by frames and by the callbacks `up`, `down`, `starting` and `finished` of
its owner.  LCP is at the bottom: its callbacks call `link_established`,
`link_down` and `link_terminated` of `auth.c`, which bring the layers above
(authentication, then IPCP and CCP) up or down through `protent.lowerup` and
`lowerdown`.  The other direction is `lcp_close`, which any of them may call.  Before
LCP there is the device: with the rp-pppoe plugin `connect` is a whole discovery, which
waits in `select()` of its own and returns to `main()` with a session or without.

The device starts pppd, as it starts every service, from the plugins of its startup
list.  `rc.softrestart` stops them, lets `ubntconf` make a new list from
`/tmp/system.cfg`, lets the quagga hook add its own line, and starts them.  The pages of
the web interface (`apply.cgi`, `discard.cgi`) copy configuration files and start it in
the background; `cfgmtd` writes the flash.

What is hard about it.  Nothing runs in parallel inside pppd, but every
function may be called in every state: the peer may send any frame at any
time, timers fire between any two frames, the user opens and closes at will,
and callbacks call back into the automaton they come from.  Frames are lost,
repeated and late.  Timers and flags of one session survive into the next when
one of a dozen cleanup calls is missing.  `PROJECT.json` lists these places,
line by line, as hazards with the properties that cover them.

What makes each part correct:

- automaton: a timer exactly while waiting, callbacks that alternate, the last
  wish of the user kept, counters that end every exchange, the same options at
  both ends when both are open;
- authentication: the network phase is reached only through every
  authentication that was asked for, and is reached when they succeed;
- phases: the counters of network protocols agree with the protocols, no timer
  of a dead session fires in the next one, a dead session ends in a redial or
  in the exit;
- callout list: it stays in order, no call is early, none is slept past, whatever is
  done to the clock of the system;
- discovery: a session is opened with the answer to its own request, at the
  concentrator that was asked for, and waiting ends;
- configuration: a saved configuration is the running one, a test leaves the flash
  alone and ends, and no service of an earlier configuration runs on.

## 2. Modules

- `FsmOps`: `fsm.c` as operators on one `fsm` record.  Each C function is one
  operator from the record before the call to the record after it, and a
  function that calls another is the composition, so nothing the C function does
  is a separate step.  Field for field the record is `struct fsm`, with the
  negotiated option of the unit (`go`: what we ask for, `ho`: what we
  acknowledged), the number of `fsm_timeout` entries in the callout list
  (`timers`), the frames sent (`out`) and the callbacks made (`calls`, and their
  balance `upper`) in the call.
- `PppFsm`: one fsm against an arbitrary peer.  One action per entry point of
  `fsm.c`.  `lower` and `open` are history variables that record the last call
  from either side; no action reads them.
- `LayerContract`: what an fsm promises to the layer above it.  It knows only
  whether the lower layer is up, whether the user wants the layer, and whether
  the upper layer has been told up.
- `PppLink`: two fsms and a FIFO in each direction that loses frames.
- `SessionOps`: everything between the automaton and the main loop, as operators on
  one record `s` that holds the globals of the files involved: the glue of `lcp.c`
  and `ipcp.c`, the phases and authentication of `auth.c`, CHAP, PAP, and how many
  entries of each function the callout list has (`s.timers`).  LCP and IPCP are fsms
  of `FsmOps`; a fsm function is run first (`Lowerdown(s.lcp)`) and then the
  callbacks it made are run in order (`LcpRun`, `IpcpRun`).  An
  operator is one C function with all it calls, so that `lcp_close` from a network
  protocol takes down the network, the authentication and the link in one step, as
  the program does.
- `PppSession`: `main()` around that record.  `pc` is the place in `main()`, `got` the signal
  flags, `quit` is `asked_to_quit`.  One action for each thing that `handle_events()` can
  wake up for, run to its end, and one for each step between two sessions.
- `SessionContract`: what pppd promises about a link: network only over an open link
  with every agreed authentication done, down with the link.
- `Callout`: the callout list of `main.c`.  A time is a number of ticks, an entry is
  its time (`c_time`), its function, and as a history the uptime `due` at which the call
  was wanted.  `pc` is where the program is: outside, in `select`, in `calltimeout`, or
  in a function that is called.  One action per function of the program (`Timeout`, `Untimeout`, `StartLink`,
  `ResetLinkStats`), and one per place at which time can pass or the clock be set between
  two statements that read it (`Wait`, `CallTimeout`, `Fire`, `Return`, `Leave`).  `check_time` is part of
  the actions that call it.  `SignalInCheckTime` is the `siglongjmp` out of it, with none,
  some or all of the entries moved and `uptime_diff` not set yet.
- `PppoeDiscovery`: one connect after another of a pppd, with its access concentrators, on
  a segment that is a set of frames: a frame that was sent may be received once, often,
  late, or be lost.  `at` is the wait pppd is in, `conn` the `struct PPPoEConnection`, `pc` the
  `struct PacketCriteria`.  The concentrators are the environment: they offer, grant and
  refuse, to this pppd and to another one on the same machine, told apart by Host-Uniq.
  `offers` is a history of the tags that were read in the present wait for a PADO.
- `AirosConfig`: files, flash, lock and services of the device.  A button of a page is one
  action; a run of `rc.softrestart` is a process of five steps (`Begin`, `Stop`, `Conf`,
  `Start`, `Finish`), of which several may run; a `cfgmtd -w` in the background is an element of
  `writers`.  `Others` are the writers beside the buttons: `mca-config`, the language page,
  `mca-provision`, and a page that was made before the test mode changed.
- `FsmLemmas`: what each function of `fsm.c` does to any fsm, as lemmas about `FsmOps`.
- `FsmProofs`, `SessionProofs`, `CalloutProofs`, `PppoeProofs`, `ConfigProofs`: the theorems
  about `PppFsm`, `PppSession`, `Callout`, `PppoeDiscovery` and `AirosConfig`.  The first two
  stand on `FsmLemmas`, and so does `LinkProofs`, about `PppLink`.  `TimerProofs` goes on from
  `SessionProofs`.
- `MCPppFsm`, `MCPppLink`, `MCPppSession`, `MCCallout`, `MCPppoe`, `MCAirosConfig`: values of
  the constants for TLC.

### The abstraction

Options are one value.  A CI procedure of `lcp.c`, `ipcp.c` or `ccp.c` treats
every option alike: it acknowledges a value it accepts, rejects one it does not
know, naks the rest with a suggestion; it takes a suggestion over or keeps its
own value, and drops an option that is rejected.  `Accepts`, `Refuses`,
`Hint`, `Adopts` and `Drops` are these choices, per unit.  A frame whose option
list is malformed carries `Garbage`.  The length checks that make `fsm_input`
drop a frame are left out: a frame that is dropped changes nothing.

`rnakloops` is only compared with `maxnakloops`, and stops there in the model.
Identifiers wrap at `IdMod`, 256 in the program and 3 or 5 in the runs, so that
the runs include the wrap.

In `PppFsm` and `PppLink` the upper layer's callbacks are recorded, not run; in
`SessionOps` they are run when the fsm function returns.  That has the same result:
`fsm.c` calls `up` and `finished` after it has changed `f->state`, and what it does to the fsm
afterwards (`nakloops = 0`) no callback reads or writes; `down` is called before the state
changes in most places, but nothing below `lcp_down` or `ipcp_down` reads the state of
the fsm it comes from or calls back into it.  `lcp_nakci`, which closes
the link from within when it finds it looped back, is not modelled yet.

In `SessionOps` and `PppSession`:

- The option of LCP is the authentication protocol, so that the verdicts of `FsmOps` say
  what each end asks for, accepts and falls back to.
- The peer answers the current request (`IdMod = 1`); frames with an old identifier are
  the subject of `PppFsm` and `PppLink`.
- Secrets, digests and addresses are right or wrong (`ok`).
- Signals may come at any time.  One that comes while a step runs, after `main()` has
  looked at the flags, has the effect of one that comes right after the step; hence
  the other steps have the guard `got = {}`.  A round that takes a signal may also read a
  frame first (`TakeSignals`), in the order of the session loop.
- Several timers may be due in one `calltimeout()`, so a timer may fire in phase DEAD
  when the one before it has ended the link.
- The scripts exist and can be run, as can `fork()`; they may run for any time.  The echo
  interval, `us_timeouttime` and `us_reqtimeout` are not 0; `maxconnect` and `maxoctets` are 0;
  the peer must authenticate itself when it was asked to (`null_login` fails and there
  are no `noauth_addrs`).
- The kernel takes the settings of the interface: `ppp_send_config` and `ppp_recv_config`
  succeed.  When one fails `lcp_lowerup` returns early (`lcp.c:433`) and LCP stays in STARTING
  without a timer, which `TermObeyed` and the liveness of section 3 do not cover.
- An `Echo-Request`, an unknown protocol, `SIGUSR1`, `SIGUSR2` and fatal errors are left out.
- The callout list is a count per function: any order in which entries may be due is
  possible.  `Callout` is about the list itself.

In `Callout`:

- `c_time` is a pair of seconds and microseconds that the program keeps normalised and
  compares in lexicographic order; a tick stands for both, `Second` of them to a second.
  `uptime_diff` is in seconds, as in the program, and so is the rounding of `check_time`.
- The clock may be set at any time, except between `check_time` and the
  `gettimeofday` that follows it in `timeleft` and `calltimeout`: a few instructions
  apart, they are one step.
- A jump that `check_time` does not see in time makes the times wrong: when the clock
  was set and `timeout` is called before the next wait, when it is set while the functions
  that are due run, and when a signal ends `check_time` half-way.  The history `upset`
  records this (with `torn` for the last, when it came between two entries), and the properties are about the states before it;
  the steps themselves are all there.  `drift` adds up what the jumps may cost: all of a jump
  that is too small for a correction, less than two seconds of rounding for any other.

In `PppoeDiscovery`:

- A name or a service is right or not right, per concentrator (`Named`, `Serving`).
  The flags of `PacketCriteria` add up over the PADOs of one wait, as in the program.  With
  two criteria at once, or when a PADO lacks a tag, the AC that is chosen need not meet what
  another one offered.  `MCPppoe` has both cases; `ChosenByOffers` says how far the choice may
  be trusted there, and section 4 has the condition under which the AC is the right one.
- `waitForPADS` copies the session of a packet that it may not have received: any
  session.  The cookie (and the relay id, which is treated alike) stays from connect to connect.
- The program does not double its timeouts: the line that would is in an `#if 0`.
- `rp_pppoe_sess`, the options that skip a phase, and the raw socket are left out.

In `AirosConfig`:

- A configuration is one value, and `Services` says which plugins `ubntconf` sets up for
  it.  A file is read or written in one step.
- The user clicks at any time.  `raced` records that the device had still work to do, `mixed`
  that one of `Others` was at work; most properties are about a patient user, and
  those that are not say so.
- `cfgmtd` and `ubntconf` are programs of the firmware without source here; they are modelled
  from how the scripts use them.  `config.cgi` is linked from no page and is left out.

## 3. What the runs check

`fsm` (`MCPppFsm.cfg`) has three units: one with the defaults; one with
`OPT_RESTART`, `OPT_SILENT` and no retransmissions, the corner of
`terminate_layer` and of the second open; one with `OPT_PASSIVE` and the reject
procedure of `ccp.c`.  The peer sends any frame with any identifier and any
option at any time, and the layers above and below call at any time.

- `TimerInv`: one callout entry in the states that wait, none in the others.
- `IntentInv`: the state agrees with what the layer below and the user said
  last.
- `UpperInv`: `up` and `down` alternate.
- `AckInv`: no state in which our request is acknowledged accepts a second
  answer; the branches of `fsm_rconfack` and `fsm_rconfnakrej` for an "extra"
  one in ACKRCVD and OPENED are dead code.
- `RetransmitInv`: the counter is within the limit of the exchange it is used
  for, whichever exchange used it before.
- `TerminationReported`: whoever leaves CLOSING or STOPPING downwards calls
  `finished`, or the link would never be taken down.
- `ContractSpec`: the fsm implements `LayerContract`, by the mapping
  `upper <- f.upper = 1`.
- `TerminationEnds`: CLOSING and STOPPING are left whatever the peer sends.

- `NegotiationGivesUp`: a peer that falls silent, at whatever point, does not keep us
  negotiating.  (With a peer that goes on talking this is false, and should be: a peer may
  start over as often as it likes.)

`link` (`MCPppLink.cfg`) has two ends, one that adopts the suggestion of the other
and one that insists until its option is rejected.

- `Agreement`: an end that is open uses what the other end acknowledged last, also while
  that one is closed or negotiates again.
- `AckOfCurrent`: an acknowledgement that will be accepted is one for the options
  in use.
- `IdsFresh`: a new request takes no identifier that is still on the line.  This is what
  the `u_char` is for, and it is not true of every line: one that keeps a frame for 256
  requests breaks it.  It is the hypothesis of the theorems about this run (section 4).
- `Converges`: two ends that negotiate with retransmissions to spare both open
  and stay open.

The runs of `MCPppSession` differ in the configuration of pppd and in the question.
The peer sends any frame the configuration knows, at any time.

`client`: a serial line with a connect script, `persist`, `holdoff`, an idle timer, and a
peer that asks for PAP or nothing.  `lcp_lowerup` is delayed by `listen_time`, and `SIGHUP` and
`SIGTERM` come at any time.

- `CalloutInv`: the callout list is what the flags say: the echo, CHAP, PAP and idle
  entries are there exactly when their owner waits for them.  A cleanup call that is
  missing on one of the many ways out of a session breaks it.  The entries of the servers
  have no owner in this configuration; `CleanSlate` is about them in `mutual`, and theorem
  `CalloutCorrect` for any configuration.
- `RunningInv`: the interface is configured exactly in RUNNING.  The one exception is named in
  it: `holdoff_end`, left in the callout list by a `SIGHUP` that cut a holdoff short
  (`main.c:611`), may set the phase of a later link to DORMANT while the interface is up.
- `ScriptsInv`: a script that has exited leaves the world told of the present state,
  however often the link changed while it ran.
- `DelayedInv`: a delayed `lcp_lowerup` is done or called off, never forgotten.

`mutual`: both ends authenticate, pppd challenges the peer again while the link runs, with an
idle timer, `SIGHUP`, `persist` and no holdoff.

- `AuthFirst`: the network phase only after every authentication LCP agreed on was
  acknowledged on the line in this session.  `success` is a history variable, set where
  the acknowledgement is sent or taken and cleared when LCP goes down; no operator
  reads it.
- `AuthWaits`: the other side of it, that what was acknowledged is not waited for any
  more, in whatever order the two directions succeed; only a server that starts with
  `AUTH_DONE` tells success and goes on waiting, which is what `chap_stuck` shows.
- `CleanSlate`: while LCP is not open nothing that it carried goes on: no protocol above
  it, no count, no authentication, no entry of theirs in the callout list, and without a device LCP
  does not negotiate.  Not everything is as in the first dial.  What survives is listed at the
  definition: `auth_pending` and `ipcp_is_open`, which the next session sets; BADAUTH of the
  PAP server; `AUTH_DONE` of the CHAP server, the cause of `chap_stuck`; and entries of
  `upap_timeout`, `lcp_delayed_up` and `holdoff_end`, which nobody cancels.
- `ContractSpec`: pppd implements `SessionContract`.

`client_live`: liveness for a PPPoE client whose peer may die.  `TermObeyed`: a
`SIGTERM` ends pppd from every state.  `DeathNoticed`: a dead peer loses the link.
`GivesUp`: with `maxfail` the redialling ends.  The only signal of this run is `SIGTERM`.

`callout` (`MCCallout.cfg`): the clock is set by half a second, by ten seconds forward and
by eight back, between any two steps.

- `Sorted`: the list is in order, across the corrections and the calls made by functions.
- `Kept`: the times are what was asked for, up to `drift`.
- `WakesInTime`: the wait ends before the first call is late.
- `NeverEarly`, `NoneOverdue`: no function is called before its time, and none is left in
  the list when the functions that are due have been called.

`pppoe` (`MCPppoe.cfg`): the provider and a neighbour that answers too, whose PADO may lack
tags, a second pppd, several connects.

- `SessionOfPeer`: the session that is opened is one the chosen concentrator gave to this
  pppd, not a late one, not the other's, not the garbage of a wait without answer.
- `ChosenByOffers`: the concentrator that is asked was chosen by the PADOs read in this wait,
  whatever was read in an earlier one: it sent one of them, and between them they had the wanted
  name and the wanted service, each from one that has it.  This is what `waitForPADO` does, and
  less than one would wish: the flags add up over the PADOs (`discovery.c:120-133`), so that with
  two criteria, or with a concentrator of the right name that sends no service, none need have
  both.  The run has no criterion, either, both, and such a concentrator.
- `ConnectEnds`: every connect ends, whatever is sent.

`config` (`MCAirosConfig.cfg`): three configurations, two soft restarts at a time.

- `Settled`: when the work is done, running services, `running.cfg`, the flash and what
  the pages show agree.
- `NothingToSave`: a soft restart that leaves at once leaves the right thing running.
- `ServicesMatch`: the plugins that run are those of the configuration and quagga.
- `KeepsWhatRuns`, `TestLeavesFlash`: what may be written to the flash, and when.
- `TestEnds`: a test comes to an end.  This is about every user, patient or not.

Nothing is said of which services are up while two soft restarts run at once, nor after: they
stop and start the same plugins in any order.  The model has these steps, and the hazard
of `rc.softrestart` is listed without a property.

The type invariants of `PppLink` and `PppSession` are in the runs; those of all modules are
proved (section 4).

### What the runs show to be wrong

Each of these is a run that expects a violation, and a finding in `PROJECT.json`.

- `chap_stuck` (`AuthCompletes`): after a wrong CHAP response `AUTH_DONE` is set in flags
  that were already reset; in the next session a right response is told success but
  the network phase does not come.
- `delayed_quit` (`QuitEnds`): `SIGTERM` during `listen_time` closes LCP in STARTING, which
  calls nobody; the phase stays TERMINATE for ever.
- `lost_term` (`TermObeyed`): `connect_tty` clears `got_sigterm`.
- `nothing_to_save` (`NothingToSaveEver`): `rc.softrestart` takes `running.cfg` for the
  configuration that runs and is in the flash.  `mca-config` changes both and leaves `running.cfg`
  alone; to apply what it still says then does nothing.

`QuitEnds` has another counterexample, which needs a `SIGHUP` and is not the trace of
`delayed_quit`, in the hazard at `main.c:611`: a `SIGHUP` ends the
holdoff but leaves `holdoff_end` in the callout list, which sets the phase of the next
session to DORMANT.  When it is due in the `calltimeout()` in which the timer of LCP ends that
session, the phase goes from DEAD to DORMANT and the session loop goes on without a
device or a timer.

Bounds.  `MaxConfReq`, `MaxTermReq` and `MaxNakLoops` are 10, 2 and 50 in the
program; the code only compares them with counters, and the runs use values
that reach both sides of each comparison, 0 included.  In `PppLink` the users and
lower layers make at most `Moves` calls, which is enough to bring both ends up
and to take one of them down again, from both sides, during any exchange;
`Faults` bounds the frames lost and the timeouts that come before the answer.
`PppFsm` has no bound on its steps.

`PppSession` has no bound on its steps either.  The retransmission limits are 1, `maxfail`
is 2 and the slow-down starts after 1 or 2 attempts (60 in the program), so that the
runs go through several sessions and past each limit: what a session can leave behind
is seen in the next one.  `unsuccess` stops above both limits, the only values it is
compared with.  `MaxStale` bounds the entries that nobody cancels (`upap_timeout`,
`lcp_delayed_up`), of which every session may add one, and those of `holdoff_end` that a
`SIGHUP` leaves (the guard of `Signal`): one entry is enough for it to meet the next
session.

`MCCallout` has two ticks to a second, a tolerance of 1 second (5 in the program), two
functions, a list of at most two, three ticks of uptime and two jumps: a small jump and two
large ones, so that a correction follows a jump that was let through, and one follows another.
`MCPppoe` has two attempts (3 in the program), one session per concentrator and at most
three frames on the segment when a concentrator answers; late frames of one connect meet the next, as
connects are not bounded.  `MCAirosConfig` has three configurations, so that the old, the tested
and the edited one differ, two processes, and five operations of the user between Init and
the end, power cuts and reboots not counted.

Deadlock.  The specifications may stop: an fsm that is up with a silent peer
and no user has nothing to do, pppd exits, the uptime is bounded and so are the
operations of the user.  The runs therefore do not check for deadlock;
that nobody waits for ever is what `TimerInv` and the liveness properties say.

Fairness.  `main()` calls `handle_events()` in every round, which calls
`calltimeout()`, so a timer that is due fires: `WF_vars(TimerFires)`.  `PppFsm` assumes
nothing of the peer, the user or the lower layer.  In `PppLink` the
retransmission timer is longer than the round trip unless a fault is spent
(`TimerFires` with frames on the line counts as one), so the action is disabled
again and again by frames that come and go; the real timer runs meanwhile and
fires whenever no answer comes, which is `SF_vars(TimerFires(e))`.  Frames on the
line arrive or are lost: `WF_vars(Receive(e))`.  In `PppSession` a round of `main()` that has
something to do does it, and a timer that is due fires: weak fairness of `Between`,
`Round` and `Due`.  For `Round` and `Due` it is written out, with the conditions under which
they are enabled (`RoundReady`, `TimerRuns`), since TLC needs very long to evaluate
ENABLED of these two.
Nothing is assumed of the peer, the signals or the scripts; `child_wait`, 5 in the
program, limits the wait for the scripts.  `NegotiationGivesUp` states the silence of the peer itself, as
its premise.

In `PppoeDiscovery` both waits compare the clock with their end in every round, whatever they
read, so the end of a wait comes: weak fairness of `PADOTimeout` and `PADSTimeout`.  In `AirosConfig`
a script runs on, a writer writes, the background `sleep` of the test mode ends in a reboot, and a
reboot that was asked for is done, each by weak fairness; nothing is assumed of the user.

## 4. What is proved

Each theorem holds for every value of the constants that meets the named assumptions
of its module; the bounds of the runs are constants too.

`FsmProofs`, for every set of units, options, flags, CI choices and limits and for
every peer, from `UnitsAssumption` and `BoundsAssumption`:

- `TypeCorrect`, `TimerCorrect`, `IntentCorrect`, `UpperCorrect`, `AckCorrect`,
  `RetransmitCorrect`: the type invariant and the five invariants of the run `fsm`;
- `TerminationReportedCorrect`: the action property of that run;
- `ContractRefined`: `Spec => ContractSpec`.

The argument.  `IndInv` is the conjunction of the six and is inductive
(`Invariance`).  The conjuncts need each other: a transition out of OPENED is
right about the callout list only since no timer runs there (`TimerInv`), and
calls `down` once only since `up` was called (`UpperInv`); the branches that would
break `RetransmitInv` and `TimerInv` in ACKRCVD and OPENED are excluded by `AckInv`.
The proof goes function by function: one lemma of `FsmLemmas` per operator of `FsmOps` says
what it preserves of `Inv`, the part of `IndInv` about one record, and for the functions
that move the layer, where they may leave the state; an action is then one
citation.  `ContractRefined` maps each action to the step of `LayerContract` it
is, with the invariant to know which.

`LinkProofs`, for every two units on a line, with any options, limits and flags, any number of
calls, lost frames and late answers, from the assumptions above and `LineAssumption` (a line has
two ends, and there is more than one identifier):

- `TypeCorrect`;
- `AgreementCorrect` and `AckOfCurrentCorrect`, as `Spec /\ IdsFresh => []...`: for the runs in
  which no new request takes an identifier that is still on the line.  Without that they are
  false, since `fsm.c` knows a frame by its `u_char` alone; the run `link` shows that
  the hypothesis is met on its instance, with five identifiers for what one fault can keep back.

The argument.  `Agreement` is about the ends alone, but what makes it true is on the line.
`LinkInv` says of each end that negotiates or is open (`Understood`): the request in force is the
last one on its line, so that no older one comes after it (`InOrder`), a request or an
acknowledgement with its identifier carries its options, and from the moment the other end has
acknowledged it, with the acknowledgement still on its way or taken, that end remembers these
options, would acknowledge them again if the request comes twice, and has no older request
to come that would make it forget them.  The proof has three levels: what each function of `fsm.c`
does to the request in force and what it answers (`Steady`, `Reacts`); what a line is after an
event at either end (`OwnSide`, `OtherSideReacts`, `OtherSideSteady`) or a loss (`PartUnderstood`);
and that every action is such an event (`Steps`).

`SessionProofs`, for every policy of authentication, all limits and options of pppd, every
peer and every order of frames, timers and signals, from the assumptions above,
`SessionAssumption`, `MainAssumption` and `EventsAssumption` (the shape of what a peer can
send):

- `TypeCorrect`, and `AuthFirstCorrect`, the first invariant of the run `mutual`;
- `ContractRefined`: `Spec => ContractSpec`, the refinement of that run.

The argument.  `AuthFirst` alone is not inductive: what is not acknowledged yet must still be in
`auth_pending`, or the next success would start the network.  Between two steps of
`main()` the session is therefore `Quiet` (LCP is not open, nothing above it has started,
no CHAP server waits to challenge) or `Proved` (LCP is open, what it agreed on is
acknowledged or pending, and nothing is pending in the network phase).  Inside a step it may be
neither, while `lcp_up` runs through `link_established` or a callback closes the link that it was
called from; the fact that carries the proof is that `lcp_close` makes any session whose
LCP is open `Quiet` (`LcpCloseEffect`).  Of the automaton it needs that a function calls
`up` exactly when it enters OPENED and `down` exactly when it leaves it, and that the
options of an open fsm do not change (`Candid`, in `FsmLemmas`).  The refinement needs one
relation more, `Lawful`, between the session before and after each function: while the
link stays open its options stay, at most one authentication is acknowledged, and IPCP does not
open in the call that acknowledges it, nor in the one that opens LCP.

`TimerProofs`, from the same assumptions: `CalloutCorrect` and `ScriptsCorrect`, for the run
`client`.  The timers of the two servers, which that run does not have, are under the first.

The argument.  Both hold between the steps of `main()` and neither inside one: `calltimeout` takes
an entry off before it calls the function, `upap_rauthreq` takes its own off after it has
answered, a script starts after the state has changed.  `Tidy(s, m)` is what every function
keeps: the counts of the list with `m` for the PAP server, 1 between the steps, 0 in
`upap_reqtimeout`, 2 in `upap_rauthreq`; the scripts; and that the peer is not timed (`Off`) unless
LCP is open.  It says more than the two invariants, and must: `upap_lowerup` would set a second
timer if the PAP server could be PENDING, and `np_down` would leave the idle timer if
`num_np_up` did not count what `ipcp_is_up` says.  That `lcp_close` brings any session to `Off`
(`LcpCloseTidy`) is again what carries it through the callbacks.

The second half of the module, without a word about the past: `CleanSlateCorrect`,
`AuthWaitsCorrect` and `DelayedCorrect`, and `RunningCorrect`, whose proof has two cases.  Without
`SIGHUP` no entry of an earlier holdoff is ever left (`Calm`, by `CalmAlways`), and the interface
is configured exactly in RUNNING; with it, such an entry can change the phase and nothing
else (`ConfiguredAlways`).  One theorem has a hypothesis: `AuthCompletesCorrect`,
`Spec /\ []ChapStartsAnew => []AuthCompletes`.  `ChapStartsAnew` says that CHAP's server is not
DONE with anything while LCP is down; the run `chap_stuck` is how it can be, so that the
theorem says that this is the only cause.

The argument.  `Slate` is kept by every function.  Its `Core` is about the device: with LCP not
open nothing above it has started (`Clear`), without a device or after a hangup LCP is below and
will not be brought up (`Low`), and a delayed `lcp_lowerup` has its entry.  Its `Agenda`
is about an open LCP: what was acknowledged is not waited for (`Owes`, `Heard`),
AUTHENTICATE waits for something, and the interface is up in RUNNING (`Shows`).  Inside
a step the `Agenda` fails where LCP is taken down, and there `Core` alone goes on: what fails
closes LCP (`CloseSlate`), which makes the session `Clear` whatever it was.  `Held` adds what
`main()` knows between two steps, that there is a device in a session only and no hangup
in a dial.  `W` is what is known of the past: with "calm" no entry of an earlier holdoff
is left (`Calm`), with "clean" CHAP began each link anew.  One proof for every `W` gives
all the theorems of this half.

`CalloutProofs`, for every set of functions, delays and jumps, every length of a second and
every tolerance, from `CalloutAssumption`: `TypeCorrect`, `SortedCorrect`, `KeptCorrect`,
`WakesInTimeCorrect`, `NeverEarlyCorrect`, `NoneOverdueCorrect`, all that the run checks.  The
invariant `CInv` adds three parts to the four that are claimed: `Accurate` (how far
`uptime_diff` may be from the truth, between two looks at the clock), `Current` (in
`calltimeout` the clock is the one `check_time` saw, unless the list is upset) and `Consistent`
(a wait with a call to come has an end; a list that is torn is upset).  `Kept` is inductive only with
`Accurate`: the lemma about `Correction` says that what is added to the times and what
the clock was set by differ by no more than `Cost`, with the two roundings of the
difference in seconds; everything else follows from it.

`PppoeProofs`, from `DiscoveryAssumption`, for any concentrators, criteria and missing tags:
`TypeCorrect`, `SessionOfPeerCorrect` and `ChosenByOffersCorrect`.  `SessionInv` adds to
`SessionOfPeer` that every PADS of the segment which gives us a session names one that its sender
has granted (`GrantsKept`), late or not.  `OfferInv` adds to `ChosenByOffers` that a PADO on the
segment has a tag and a sender (`OffersSent`), and that a flag which is set stands for a tag
read in this wait, or for a criterion nobody asked for (`FlagsOffered`).

`RightACCorrect` is the stronger claim where it is true: the concentrator that is asked meets the
criteria, under the assumption that every set of options is `Unambiguous`: it has
`verbose` (which never asks for a session), or at most one criterion, which only concentrators meet
that send all tags.  No run checks `RightAC`, since `MCPppoe` has ambiguous options.  `ChoiceInv`
adds what the offers of the segment may look like (`OffersComplete`), and that in the wait no
flag is set that would let a wrong one pass (`NotYetMet`, `OnlyLists`).

`ConfigProofs`, for every set of configurations and plugins and any number of soft restarts,
from `ConfigAssumption`: `TypeCorrect`, `SettledCorrect`, `NothingToSaveCorrect`,
`ServicesMatchCorrect`, `KeepsWhatRunsCorrect`, `TestLeavesFlashCorrect`, all that the run checks but the liveness.
`ConfigInv` says what a patient user may rely on while work is under way.  For `ServicesMatch` this is that one
process at most is at work, and that what is up is what is listed, or on its way there
(`WaitedInv`).  For the others (`AloneInv`) each place in `rc.softrestart` has its form, of which
files already agree with what: one for a restart that saves (`SavingForm`), one for a test
(`TestingForm`), one for a writer (`Writing`); without any of them the state is `Settled`.

Only model-checked: all liveness, which is out of the prover's reach; `IdsFresh` of `PppLink`,
which rests on the bounds of the run: with enough faults the identifiers wrap while an old
answer is still on the line.  `AuthCompletes` without the hypothesis of its theorem is false:
the run `chap_stuck` finds it violated.

## 5. Not modelled, and the plan

Not modelled: CCP but for the way it ends its requests (`CeaseRequests` of `FsmOps`); demand
dialling; IPv6CP, IPXCP, ECP, CBCP, EAP and multilink, which the build of the device does not
configure; a `fork()` that fails; an `ioctl` that fails in `lcp_lowerup` (`lcp.c:433`); the
loopback of `lcp_nakci`; `SIGUSR1`, `SIGUSR2` and
fatal errors; the socket code of rp-pppoe.  The mtd and nvram tools are one loop over a flash
device whose layout is their point; the button driver has a single work item.  Everything
else of the repository, by far the most of it, is a build system with the patches, kernels and
drivers of other authors, and two earlier copies of the same tree; `PROJECT.json` gives the
reason for each part.

What could follow, in this order:

1. Proofs: every safety property that a passing run checks, but `IdsFresh`, is stated by a
   theorem.  What is left is `IdsFresh` for a bounded number of faults.
2. CCP: the reset exchange and the compressor's state, as a second protocol of
   the network phase next to IPCP, so that `num_np_open` counts more than one.
3. Loopback: an fsm whose line is its own, with the re-entrant `lcp_close`; a `fork()`
   that fails; demand dialling.
