---------------------------- MODULE StorageBringup ----------------------------
(***************************************************************************)
(* The storage bring-up of a diagnostic 5.10 boot, as stages 94, 94b and   *)
(* 95 instrument and bridge it.  Drivers register in initcalls and probe   *)
(* their devices; a probe whose provider is not bound yet is deferred and  *)
(* retried by the deferred-probe worker.  The UFS host's probe schedules   *)
(* an asynchronous scan, which finds the disks.  At late_initcall_sync,    *)
(* and three times later from a delayed work, the live trace lists what    *)
(* there is.                                                               *)
(*                                                                         *)
(* Abstraction: a probe and the scan are the sequences of the marks the    *)
(* stages put into them and of the calls between them that may fail        *)
(* without a mark of their own.  The three copies of a mark are one.       *)
(* The driver core, the platform bus, the workqueues, the parts of ufshcd  *)
(* without marks and the SCSI layer are the kernel's, modelled as far as   *)
(* the patched code relies on them.  Time is in half seconds and only      *)
(* passes while the delayed work's timer runs, so it is a lower bound.     *)
(***************************************************************************)
EXTENDS Integers, Sequences, FiniteSets, SequencesExt

CONSTANTS
  Host,           (* 1d84000.ufshc.                                        *)
  Providers,      (* The devices that others depend on.                    *)
  Tlmm,           (* f100000.pinctrl, one of them.                         *)
  Needs,          (* Per provider, those its probe needs bound.            *)
  HostNeeds,      (* Per call of the host's probe, those it defers without.*)
  Optional,       (* The providers this kernel may have no driver for.     *)
  Disks,          (* The logical units the scan may find.                  *)
  ListCap,        (* Entries a listing may have; 48 in the code.           *)
  Nobody,
  MaxOthers       (* Bounds the model: other devices bound during boot.    *)

Devices  == Providers \cup {Host}
Probers  == {"boot", "worker"}
Threads  == Probers \cup {"scan"}
Scanners == {"boot", "work"}

(* The calls of the host's probe that defer, beside the generic pins: the  *)
(* IOMMU, assigned clocks, power domains, the interrupt, and the clocks    *)
(* and supplies ufshcd_hba_init() gets.                                    *)
Deferring == {"dma", "clk_defaults", "power_domain", "irq", "hba_init"}

ASSUME BringupAssumption ==
  /\ Host \notin Providers /\ Nobody \notin Devices
  /\ Tlmm \in Providers /\ HostNeeds \in [Deferring -> SUBSET (Providers \ {Tlmm})]
  /\ Needs \in [Providers -> SUBSET Providers]
  /\ IsFiniteSet(Providers) /\ Optional \subseteq Providers
  /\ ListCap \in Nat /\ MaxOthers \in Nat

(***************************************************************************)
(* The marks of a probe of the host, of the scan, and the ways out, with   *)
(* the unmarked calls between them.                                        *)
(***************************************************************************)
(* Calls that may fail and have no mark: the platform bus before it calls  *)
(* the driver, ufshcd_init()'s workqueue and its request queues, and what  *)
(* ufshcd_add_lus() does before it scans.                                  *)
Unmarked ==
  {"clk_defaults", "power_domain", "eh_wq", "queues", "add_wlus", "devfreq"}

PreProbe ==
  <<"pinctrl", "dma", "sysfs", "pm_activate", "bus_probe_begin", "clk_defaults",
    "power_domain">>

Platform ==
  <<"PROBE_BEGIN", "mmio", "irq", "alloc_host", "parse_clocks", "parse_regulators">>

(* Mutant of Core: the scan is scheduled before the controller is enabled. *)
CoreScansFirst ==
  <<"init_begin", "hba_init", "capabilities", "dma_mask", "memory_alloc", "eh_wq",
    "request_irq", "scsi_add_host", "queues", "device_reset", "async_scan_scheduled",
    "hba_enable", "init_return">>

Core ==
  <<"init_begin", "hba_init", "capabilities", "dma_mask", "memory_alloc", "eh_wq",
    "request_irq", "scsi_add_host", "queues", "device_reset", "hba_enable",
    "async_scan_scheduled", "init_return">>

Return == <<"ufshcd_init", "return", "PROBE_END", "bus_probe_end">>

ProbeHba ==
  <<"probe_hba_begin", "link_startup", "verify_dev_init", "complete_dev_init",
    "device_params", "config_pwr_mode">>

AsyncScan ==
  <<"async_scan_begin">> \o ProbeHba
    \o <<"probe_hba_end", "async_probe_hba", "add_wlus", "devfreq", "scsi_scan_begin",
         "scsi_scan_end", "add_lus", "async_scan_end">>

(* A provider's probe, of which only beginning and success are marked.     *)
ProviderProbe == <<"probe", "ready">>

Program(d) == IF d = Host THEN PreProbe \o Platform \o Core \o Return ELSE ProviderProbe

(* Marks that only record a place, or a result already known.              *)
Plain ==
  {"bus_probe_begin", "PROBE_BEGIN", "init_begin", "async_scan_scheduled", "init_return",
   "async_scan_begin", "probe_hba_begin", "probe_hba_end", "async_probe_hba",
   "scsi_scan_begin", "scsi_scan_end", "add_lus", "async_scan_end", "ready", "init_fail"}
  \cup ToSet(Return)

(* What is marked between a failed call and the end of the thread's work.  *)
Unwind(s) ==
  CASE s \in ToSet(Core)              -> <<"init_fail">> \o Return
    [] s \in ToSet(Platform)          -> Tail(Return)
    [] s \in ToSet(ProbeHba)          -> <<"probe_hba_end", "async_probe_hba", "async_scan_end">>
    [] s \in {"add_wlus", "devfreq"}  -> <<"add_lus", "async_scan_end">>
    [] s \in {"clk_defaults", "power_domain"} -> <<"bus_probe_end">>
    [] OTHER                          -> <<>>

Mark(s, ret) == [stage |-> s, ret |-> ret]

VARIABLES
  absent,         (* The optional providers that have no driver.           *)
  dd,             (* The driver core.                                      *)
  run,            (* Per thread, what is left of its probe or scan.        *)
  trail,          (* The marks of the host's last probe and of the scan.   *)
  failed,         (* History: the call that failed in each of the two.     *)
  reset,          (* How the last ufs_qcom device reset went.              *)
  boot,           (* The boot thread's place.                              *)
  disks,          (* Registered disks, in the order of block_class.        *)
  snap,           (* Per scanner, the snapshot in progress.                *)
  scans,          (* a52_scan_id.                                          *)
  round,          (* a52_delayed_round.                                    *)
  timer,          (* Half seconds until the delayed work runs, or -1.      *)
  now,            (* Half seconds since the late-init snapshot.            *)
  reports,        (* The snapshots that have ended.                        *)
  others          (* Other devices bound.                                  *)

vars == <<absent, dd, run, trail, failed, reset, boot, disks, snap, scans, round, timer,
          now, reports, others>>

live   == <<snap, scans, round, timer, now, reports>>
probes == <<run, trail, failed, reset>>

Idle == [dev |-> Nobody, todo |-> <<>>, ret |-> "ok", count |-> 0]

NoSnap == [at |-> "none", label |-> "", i |-> 1, platform |-> 0, host |-> FALSE,
           listed |-> {}, before |-> {}]

Init ==
  /\ absent \in SUBSET Optional
  /\ dd = [registered |-> {}, driver |-> {}, bound |-> {}, pending |-> {}, active |-> {},
           enabled |-> FALSE, triggers |-> 0]
  /\ run = [t \in Threads |-> Idle]
  /\ trail = [p \in {"probe", "scan"} |-> <<>>]
  /\ failed = [p \in {"probe", "scan"} |-> ""]
  /\ reset = "no" /\ boot = "initcalls" /\ disks = <<>>
  /\ snap = [c \in Scanners |-> NoSnap]
  /\ scans = 0 /\ round = 0 /\ timer = -1 /\ now = 0 /\ reports = <<>> /\ others = 0

(***************************************************************************)
(* The driver core.                                                        *)
(***************************************************************************)
(* driver_deferred_probe_trigger(): everything pending is to be retried.   *)
Triggered(d) ==
  IF d.enabled
    THEN [d EXCEPT !.triggers = @ + 1, !.active = @ \cup d.pending, !.pending = {}]
    ELSE d

(* really_probe() begins, with the device's lock held.                     *)
StartProbe(t, d) ==
  /\ run[t] = Idle /\ \A o \in Threads : run[o].dev # d
  /\ run' = [run EXCEPT ![t] = [Idle EXCEPT !.dev = d, !.todo = Program(d),
                                           !.count = dd.triggers]]
  /\ IF d = Host
       THEN /\ trail' = [trail EXCEPT !["probe"] = <<>>]
            /\ failed' = [failed EXCEPT !["probe"] = ""]
            /\ reset' = "no"
       ELSE UNCHANGED <<trail, failed, reset>>

Register(d) ==
  /\ boot = "initcalls" /\ d \notin absent \cup dd.registered
  /\ StartProbe("boot", d)
  /\ dd' = [dd EXCEPT !.registered = @ \cup {d}, !.driver = @ \cup {d}]
  /\ UNCHANGED <<absent, boot, disks, live, others>>

(* deferred_probe_work_func(), one device.                                 *)
Retry(d) ==
  /\ d \in dd.active
  /\ StartProbe("worker", d)
  /\ dd' = [dd EXCEPT !.active = @ \ {d}, !.driver = @ \cup {d}]
  /\ UNCHANGED <<absent, boot, disks, live, others>>

(* driver_bound(), or the failed probe's end.  A trigger that came during  *)
(* the probe may have come too early for a device deferred now.            *)
EndProbe(t) ==
  /\ t \in Probers /\ run[t].dev # Nobody /\ run[t].todo = <<>>
  /\ LET d       == run[t].dev
         unbound == [dd EXCEPT !.driver = @ \ {d}]
         waits   == [unbound EXCEPT !.pending = @ \cup {d}]
     IN dd' = CASE run[t].ret = "ok"    -> Triggered([dd EXCEPT !.bound = @ \cup {d},
                                                                !.pending = @ \ {d},
                                                                !.active = @ \ {d}])
                [] run[t].ret = "defer" -> IF run[t].count # dd.triggers
                                             THEN Triggered(waits) ELSE waits
                [] run[t].ret = "fail"  -> unbound
  /\ run' = [run EXCEPT ![t] = Idle]
  /\ UNCHANGED <<absent, trail, failed, reset, boot, disks, live, others>>

(* Some other device of the system binds.                                  *)
OtherBinds ==
  /\ others < MaxOthers /\ others' = others + 1
  /\ dd' = Triggered(dd)
  /\ UNCHANGED <<absent, probes, boot, disks, live>>

(* The providers the call at the head of a thread's work needs.            *)
Stage(t) == Head(run[t].todo)

NeededBy(t) ==
  CASE Stage(t) = "probe"        -> Needs[run[t].dev]
    [] Stage(t) = "pinctrl"      -> {Tlmm}
    [] Stage(t) \in Deferring    -> HostNeeds[Stage(t)]
    [] OTHER                     -> {}

Missing(t) == NeededBy(t) \ dd.bound # {}
Trail(t) == IF t = "scan" THEN "scan" ELSE "probe"
Recorded(t) == t = "scan" \/ run[t].dev = Host

(* Marks of thread t; a provider's own marks are not followed.             *)
Marks(t, marks) ==
  trail' = IF Recorded(t) THEN [trail EXCEPT ![Trail(t)] = @ \o marks] ELSE trail

Working(t) == run[t].todo # <<>>

(* The mark of the call at the head of t's work, if it has one.            *)
MarkCall(t, ret) ==
  Marks(t, IF Stage(t) \in Unmarked THEN <<>> ELSE <<Mark(Stage(t), ret)>>)

Goes(t) == run' = [run EXCEPT ![t].todo = Tail(@)]

(* Work that ends in a failure, after the marks of the way out.            *)
Leaves(t, ret) ==
  run' = [run EXCEPT ![t].todo = Unwind(Stage(t)), ![t].ret = ret]

(* A mark, with the result so far; a call that succeeds.                   *)
Passes(t) ==
  /\ Working(t) /\ ~Missing(t) /\ Stage(t) \notin {"device_reset", "async_scan_scheduled"}
  /\ MarkCall(t, run[t].ret)
  /\ Goes(t)
  /\ UNCHANGED <<absent, dd, failed, reset, boot, disks, live, others>>

(* Mutant of Fails: the mark comes after the branch to the way out.        *)
FailsUnmarked(t) ==
  /\ Working(t) /\ Stage(t) \notin Plain \cup {"device_reset"}
  /\ Leaves(t, "fail")
  /\ failed' = IF Recorded(t) THEN [failed EXCEPT ![Trail(t)] = Stage(t)] ELSE failed
  /\ UNCHANGED <<absent, dd, trail, reset, boot, disks, live, others>>

(* A call fails: its result, if it is marked at all, is marked before the  *)
(* error branch.                                                           *)
Fails(t) ==
  /\ Working(t) /\ Stage(t) \notin Plain \cup {"device_reset"}
  /\ MarkCall(t, "fail")
  /\ Leaves(t, "fail")
  /\ failed' = IF Recorded(t) THEN [failed EXCEPT ![Trail(t)] = Stage(t)] ELSE failed
  /\ UNCHANGED <<absent, dd, reset, boot, disks, live, others>>

(* Mutants of Bypassed: no bridge; a bridge over every deferral.           *)
BypassedNever(t) == FALSE
BypassedAlways(t) == run[t].dev = Host

(* Run 40: the host has the named-reset contract, so a generic pinctrl     *)
(* deferral, and no other, is passed over.                                 *)
Bypassed(t) == Stage(t) = "pinctrl" /\ run[t].dev = Host

Defers(t) ==
  /\ Working(t) /\ Missing(t) /\ ~Bypassed(t)
  /\ MarkCall(t, "defer")
  /\ Leaves(t, "defer")
  /\ failed' = IF Recorded(t) THEN [failed EXCEPT ![Trail(t)] = Stage(t)] ELSE failed
  /\ UNCHANGED <<absent, dd, reset, boot, disks, live, others>>

PassesOver(t) ==
  /\ Working(t) /\ Missing(t) /\ Bypassed(t)
  /\ Marks(t, <<Mark(Stage(t), "defer"), Mark("BYPASS", "ok")>>)
  /\ Goes(t)
  /\ UNCHANGED <<absent, dd, failed, reset, boot, disks, live, others>>

(* Mutant of ResetDevice: a failed pinctrl_get() returns as it used to.    *)
ResetDeviceQuietly(t) ==
  /\ Working(t) /\ Stage(t) = "device_reset"
  /\ \/ Tlmm \in dd.bound /\ reset' = "done" /\ Marks(t, <<Mark("DEVICE_RESET", "ok")>>)
     \/ Tlmm \in dd.bound /\ reset' = "failed" /\ Marks(t, <<Mark("DEVICE_RESET", "fail")>>)
     \/ Tlmm \notin dd.bound /\ reset' = "failed" /\ Marks(t, <<>>)
  /\ Goes(t)
  /\ UNCHANGED <<absent, dd, failed, boot, disks, live, others>>

(* ufs_qcom_device_reset(): without the pin controller pinctrl_get() fails,*)
(* with it a lookup or a selection may.  ufshcd goes on all the same.      *)
ResetDevice(t) ==
  /\ Working(t) /\ Stage(t) = "device_reset"
  /\ \/ Tlmm \in dd.bound /\ reset' = "done" /\ Marks(t, <<Mark("DEVICE_RESET", "ok")>>)
     \/ reset' = "failed" /\ Marks(t, <<Mark("DEVICE_RESET", "fail")>>)
  /\ Goes(t)
  /\ UNCHANGED <<absent, dd, failed, boot, disks, live, others>>

(* async_schedule(ufshcd_async_scan): the scan runs from now on.           *)
ScheduleScan(t) ==
  /\ Working(t) /\ Stage(t) = "async_scan_scheduled"
  /\ run' = [run EXCEPT ![t].todo = Tail(@), !["scan"].todo = AsyncScan]
  /\ Marks(t, <<Mark(Stage(t), "ok")>>)
  /\ UNCHANGED <<absent, dd, failed, reset, boot, disks, live, others>>

(* The power mode is left alone when the device reports none.              *)
SkipPowerMode ==
  /\ Working("scan") /\ Stage("scan") = "config_pwr_mode"
  /\ Goes("scan")
  /\ UNCHANGED <<absent, dd, trail, failed, reset, boot, disks, live, others>>

(* sd_probe() of a unit the SCSI scan has found, up to device_add_disk().  *)
AddDisk(d) ==
  /\ d \notin ToSet(disks)
  /\ Mark("scsi_scan_begin", "ok") \in ToSet(trail["scan"])
  /\ disks' = Append(disks, d)
  /\ UNCHANGED <<absent, dd, probes, boot, live, others>>

(***************************************************************************)
(* The boot thread after the device initcalls.                             *)
(***************************************************************************)
Worked == run["worker"] = Idle /\ dd.active = {}

(* deferred_probe_initcall(): enable, retry, wait; then once more.         *)
EnableDeferred ==
  /\ boot = "initcalls" /\ run["boot"] = Idle /\ Devices \ absent \subseteq dd.registered
  /\ dd' = Triggered([dd EXCEPT !.enabled = TRUE])
  /\ boot' = "flush"
  /\ UNCHANGED <<absent, probes, disks, live, others>>

FlushDeferred ==
  /\ boot \in {"flush", "flush again"} /\ Worked
  /\ dd' = IF boot = "flush" THEN Triggered(dd) ELSE dd
  /\ boot' = IF boot = "flush" THEN "flush again" ELSE "snapshot"
  /\ UNCHANGED <<absent, probes, disks, live, others>>

(***************************************************************************)
(* A snapshot.                                                             *)
(***************************************************************************)
Snapping(c) == snap[c].at # "none"

(* a52_ufs_snapshot(): the beginning.                                      *)
BeginSnapshot(c, label) ==
  /\ ~Snapping(c)
  /\ scans' = scans + 1
  /\ snap' = [snap EXCEPT ![c] = [NoSnap EXCEPT !.at = "node", !.label = label,
                                               !.before = ToSet(disks)]]

(* a52_ufs_trace_node("host"): does the device have a driver?              *)
TraceNode(c) ==
  /\ snap[c].at = "node"
  /\ snap' = [snap EXCEPT ![c].at = "platform", ![c].host = Host \in dd.driver]
  /\ UNCHANGED <<absent, dd, probes, boot, disks, scans, round, timer, now, reports, others>>

(* bus_for_each_dev(a52_platform_cb): at most ListCap devices are printed. *)
ListPlatform(c) ==
  /\ snap[c].at = "platform"
  /\ snap' = [snap EXCEPT ![c].at = "block",
       ![c].platform = IF Cardinality(Devices) < ListCap THEN Cardinality(Devices)
                                                          ELSE ListCap]
  /\ UNCHANGED <<absent, dd, probes, boot, disks, scans, round, timer, now, reports, others>>

(* block_ctx.count.                                                        *)
Printed(c) == Cardinality(snap[c].listed)

(* class_for_each_device(a52_block_cb): the next disk, or the end.         *)
ListDisk(c) ==
  /\ snap[c].at = "block" /\ snap[c].i <= Len(disks) /\ Printed(c) < ListCap
  /\ snap' = [snap EXCEPT ![c].i = @ + 1, ![c].listed = @ \cup {disks[snap[c].i]}]
  /\ UNCHANGED <<absent, dd, probes, boot, disks, scans, round, timer, now, reports, others>>

EndSnapshot(c) ==
  /\ snap[c].at = "block" /\ (snap[c].i > Len(disks) \/ Printed(c) >= ListCap)
  /\ reports' = Append(reports, [label |-> snap[c].label, time |-> now])
  /\ snap' = [snap EXCEPT ![c].at = "ended"]
  /\ UNCHANGED <<absent, dd, probes, boot, disks, scans, round, timer, now, others>>

(* Mutant of LateInit: the work is scheduled before the snapshot.          *)
LateInitSchedulesFirst ==
  /\ boot = "snapshot"
  /\ BeginSnapshot("boot", "late-init")
  /\ boot' = "snapping" /\ timer' = 1
  /\ UNCHANGED <<absent, dd, probes, disks, round, now, reports, others>>

(* a52_ufs_live_trace_init().                                              *)
LateInit ==
  /\ boot = "snapshot"
  /\ BeginSnapshot("boot", "late-init")
  /\ boot' = "snapping"
  /\ UNCHANGED <<absent, dd, probes, disks, round, timer, now, reports, others>>

(* schedule_delayed_work(500 ms).                                          *)
ScheduleWork ==
  /\ boot = "snapping" /\ snap["boot"].at = "ended"
  /\ snap' = [snap EXCEPT !["boot"] = NoSnap]
  /\ timer' = IF timer = -1 THEN 1 ELSE timer
  /\ boot' = "done"
  /\ UNCHANGED <<absent, dd, probes, disks, scans, round, now, reports, others>>

Tick ==
  /\ timer > 0
  /\ timer' = timer - 1 /\ now' = now + 1
  /\ UNCHANGED <<absent, dd, probes, boot, disks, snap, scans, round, reports, others>>

Label(r) == CASE r = 1 -> "delayed-500ms" [] r = 2 -> "delayed-2s" [] OTHER -> "delayed-6s"

(* delay_ms[]: 1500 and 4000.                                              *)
Delays == <<3, 8>>

(* Mutant of Delay: one round fewer.                                       *)
DelayShort(r) == IF r < Len(Delays) THEN Delays[r] ELSE -1

Delay(r) == IF r <= Len(Delays) THEN Delays[r] ELSE -1

(* a52_ufs_delayed_work(): the next round's snapshot.                      *)
WorkRuns ==
  /\ timer = 0 /\ timer' = -1
  /\ round' = round + 1
  /\ BeginSnapshot("work", Label(round + 1))
  /\ UNCHANGED <<absent, dd, probes, boot, disks, now, reports, others>>

WorkEnds ==
  /\ snap["work"].at = "ended"
  /\ snap' = [snap EXCEPT !["work"] = NoSnap]
  /\ timer' = Delay(round)
  /\ UNCHANGED <<absent, dd, probes, boot, disks, scans, round, now, reports, others>>

ThreadStep(t) ==
  \/ Passes(t) \/ Fails(t) \/ Defers(t) \/ PassesOver(t) \/ ResetDevice(t)
  \/ ScheduleScan(t) \/ EndProbe(t)

SnapshotStep(c) == TraceNode(c) \/ ListPlatform(c) \/ ListDisk(c) \/ EndSnapshot(c)

BootStep ==
  \/ (\E d \in Devices : Register(d)) \/ EnableDeferred \/ FlushDeferred \/ LateInit
  \/ ScheduleWork

WorkerStep == \E d \in Devices : Retry(d)
WorkStep   == Tick \/ WorkRuns \/ WorkEnds

Next ==
  \/ BootStep \/ WorkerStep \/ WorkStep \/ SkipPowerMode \/ OtherBinds
  \/ \E t \in Threads : ThreadStep(t)
  \/ \E c \in Scanners : SnapshotStep(c)
  \/ \E d \in Disks : AddDisk(d)

Spec == Init /\ [][Next]_vars

(* Calls return, the scheduler runs every thread and the workqueues their  *)
(* works.  Nothing is assumed of the disks or of other devices.            *)
FairSpec ==
  /\ Spec
  /\ WF_vars(BootStep) /\ WF_vars(WorkerStep) /\ WF_vars(WorkStep)
  /\ \A t \in Threads : WF_vars(ThreadStep(t))
  /\ \A c \in Scanners : WF_vars(SnapshotStep(c))

-------------------------------------------------------------------------------
Stages ==
  ToSet(PreProbe \o Platform \o Core \o Return \o AsyncScan)
    \cup {"probe", "ready", "init_fail", "BYPASS", "DEVICE_RESET"}

Results == {"ok", "defer", "fail"}

(* The types of the driver core, the threads and the live trace.           *)
TypeOK ==
  /\ dd.bound \subseteq dd.driver /\ dd.driver \subseteq dd.registered
  /\ dd.registered \subseteq Devices \ absent
  /\ dd.pending \cap dd.active = {} /\ (dd.pending \cup dd.active) \cap dd.driver = {}
  /\ \A t \in Threads : run[t].dev \in Devices \cup {Nobody} /\ run[t].todo \in Seq(Stages)
  /\ \A p \in {"probe", "scan"} : trail[p] \in Seq([stage : Stages, ret : Results])
  /\ scans = Len(reports) + Cardinality({c \in Scanners : snap[c].at \notin {"none", "ended"}})
  /\ round \in 0 .. 3 /\ timer \in -1 .. 8

(* The labels in their order, and the half seconds they speak of.          *)
Labels == <<"late-init", "delayed-500ms", "delayed-2s", "delayed-6s">>
Times  == <<0, 1, 4, 12>>

(* Snapshots never overlap, so the lines between two SNAPSHOT markers are  *)
(* of the scan the first one numbers; their labels follow one another, and *)
(* none was taken earlier than its label says.                             *)
SnapshotsInOrder ==
  /\ ~(snap["boot"].at \notin {"none", "ended"} /\ snap["work"].at \notin {"none", "ended"})
  /\ \A i \in DOMAIN reports :
       reports[i].label = Labels[i] /\ reports[i].time >= Times[i]

(* A disk that was there when a snapshot began is in its listing, unless   *)
(* the listing is full: a disk missing from the last one was never added   *)
(* in time.                                                                *)
DisksListed ==
  \A c \in Scanners :
    snap[c].at = "ended" =>
      snap[c].before \subseteq snap[c].listed \/ Cardinality(snap[c].listed) = ListCap

(* A snapshot that says the host has no driver lists no disk that was      *)
(* there when it began: the scan outlives no probe that fails.             *)
DisksNeedDriver ==
  \A c \in Scanners : snap[c].at = "ended" => snap[c].host \/ snap[c].before = {}

(* What a snapshot lists is what the driver core holds, with no device     *)
(* counted twice or in two states.                                         *)
ListingsTrue == TypeOK /\ DisksListed /\ DisksNeedDriver

(* The first result in a trail that is not a success and was neither       *)
(* passed over by the bridge nor ignored by ufshcd.                        *)
Blamed(marks) ==
  SelectInSeq(marks, LAMBDA m : m.ret # "ok" /\ m.stage # "DEVICE_RESET"
    /\ ~(m.stage = "pinctrl" /\ Mark("BYPASS", "ok") \in ToSet(marks)))

(* The calls whose failure a first bad result may stand for: the return of *)
(* a function stands for the calls in it that have no mark of their own,   *)
(* any other mark for its own call.                                        *)
Suspects(stage) ==
  CASE stage = "bus_probe_end" -> {"clk_defaults", "power_domain"}
    [] stage = "init_fail"     -> {"eh_wq", "queues"}
    [] stage = "add_lus"       -> {"add_wlus", "devfreq"}
    [] OTHER                   -> {stage}

(* The log blames call s: there is a first bad result, and s is among the  *)
(* calls it stands for.                                                    *)
BlamesCall(marks, s) ==
  Blamed(marks) # 0 /\ s \in Suspects(marks[Blamed(marks)].stage)

(* Once a probe or the scan has failed or been deferred, the first bad     *)
(* result of its log names the call that did it, or, of an unmarked call,  *)
(* the function it was made in; no other function's unmarked calls and no  *)
(* call that succeeded is ever blamed.                                     *)
FailureNamed ==
  /\ (failed["probe"] # "" /\ \A u \in Probers : run[u].dev # Host) =>
       BlamesCall(trail["probe"], failed["probe"])
  /\ (failed["scan"] # "" /\ run["scan"].todo = <<>>) =>
       BlamesCall(trail["scan"], failed["scan"])

(* A controller is never enabled with a device whose reset did not happen  *)
(* and no mark that says so.                                               *)
ResetDoneOrMarked ==
  \A i \in DOMAIN trail["probe"] :
    trail["probe"][i].stage = "hba_enable" =>
      reset = "done" \/ Mark("DEVICE_RESET", "fail") \in ToSet(trail["probe"])

(* What is bound has what it needs: the bridge passes over the deferral of *)
(* the host's generic pins and over nothing else.                          *)
BoundMeansReady ==
  /\ Host \in dd.bound => \A s \in Deferring : HostNeeds[s] \subseteq dd.bound
  /\ \A p \in Providers \cap dd.bound : Needs[p] \subseteq dd.bound

(* All four snapshots are taken, and no more.                              *)
FourSnapshots == <>[](Len(reports) = 4 /\ timer = -1)

(* Once every provider it defers without is bound, the host binds or fails *)
(* for good, with a mark that says so, whether or not the pin controller   *)
(* has a driver.                                                           *)
HostSettles ==
  (\A s \in Deferring : HostNeeds[s] \subseteq dd.bound) ~>
    \/ Host \in dd.bound
    \/ LET b == Blamed(trail["probe"]) IN
         /\ b # 0 /\ trail["probe"][b].ret = "fail"
         /\ Host \notin dd.pending \cup dd.active

==============================================================================
