------------------------ MODULE StorageBringup_proofs ------------------------
(***************************************************************************)
(* The storage bring-up, for any providers, disks and listing length.      *)
(* First the live trace: SnapshotsInOrder is not inductive, for that the   *)
(* delayed work cannot run during the late-init snapshot follows from      *)
(* where the boot thread is, and the time of a report from the timers of   *)
(* the rounds before it.  InPhase says both.  WInv is what the threads     *)
(* that run probes own of the driver core.  On it rest ReadyInv (a probe   *)
(* that has passed a provider found it bound), ResetInv (no trail comes to *)
(* the enabling without the reset), ScanInv and ListInv (what a snapshot   *)
(* lists of the disks it can see), and BlameInv (what a probe or the scan  *)
(* has still to pass, and what it has left behind, name its first          *)
(* failure).                                                               *)
(***************************************************************************)
EXTENDS StorageBringup, FiniteSetTheorems, TLAPS

Names == {"", "late-init", "delayed-500ms", "delayed-2s", "delayed-6s"}

SnapStates ==
  [at : {"none", "node", "platform", "block", "ended"}, label : Names, i : Nat \ {0},
   platform : Nat, host : BOOLEAN, listed : SUBSET Disks, before : SUBSET Disks]

Early == {"initcalls", "flush", "flush again", "snapshot"}

LiveTypes ==
  /\ boot \in Early \cup {"snapping", "done"}
  /\ snap \in [Scanners -> SnapStates]
  /\ disks \in Seq(Disks)
  /\ round \in Nat /\ timer \in Int /\ now \in Nat
  /\ reports \in Seq([label : Names, time : Nat])

Running(c) == snap[c].at \in {"node", "platform", "block"}

ReportsInOrder ==
  /\ Len(reports) <= 4
  /\ \A i \in DOMAIN reports : reports[i].label = Labels[i] /\ reports[i].time >= Times[i]

(* Before the late-init snapshot nothing is scheduled; during it nothing   *)
(* is either; afterwards the rounds take turns with the timer.             *)
BeforeTrace ==
  /\ snap["boot"].at = "none" /\ snap["work"].at = "none"
  /\ timer = -1 /\ round = 0 /\ Len(reports) = 0

LateInitRuns ==
  /\ snap["boot"].at # "none" /\ snap["work"].at = "none"
  /\ snap["boot"].label = Labels[1]
  /\ timer = -1 /\ round = 0
  /\ Len(reports) = IF Running("boot") THEN 0 ELSE 1

Rounds ==
  /\ snap["boot"].at = "none"
  /\ round \in 0 .. 3
  /\ now >= Times[round + 1]
  /\ Len(reports) = IF Running("work") THEN round ELSE round + 1
  /\ snap["work"].at # "none" =>
       timer = -1 /\ round > 0 /\ snap["work"].label = Labels[round + 1]
  /\ timer >= 0 => round < 3 /\ now + timer >= Times[round + 2]

InPhase ==
  /\ boot \in Early => BeforeTrace
  /\ boot = "snapping" => LateInitRuns
  /\ boot = "done" => Rounds

IInv == LiveTypes /\ ReportsInOrder /\ InPhase

-------------------------------------------------------------------------------
LEMMA NoSnapType ==
  /\ NoSnap \in SnapStates
  /\ NoSnap.at = "none"
<1>1. 1 \in Nat \ {0} /\ 0 \in Nat /\ FALSE \in BOOLEAN /\ {} \in SUBSET Disks
  OBVIOUS
<1> QED
  BY <1>1 DEF NoSnap, SnapStates, Names

(* One scanner's snapshot is replaced.                                     *)
LEMMA SnapReplaced ==
  ASSUME LiveTypes, NEW c \in Scanners, NEW s \in SnapStates,
         snap' = [snap EXCEPT ![c] = s]
  PROVE  /\ snap' \in [Scanners -> SnapStates]
         /\ snap'[c] = s
         /\ \A k \in Scanners \ {c} : snap'[k] = snap[k]
  BY DEF LiveTypes

LEMMA SnapshotBegun ==
  ASSUME LiveTypes, NEW c \in Scanners, NEW label \in Names, BeginSnapshot(c, label)
  PROVE  /\ snap' \in [Scanners -> SnapStates]
         /\ snap'[c].at = "node" /\ snap'[c].label = label
         /\ \A k \in Scanners \ {c} : snap'[k] = snap[k]
<1> DEFINE s == [NoSnap EXCEPT !.at = "node", !.label = label, !.before = ToSet(disks)]
<1>1. ToSet(disks) \in SUBSET Disks
  BY DEF LiveTypes, ToSet
<1>2. s \in SnapStates
  BY <1>1, NoSnapType DEF SnapStates
<1>3. s.at = "node" /\ s.label = label
  BY NoSnapType DEF SnapStates
<1>4. snap' = [snap EXCEPT ![c] = s]
  BY DEF BeginSnapshot
<1> HIDE DEF s
<1> QED
  BY <1>2, <1>3, <1>4, SnapReplaced

(* Only the delayed work, after the late-init snapshot, has a timer or a   *)
(* snapshot of its own.                                                    *)
LEMMA TraceScheduled ==
  ASSUME IInv, timer # -1 \/ snap["work"].at # "none"
  PROVE  boot = "done" /\ Rounds
<1>1. boot \notin Early
  BY DEF IInv, InPhase, BeforeTrace
<1>2. boot # "snapping"
  BY DEF IInv, InPhase, LateInitRuns
<1> QED
  BY <1>1, <1>2 DEF IInv, LiveTypes, InPhase

LEMMA InitIInv == Init => IInv
<1> SUFFICES ASSUME Init PROVE IInv
  OBVIOUS
<1>1. snap \in [Scanners -> SnapStates]
  BY NoSnapType DEF Init
<1>2. snap["boot"].at = "none" /\ snap["work"].at = "none"
  BY NoSnapType DEF Init, Scanners
<1>3. /\ boot = "initcalls" /\ disks = <<>> /\ reports = <<>>
      /\ round = 0 /\ timer = -1 /\ now = 0
  BY DEF Init
<1>4. boot \in Early /\ boot # "snapping" /\ boot # "done"
  BY <1>3 DEF Early
<1>5. Len(reports) = 0
  BY <1>3
<1>6. LiveTypes
  BY <1>1, <1>3, <1>4 DEF LiveTypes
<1>7. ReportsInOrder
  BY <1>3 DEF ReportsInOrder
<1>8. InPhase
  BY <1>2, <1>3, <1>4, <1>5 DEF InPhase, BeforeTrace
<1> QED
  BY <1>6, <1>7, <1>8 DEF IInv

(* What leaves the live trace and the boot thread's place alone, and adds  *)
(* at most a disk.                                                         *)
LEMMA Elsewhere ==
  ASSUME IInv, UNCHANGED <<live, boot>>, disks' \in Seq(Disks)
  PROVE  IInv'
<1> USE DEF IInv, live
<1>1. LiveTypes'
  BY DEF LiveTypes
<1>2. ReportsInOrder'
  BY DEF ReportsInOrder
<1>3. InPhase'
  BY DEF InPhase, BeforeTrace, LateInitRuns, Rounds, Running
<1> QED
  BY <1>1, <1>2, <1>3

(* The driver core's steps before the late-init snapshot.                  *)
LEMMA DeferredStep ==
  ASSUME IInv, EnableDeferred \/ FlushDeferred
  PROVE  IInv'
<1>1. boot \in Early /\ boot' \in Early /\ UNCHANGED <<disks, live>>
  BY DEF EnableDeferred, FlushDeferred, Early
<1>2. LiveTypes' /\ ReportsInOrder'
  BY <1>1 DEF IInv, LiveTypes, ReportsInOrder, live
<1>3. InPhase'
  BY <1>1 DEF IInv, InPhase, BeforeTrace, live, Early
<1> QED
  BY <1>2, <1>3 DEF IInv

LEMMA LateInitStep ==
  ASSUME IInv, LateInit
  PROVE  IInv'
<1> USE DEF LateInit
<1>1. boot = "snapshot" /\ boot' = "snapping" /\ BeforeTrace
  BY DEF IInv, InPhase, Early
<1>2. "late-init" \in Names /\ "boot" \in Scanners /\ "work" \in Scanners \ {"boot"}
  BY DEF Names, Scanners
<1>3. snap' \in [Scanners -> SnapStates]
  BY <1>2, SnapshotBegun DEF IInv
<1>4. /\ snap'["boot"].at = "node" /\ snap'["boot"].label = "late-init"
      /\ snap'["work"] = snap["work"]
  BY <1>2, SnapshotBegun DEF IInv
<1>5. LiveTypes' /\ ReportsInOrder'
  BY <1>1, <1>3 DEF IInv, LiveTypes, ReportsInOrder
<1>6. InPhase'
  BY <1>1, <1>4 DEF InPhase, BeforeTrace, LateInitRuns, Running, Labels, Early
<1> QED
  BY <1>5, <1>6 DEF IInv

LEMMA ScheduleWorkStep ==
  ASSUME IInv, ScheduleWork
  PROVE  IInv'
<1> USE DEF ScheduleWork
<1>1. boot = "snapping" /\ boot' = "done" /\ LateInitRuns /\ ~Running("boot")
  BY DEF IInv, InPhase, Running
<1>s. "boot" \in Scanners /\ "work" \in Scanners \ {"boot"}
  BY DEF Scanners
<1>2. snap' \in [Scanners -> SnapStates]
  BY <1>s, NoSnapType, SnapReplaced DEF IInv
<1>3. snap'["boot"].at = "none" /\ snap'["work"] = snap["work"]
  BY <1>s, NoSnapType, SnapReplaced DEF IInv
<1>4. timer' = 1
  BY <1>1 DEF LateInitRuns
<1>5. LiveTypes' /\ ReportsInOrder'
  BY <1>1, <1>2, <1>4 DEF IInv, LiveTypes, ReportsInOrder
<1>6. Rounds'
  BY <1>1, <1>3, <1>4 DEF IInv, LiveTypes, LateInitRuns, Rounds, Running, Times
<1> QED
  BY <1>1, <1>5, <1>6 DEF IInv, InPhase, Early

LEMMA TickStep ==
  ASSUME IInv, Tick
  PROVE  IInv'
<1> USE DEF Tick
<1>1. boot = "done" /\ Rounds
  BY TraceScheduled
<1>2. LiveTypes' /\ ReportsInOrder'
  BY DEF IInv, LiveTypes, ReportsInOrder
<1>3. Rounds'
  <2>1. round \in 0 .. 3 /\ now + 1 >= Times[round + 1]
    BY <1>1 DEF Rounds, Times, IInv, LiveTypes
  <2>2. round < 3 /\ now + timer >= Times[round + 2]
    BY <1>1 DEF Rounds, IInv, LiveTypes
  <2>3. now' + timer' = now + timer
    BY DEF IInv, LiveTypes
  <2> QED
    BY <1>1, <2>1, <2>2, <2>3 DEF Rounds, Running, IInv, LiveTypes
<1> QED
  BY <1>1, <1>2, <1>3 DEF IInv, InPhase, Early

LEMMA WorkRunsStep ==
  ASSUME IInv, WorkRuns
  PROVE  IInv'
<1> USE DEF WorkRuns
<1>1. boot = "done" /\ Rounds
  BY TraceScheduled
<1>2. "work" \in Scanners /\ "boot" \in Scanners \ {"work"}
  BY DEF Scanners
<1>3. round \in 0 .. 2 /\ Label(round + 1) = Labels[round + 2]
  BY <1>1 DEF Rounds, Label, Labels, IInv, LiveTypes
<1>4. Label(round + 1) \in Names
  BY DEF Label, Names
<1>5. snap' \in [Scanners -> SnapStates]
  BY <1>2, <1>4, SnapshotBegun DEF IInv
<1>6. /\ snap'["work"].at = "node" /\ snap'["work"].label = Label(round + 1)
      /\ snap'["boot"] = snap["boot"]
  BY <1>2, <1>4, SnapshotBegun DEF IInv
<1>7. LiveTypes' /\ ReportsInOrder'
  BY <1>5 DEF IInv, LiveTypes, ReportsInOrder
<1>8. Rounds'
  BY <1>1, <1>3, <1>6 DEF Rounds, Running, Snapping, IInv, LiveTypes
<1> QED
  BY <1>1, <1>7, <1>8 DEF IInv, InPhase, Early

LEMMA WorkEndsStep ==
  ASSUME IInv, WorkEnds
  PROVE  IInv'
<1> USE DEF WorkEnds
<1>1. boot = "done" /\ Rounds
  BY TraceScheduled
<1>s. "work" \in Scanners /\ "boot" \in Scanners \ {"work"}
  BY DEF Scanners
<1>2. snap' \in [Scanners -> SnapStates]
  BY <1>s, NoSnapType, SnapReplaced DEF IInv
<1>3. snap'["work"].at = "none" /\ snap'["boot"] = snap["boot"]
  BY <1>s, NoSnapType, SnapReplaced DEF IInv
<1>4. round \in 1 .. 3
  BY <1>1 DEF Rounds
<1>5. timer' = IF round = 1 THEN 3 ELSE IF round = 2 THEN 8 ELSE -1
  BY <1>4 DEF Delay, Delays
<1>6. LiveTypes' /\ ReportsInOrder'
  BY <1>2, <1>5 DEF IInv, LiveTypes, ReportsInOrder
<1>7. Rounds'
  BY <1>1, <1>3, <1>4, <1>5 DEF Rounds, Running, Times, IInv, LiveTypes
<1> QED
  BY <1>1, <1>6, <1>7 DEF IInv, InPhase, Early

(* A snapshot's steps up to its end: it keeps running, under its label.    *)
LEMMA ListingStep ==
  ASSUME IInv, NEW c \in Scanners, TraceNode(c) \/ ListPlatform(c) \/ ListDisk(c)
  PROVE  IInv'
<1> USE DEF TraceNode, ListPlatform, ListDisk
<1>1. UNCHANGED <<boot, disks, round, timer, now, reports>>
  OBVIOUS
<1>2. IsFiniteSet(Devices)
  BY BringupAssumption, FS_AddElement DEF Devices
<1>3. Cardinality(Devices) \in Nat /\ ListCap \in Nat
  BY <1>2, FS_CardinalityType, BringupAssumption
<1>4. snap[c] \in SnapStates
  BY DEF IInv, LiveTypes
<1>5. PICK s \in SnapStates : /\ snap' = [snap EXCEPT ![c] = s]
                              /\ s.label = snap[c].label
                              /\ s.at \in {"node", "platform", "block"}
  <2>1. CASE TraceNode(c)
    <3> DEFINE h == Host \in dd.driver
               s == [snap[c] EXCEPT !.at = "platform", !.host = h]
    <3>1. h \in BOOLEAN
      OBVIOUS
    <3>2. snap' = [snap EXCEPT ![c] = s]
      BY <2>1, <1>4 DEF IInv, LiveTypes
    <3> HIDE DEF h
    <3>3. s \in SnapStates /\ s.label = snap[c].label /\ s.at = "platform"
      BY <3>1, <1>4 DEF SnapStates
    <3> QED
      BY <3>2, <3>3
  <2>2. CASE ListPlatform(c)
    <3> DEFINE n == IF Cardinality(Devices) < ListCap THEN Cardinality(Devices) ELSE ListCap
               s == [snap[c] EXCEPT !.at = "block", !.platform = n]
    <3>1. n \in Nat
      BY <1>3
    <3>2. snap' = [snap EXCEPT ![c] = s]
      BY <2>2, <1>4 DEF IInv, LiveTypes
    <3> HIDE DEF n
    <3>3. s \in SnapStates /\ s.label = snap[c].label /\ s.at = "block"
      BY <3>1, <1>4 DEF SnapStates
    <3> QED
      BY <3>2, <3>3
  <2>3. CASE ListDisk(c)
    <3> DEFINE i == snap[c].i
               l == snap[c].listed \cup {disks[i]}
               s == [snap[c] EXCEPT !.i = i + 1, !.listed = l]
    <3>1. i \in Nat \ {0} /\ i + 1 \in Nat \ {0}
      BY <1>4 DEF SnapStates
    <3>2. disks[i] \in Disks
      BY <2>3, <3>1 DEF IInv, LiveTypes
    <3>3. l \in SUBSET Disks
      BY <3>2, <1>4 DEF SnapStates
    <3>4. snap' = [snap EXCEPT ![c] = s]
      BY <2>3, <1>4 DEF IInv, LiveTypes
    <3>5. snap[c].at = "block"
      BY <2>3
    <3> HIDE DEF i, l
    <3>6. s \in SnapStates /\ s.label = snap[c].label /\ s.at = "block"
      BY <3>1, <3>3, <3>5, <1>4 DEF SnapStates
    <3> QED
      BY <3>4, <3>6
  <2> QED
    BY <2>1, <2>2, <2>3
<1>r. Running(c)
  BY DEF Running
<1>s. /\ snap' \in [Scanners -> SnapStates]
      /\ snap'[c] = s /\ \A k \in Scanners \ {c} : snap'[k] = snap[k]
  BY <1>5, SnapReplaced DEF IInv
<1>t. \A k \in Scanners : /\ snap'[k].label = snap[k].label
                          /\ Running(k)' <=> Running(k)
                          /\ snap'[k].at = "none" <=> snap[k].at = "none"
  BY <1>5, <1>r, <1>s DEF Running
<1>6. LiveTypes' /\ ReportsInOrder'
  BY <1>1, <1>s DEF IInv, LiveTypes, ReportsInOrder
<1>7. InPhase'
  BY <1>1, <1>t DEF IInv, InPhase, BeforeTrace, LateInitRuns, Rounds, Scanners
<1> QED
  BY <1>6, <1>7 DEF IInv

LEMMA EndSnapshotStep ==
  ASSUME IInv, NEW c \in Scanners, EndSnapshot(c)
  PROVE  IInv'
<1> USE DEF EndSnapshot
<1> DEFINE r == [label |-> snap[c].label, time |-> now]
<1>1. Running(c) /\ UNCHANGED <<boot, disks, round, timer, now>>
  BY DEF Running
<1>2. /\ snap' \in [Scanners -> SnapStates]
      /\ snap'[c].at = "ended" /\ snap'[c].label = snap[c].label
      /\ \A k \in Scanners \ {c} : snap'[k] = snap[k]
  BY DEF IInv, LiveTypes, SnapStates
<1>3. r \in [label : Names, time : Nat]
  BY DEF IInv, LiveTypes, SnapStates
<1>4. /\ reports' \in Seq([label : Names, time : Nat])
      /\ Len(reports') = Len(reports) + 1
      /\ reports'[Len(reports) + 1] = r
      /\ \A i \in DOMAIN reports : reports'[i] = reports[i]
      /\ DOMAIN reports' = DOMAIN reports \cup {Len(reports) + 1}
  BY <1>3 DEF IInv, LiveTypes
<1>5. LiveTypes'
  BY <1>1, <1>2, <1>4 DEF IInv, LiveTypes
<1>6. /\ Len(reports) < 4
      /\ r.label = Labels[Len(reports) + 1] /\ r.time >= Times[Len(reports) + 1]
      /\ InPhase'
  <2>1. CASE c = "boot"
    <3>1. boot = "snapping" /\ LateInitRuns
      BY <2>1, <1>1 DEF IInv, InPhase, LiveTypes, BeforeTrace, Rounds, Early, Running
    <3>2. LateInitRuns'
      BY <2>1, <3>1, <1>1, <1>2, <1>4 DEF LateInitRuns, Running, Scanners, IInv, LiveTypes
    <3> QED
      BY <2>1, <3>1, <3>2, <1>1
      DEF LateInitRuns, InPhase, Early, Labels, Times, IInv, LiveTypes
  <2>2. CASE c = "work"
    <3>1. boot = "done" /\ Rounds
      BY <2>2, <1>1 DEF IInv, InPhase, LiveTypes, BeforeTrace, LateInitRuns, Early, Running
    <3>2. Rounds'
      BY <2>2, <3>1, <1>1, <1>2, <1>4 DEF Rounds, Running, Scanners, IInv, LiveTypes
    <3>3. Len(reports) = round /\ round \in 1 .. 3
      BY <2>2, <3>1, <1>1 DEF Rounds, Running, IInv, LiveTypes
    <3>4. r.label = Labels[round + 1] /\ r.time >= Times[round + 1]
      BY <2>2, <3>1, <1>1 DEF Rounds, Running
    <3> QED
      BY <3>1, <3>2, <3>3, <3>4, <1>1 DEF InPhase, Early
  <2> QED
    BY <2>1, <2>2 DEF Scanners
<1>7. ReportsInOrder'
  BY <1>4, <1>6 DEF ReportsInOrder, IInv, LiveTypes
<1> QED
  BY <1>5, <1>6, <1>7 DEF IInv

LEMMA NextIInv == IInv /\ [Next]_vars => IInv'
<1> SUFFICES ASSUME IInv, [Next]_vars PROVE IInv'
  OBVIOUS
<1>d. disks \in Seq(Disks)
  BY DEF IInv, LiveTypes
<1>1. ASSUME NEW d \in Devices, Register(d) \/ Retry(d) PROVE IInv'
  BY <1>1, <1>d, Elsewhere DEF Register, Retry
<1>2. CASE EnableDeferred \/ FlushDeferred
  BY <1>2, DeferredStep
<1>3. CASE LateInit
  BY <1>3, LateInitStep
<1>4. CASE ScheduleWork
  BY <1>4, ScheduleWorkStep
<1>5. CASE Tick
  BY <1>5, TickStep
<1>6. CASE WorkRuns
  BY <1>6, WorkRunsStep
<1>7. CASE WorkEnds
  BY <1>7, WorkEndsStep
<1>8. CASE SkipPowerMode \/ OtherBinds
  BY <1>8, <1>d, Elsewhere DEF SkipPowerMode, OtherBinds
<1>9. ASSUME NEW t \in Threads, ThreadStep(t) PROVE IInv'
  BY <1>9, <1>d, Elsewhere
     DEF ThreadStep, Passes, Fails, Defers, PassesOver, ResetDevice, ScheduleScan, EndProbe
<1>10. ASSUME NEW c \in Scanners, SnapshotStep(c) PROVE IInv'
  BY <1>10, ListingStep, EndSnapshotStep DEF SnapshotStep
<1>11. ASSUME NEW d \in Disks, AddDisk(d) PROVE IInv'
  <2>1. disks' \in Seq(Disks)
    BY <1>11, <1>d DEF AddDisk
  <2> QED
    BY <1>11, <2>1, Elsewhere DEF AddDisk
<1>12. CASE UNCHANGED vars
  BY <1>12, <1>d, Elsewhere DEF vars, live
<1> QED
  BY <1>1, <1>2, <1>3, <1>4, <1>5, <1>6, <1>7, <1>8, <1>9, <1>10, <1>11, <1>12
     DEF Next, BootStep, WorkerStep, WorkStep

THEOREM IInvInvariant == Spec => []IInv
  BY InitIInv, NextIInv, PTL DEF Spec

(* Whatever probes, scans and disks do meanwhile, the lines of two         *)
(* snapshots never mix, their labels follow one another, and none was      *)
(* taken earlier than its label says.                                      *)
THEOREM SnapshotsOrdered == Spec => []SnapshotsInOrder
<1>1. IInv => SnapshotsInOrder
  <2> SUFFICES ASSUME IInv PROVE SnapshotsInOrder
    OBVIOUS
  <2>1. ~(Running("boot") /\ Running("work"))
    BY DEF IInv, InPhase, LiveTypes, BeforeTrace, LateInitRuns, Rounds, Running
  <2>2. \A c \in Scanners : snap[c].at \notin {"none", "ended"} => Running(c)
    BY DEF IInv, LiveTypes, SnapStates, Running
  <2> QED
    BY <2>1, <2>2 DEF IInv, ReportsInOrder, SnapshotsInOrder, Scanners
<1> QED
  BY <1>1, IInvInvariant, PTL

-------------------------------------------------------------------------------
(***************************************************************************)
(* The driver core and the threads' work.  TypeOK is not inductive: that   *)
(* an unbound device is one a thread has taken off every list, and that a  *)
(* thread's marks are those of its own program, are HeldApart and OwnWork. *)
(***************************************************************************)
DriverCore ==
  [registered : SUBSET Devices, driver : SUBSET Devices, bound : SUBSET Devices,
   pending : SUBSET Devices, active : SUBSET Devices, enabled : BOOLEAN, triggers : Nat]

HostStages ==
  ToSet(PreProbe) \cup ToSet(Platform) \cup ToSet(Core) \cup ToSet(Return) \cup {"init_fail"}

ScanStages ==
  {"async_scan_begin", "probe_hba_begin", "link_startup", "verify_dev_init",
   "complete_dev_init", "device_params", "config_pwr_mode", "probe_hba_end",
   "async_probe_hba", "add_wlus", "devfreq", "scsi_scan_begin", "scsi_scan_end", "add_lus",
   "async_scan_end"}

StagesOf(t, d) ==
  IF t = "scan" THEN ScanStages
  ELSE IF d = Host THEN HostStages
  ELSE IF d \in Providers THEN {"probe", "ready"} ELSE {}

RunStates == [dev : Devices \cup {Nobody}, todo : Seq(Stages), ret : Results, count : Nat]

WorkTypes ==
  /\ dd \in DriverCore /\ run \in [Threads -> RunStates]
  /\ absent \subseteq Devices

Apart(d, gone) ==
  /\ d.bound \subseteq d.driver /\ d.driver \subseteq d.registered
  /\ d.registered \subseteq Devices \ gone
  /\ d.pending \cup d.active \subseteq d.registered
  /\ d.pending \cap d.active = {} /\ (d.pending \cup d.active) \cap d.driver = {}

HeldApart ==
  \A t \in Probers : run[t].dev # Nobody =>
    /\ run[t].dev \in dd.driver \ dd.bound
    /\ \A o \in Probers \ {t} : run[o].dev # run[t].dev

OwnWork ==
  /\ run["scan"].dev = Nobody
  /\ \A t \in Threads : run[t].todo \in Seq(StagesOf(t, run[t].dev))

WInv == WorkTypes /\ Apart(dd, absent) /\ HeldApart /\ OwnWork

LEMMA StageSets ==
  /\ ToSet(PreProbe) = {"pinctrl", "dma", "sysfs", "pm_activate", "bus_probe_begin",
                        "clk_defaults", "power_domain"}
  /\ ToSet(Platform) = {"PROBE_BEGIN", "mmio", "irq", "alloc_host", "parse_clocks",
                        "parse_regulators"}
  /\ ToSet(Core) = {"init_begin", "hba_init", "capabilities", "dma_mask", "memory_alloc",
                    "eh_wq", "request_irq", "scsi_add_host", "queues", "device_reset", "hba_enable",
                    "async_scan_scheduled", "init_return"}
  /\ ToSet(Return) = {"ufshcd_init", "return", "PROBE_END", "bus_probe_end"}
  /\ ToSet(ProbeHba) = {"probe_hba_begin", "link_startup", "verify_dev_init",
                        "complete_dev_init", "device_params", "config_pwr_mode"}
<1>1. ToSet(PreProbe) = {"pinctrl", "dma", "sysfs", "pm_activate", "bus_probe_begin",
                        "clk_defaults", "power_domain"}
  BY DEF ToSet, PreProbe
<1>2. ToSet(Platform) = {"PROBE_BEGIN", "mmio", "irq", "alloc_host", "parse_clocks",
                         "parse_regulators"}
  BY DEF ToSet, Platform
<1>3. ToSet(Core) = {"init_begin", "hba_init", "capabilities", "dma_mask", "memory_alloc",
                     "eh_wq", "request_irq", "scsi_add_host", "queues", "device_reset", "hba_enable",
                     "async_scan_scheduled", "init_return"}
  BY DEF ToSet, Core
<1>4. ToSet(Return) = {"ufshcd_init", "return", "PROBE_END", "bus_probe_end"}
  BY DEF ToSet, Return
<1>5. ToSet(ProbeHba) = {"probe_hba_begin", "link_startup", "verify_dev_init",
                         "complete_dev_init", "device_params", "config_pwr_mode"}
  BY DEF ToSet, ProbeHba
<1> QED
  BY <1>1, <1>2, <1>3, <1>4, <1>5

LEMMA InToSet ==
  ASSUME NEW S, NEW s \in Seq(S)
  PROVE  s \in Seq(ToSet(s))
<1>1. s \in [1 .. Len(s) -> ToSet(s)] /\ Len(s) \in Nat
  BY DEF ToSet
<1> QED
  BY <1>1

(* The elements of a concatenation.                                        *)
LEMMA Joined ==
  ASSUME NEW S, NEW s \in Seq(S), NEW r \in Seq(S)
  PROVE  /\ s \o r \in Seq(S)
         /\ Len(s \o r) = Len(s) + Len(r)
         /\ \A i \in 1 .. Len(s) + Len(r) :
              (s \o r)[i] = IF i <= Len(s) THEN s[i] ELSE r[i - Len(s)]
  OBVIOUS

LEMMA HostStagesAre ==
  HostStages =
    {"pinctrl", "dma", "sysfs", "pm_activate", "bus_probe_begin", "clk_defaults",
     "power_domain", "PROBE_BEGIN", "mmio", "irq",
     "alloc_host", "parse_clocks", "parse_regulators", "init_begin", "hba_init",
     "capabilities", "dma_mask", "memory_alloc", "eh_wq", "request_irq", "scsi_add_host",
     "queues", "device_reset", "hba_enable", "async_scan_scheduled", "init_return", "ufshcd_init",
     "return", "PROBE_END", "bus_probe_end", "init_fail"}
  BY StageSets DEF HostStages

(* The parts of the programs are sequences of their own stages.            *)
LEMMA PartTypes ==
  /\ PreProbe \in Seq(HostStages) /\ Platform \in Seq(HostStages)
  /\ Core \in Seq(HostStages) /\ Return \in Seq(HostStages)
  /\ ProbeHba \in Seq(ScanStages) /\ AsyncScan \in Seq(ScanStages)
  /\ Len(PreProbe) = 7 /\ Len(Platform) = 6 /\ Len(Core) = 13 /\ Len(Return) = 4
<1>1. PreProbe \in Seq(HostStages) /\ Len(PreProbe) = 7
  BY HostStagesAre DEF PreProbe
<1>2. Platform \in Seq(HostStages) /\ Len(Platform) = 6
  BY HostStagesAre DEF Platform
<1>3. Core \in Seq(HostStages) /\ Len(Core) = 13
  BY HostStagesAre DEF Core
<1>4. Return \in Seq(HostStages) /\ Len(Return) = 4
  BY HostStagesAre DEF Return
<1>5. ProbeHba \in Seq(ScanStages)
  BY DEF ProbeHba, ScanStages
<1>6. <<"async_scan_begin">> \in Seq(ScanStages)
  BY DEF ScanStages
<1>7. <<"probe_hba_end", "async_probe_hba", "add_wlus", "devfreq", "scsi_scan_begin",
        "scsi_scan_end", "add_lus", "async_scan_end">> \in Seq(ScanStages)
  BY DEF ScanStages
<1>8. AsyncScan \in Seq(ScanStages)
  BY <1>5, <1>6, <1>7, Joined DEF AsyncScan
<1> QED
  BY <1>1, <1>2, <1>3, <1>4, <1>5, <1>8

LEMMA HostProgram ==
  /\ Program(Host) \in Seq(HostStages) /\ Len(Program(Host)) = 30
  /\ \A i \in 1 .. 30 :
       Program(Host)[i] = IF i <= 7 THEN PreProbe[i] ELSE IF i <= 13 THEN Platform[i - 7]
                          ELSE IF i <= 26 THEN Core[i - 13] ELSE Return[i - 26]
<1>1. PICK A : A = PreProbe \o Platform
  OBVIOUS
<1>2. PICK B : B = A \o Core
  OBVIOUS
<1>3. PICK C : C = B \o Return
  OBVIOUS
<1>4. /\ A \in Seq(HostStages) /\ Len(A) = Len(PreProbe) + Len(Platform)
      /\ \A i \in 1 .. Len(PreProbe) + Len(Platform) :
           A[i] = IF i <= Len(PreProbe) THEN PreProbe[i] ELSE Platform[i - Len(PreProbe)]
  BY <1>1, PartTypes, Joined
<1>a. A \in Seq(HostStages) /\ Core \in Seq(HostStages) /\ Return \in Seq(HostStages)
  BY <1>4, PartTypes
<1>5. /\ B \in Seq(HostStages) /\ Len(B) = Len(A) + Len(Core)
      /\ \A i \in 1 .. Len(A) + Len(Core) :
           B[i] = IF i <= Len(A) THEN A[i] ELSE Core[i - Len(A)]
  BY <1>2, <1>a, Joined
<1>b. B \in Seq(HostStages)
  BY <1>5
<1>6. /\ C \in Seq(HostStages) /\ Len(C) = Len(B) + Len(Return)
      /\ \A i \in 1 .. Len(B) + Len(Return) :
           C[i] = IF i <= Len(B) THEN B[i] ELSE Return[i - Len(B)]
  BY <1>3, <1>a, <1>b, Joined
<1>7. Len(A) = 13 /\ Len(B) = 26 /\ Len(C) = 30
  BY <1>4, <1>5, <1>6, PartTypes
<1>8. /\ \A i \in 1 .. 13 : A[i] = IF i <= 7 THEN PreProbe[i] ELSE Platform[i - 7]
      /\ \A i \in 1 .. 26 : B[i] = IF i <= 13 THEN A[i] ELSE Core[i - 13]
      /\ \A i \in 1 .. 30 : C[i] = IF i <= 26 THEN B[i] ELSE Return[i - 26]
  BY <1>4, <1>5, <1>6, <1>7, PartTypes
<1>9. Program(Host) = C
  BY <1>1, <1>2, <1>3 DEF Program
<1>10. \A i \in 14 .. 26 : C[i] = Core[i - 13]
  BY <1>8
<1>11. \A i \in 1 .. 13 : C[i] = IF i <= 7 THEN PreProbe[i] ELSE Platform[i - 7]
  BY <1>8
<1>12. \A i \in 27 .. 30 : C[i] = Return[i - 26]
  BY <1>8
<1>13. \A i \in 1 .. 30 :
         C[i] = IF i <= 7 THEN PreProbe[i] ELSE IF i <= 13 THEN Platform[i - 7]
                ELSE IF i <= 26 THEN Core[i - 13] ELSE Return[i - 26]
  BY <1>10, <1>11, <1>12
<1> QED
  BY <1>6, <1>7, <1>13, <1>9

(* The same, for the stages of ufshcd_init() and for those behind it.      *)
LEMMA HostCore ==
  /\ \A i \in 14 .. 26 : Program(Host)[i] = Core[i - 13]
  /\ \A i \in 27 .. 30 : Program(Host)[i] = Return[i - 26]
<1>1. PICK P : P = Program(Host)
  OBVIOUS
<1>2. \A i \in 1 .. 30 :
        P[i] = IF i <= 7 THEN PreProbe[i] ELSE IF i <= 13 THEN Platform[i - 7]
               ELSE IF i <= 26 THEN Core[i - 13] ELSE Return[i - 26]
  BY <1>1, HostProgram
<1>3. \A i \in 14 .. 26 : P[i] = Core[i - 13]
  BY <1>2
<1>4. \A i \in 27 .. 30 : P[i] = Return[i - 26]
  BY <1>2
<1> QED
  BY <1>1, <1>3, <1>4

LEMMA JoinedSet ==
  ASSUME NEW S, NEW s \in Seq(S), NEW r \in Seq(S)
  PROVE  ToSet(s \o r) = ToSet(s) \cup ToSet(r)
<1> DEFINE j == s \o r
<1>1. /\ j \in Seq(S) /\ Len(j) = Len(s) + Len(r) /\ Len(s) \in Nat /\ Len(r) \in Nat
      /\ \A i \in 1 .. Len(s) + Len(r) : j[i] = IF i <= Len(s) THEN s[i] ELSE r[i - Len(s)]
  BY Joined
<1> HIDE DEF j
<1>2. DOMAIN j = 1 .. Len(s) + Len(r) /\ DOMAIN s = 1 .. Len(s) /\ DOMAIN r = 1 .. Len(r)
  BY <1>1
<1>3. \A i \in DOMAIN s : i \in DOMAIN j /\ j[i] = s[i]
  BY <1>1, <1>2
<1>4. \A i \in DOMAIN r : Len(s) + i \in DOMAIN j /\ j[Len(s) + i] = r[i]
  BY <1>1, <1>2
<1>5. ASSUME NEW i \in DOMAIN j
      PROVE  (i \in DOMAIN s /\ j[i] = s[i]) \/ (i - Len(s) \in DOMAIN r /\ j[i] = r[i - Len(s)])
  <2>1. i \in 1 .. Len(s) + Len(r)
    BY <1>2
  <2>2. CASE i <= Len(s)
    BY <1>1, <1>2, <2>1, <2>2
  <2>3. CASE ~(i <= Len(s))
    <3>1. i - Len(s) \in 1 .. Len(r)
      BY <1>1, <2>1, <2>3
    <3> QED
      BY <1>1, <1>2, <2>1, <2>3, <3>1
  <2> QED
    BY <2>2, <2>3
<1>6. ToSet(s) \cup ToSet(r) \subseteq ToSet(j)
  BY <1>3, <1>4 DEF ToSet
<1>7. ToSet(j) \subseteq ToSet(s) \cup ToSet(r)
  BY <1>5 DEF ToSet
<1> QED
  BY <1>6, <1>7 DEF j

LEMMA StagesAre ==
  /\ HostStages \cup ScanStages \cup {"probe", "ready"} \subseteq Stages
  /\ ToSet(AsyncScan) \subseteq ScanStages
<1> DEFINE T == HostStages \cup ScanStages
<1>1. PICK a : a = <<"async_scan_begin">>
  OBVIOUS
<1>2. PICK b : b = <<"probe_hba_end", "async_probe_hba", "add_wlus", "devfreq",
                     "scsi_scan_begin", "scsi_scan_end", "add_lus", "async_scan_end">>
  OBVIOUS
<1>3. a \in Seq(ScanStages) /\ b \in Seq(ScanStages)
  BY <1>1, <1>2 DEF ScanStages
<1>4. AsyncScan = (a \o ProbeHba) \o b /\ a \o ProbeHba \in Seq(ScanStages)
  BY <1>1, <1>2, <1>3, PartTypes DEF AsyncScan
<1>5. ToSet(AsyncScan) = ToSet(a \o ProbeHba) \cup ToSet(b)
  BY <1>3, <1>4, JoinedSet
<1>6. ToSet(a \o ProbeHba) = ToSet(a) \cup ToSet(ProbeHba)
  BY <1>3, PartTypes, JoinedSet
<1>7. ToSet(a) = {"async_scan_begin"}
  BY <1>1 DEF ToSet
<1>8. ToSet(b) = {"probe_hba_end", "async_probe_hba", "add_wlus", "devfreq",
                  "scsi_scan_begin", "scsi_scan_end", "add_lus", "async_scan_end"}
  BY <1>2 DEF ToSet
<1>9. ToSet(AsyncScan) = ScanStages
  BY <1>5, <1>6, <1>7, <1>8, StageSets DEF ScanStages
<1>10. /\ PreProbe \in Seq(T) /\ Platform \in Seq(T) /\ Core \in Seq(T) /\ Return \in Seq(T)
       /\ AsyncScan \in Seq(T)
  BY PartTypes
<1> HIDE DEF T
<1>p. PICK p : p = PreProbe \o Platform
  OBVIOUS
<1>q. PICK q : q = p \o Core
  OBVIOUS
<1>r. PICK r : r = q \o Return
  OBVIOUS
<1>11. p \in Seq(T) /\ ToSet(p) = ToSet(PreProbe) \cup ToSet(Platform)
  BY <1>10, <1>p, Joined, JoinedSet
<1>12. q \in Seq(T) /\ ToSet(q) = ToSet(p) \cup ToSet(Core)
  <2>1. p \in Seq(T) /\ Core \in Seq(T)
    BY <1>10, <1>11
  <2> QED
    BY <2>1, <1>q, Joined, JoinedSet
<1>13. r \in Seq(T) /\ ToSet(r) = ToSet(q) \cup ToSet(Return)
  <2>1. q \in Seq(T) /\ Return \in Seq(T)
    BY <1>10, <1>12
  <2> QED
    BY <2>1, <1>r, Joined, JoinedSet
<1>14. ToSet(r \o AsyncScan) = ToSet(r) \cup ToSet(AsyncScan)
  <2>1. r \in Seq(T) /\ AsyncScan \in Seq(T)
    BY <1>10, <1>13
  <2> QED
    BY <2>1, JoinedSet
<1>15. Stages = ToSet(r \o AsyncScan) \cup {"probe", "ready", "init_fail", "BYPASS", "DEVICE_RESET"}
  BY <1>p, <1>q, <1>r DEF Stages
<1>16. HostStages \cup ToSet(AsyncScan) = ToSet(r \o AsyncScan) \cup {"init_fail"}
  BY <1>11, <1>12, <1>13, <1>14 DEF HostStages
<1> QED
  BY <1>9, <1>15, <1>16

(* A thread's own program is made of its own stages.                       *)
LEMMA ProgramTypes ==
  ASSUME NEW t \in Probers, NEW d \in Devices
  PROVE  Program(d) \in Seq(StagesOf(t, d)) /\ Program(d) \in Seq(Stages)
<1>1. t # "scan"
  BY DEF Probers
<1>2. CASE d = Host
  <2>1. StagesOf(t, d) = HostStages
    BY <1>1, <1>2 DEF StagesOf
  <2>2. Program(d) \in Seq(HostStages) /\ HostStages \subseteq Stages
    BY <1>2, HostProgram, StagesAre
  <2> QED
    BY <2>1, <2>2
<1>3. CASE d # Host
  <2>1. StagesOf(t, d) = {"probe", "ready"} /\ {"probe", "ready"} \subseteq Stages
    BY <1>1, <1>3, StagesAre DEF StagesOf, Devices
  <2>2. Program(d) = <<"probe", "ready">>
    BY <1>3 DEF Program, ProviderProbe
  <2> QED
    BY <2>1, <2>2
<1> QED
  BY <1>2, <1>3

(* What only records a place, but for the scan's scheduling.               *)
Closing == Plain \ {"async_scan_scheduled"}

(* The way out is made of the thread's own closing marks.                  *)
LEMMA UnwindTypes ==
  ASSUME NEW s, NEW S \in {HostStages, ScanStages, {"probe", "ready"}}, s \in S
  PROVE  Unwind(s) \in Seq(S) /\ Unwind(s) \in Seq(Closing)
<1>1. ToSet(Return) \subseteq Closing /\ "init_fail" \in Closing
  BY StageSets DEF Closing, Plain
<1>2. Return \in Seq(ToSet(Return))
  BY PartTypes, InToSet
<1>3. Return \in Seq(Closing) /\ Return \in Seq(HostStages)
  BY <1>1, <1>2, PartTypes
<1>4. CASE S = HostStages
  <2>1. s \notin ToSet(ProbeHba) \cup {"add_wlus", "devfreq"}
    BY <1>4, HostStagesAre, StageSets
  <2>p. {"clk_defaults", "power_domain"} \cap (ToSet(Core) \cup ToSet(Platform)) = {}
    BY StageSets
  <2>2. CASE s \in ToSet(Core)
    <3>1. Unwind(s) = <<"init_fail">> \o Return
      <4>1. s \notin ToSet(Platform)
        BY <2>2, StageSets
      <4> QED
        BY <2>1, <2>2, <2>p, <4>1 DEF Unwind
    <3>2. <<"init_fail">> \in Seq(Closing) /\ <<"init_fail">> \in Seq(HostStages)
      BY <1>1, HostStagesAre
    <3> QED
      BY <1>3, <1>4, <3>1, <3>2, Joined
  <2>3. CASE s \in ToSet(Platform)
    <3>1. Unwind(s) = Tail(Return)
      <4>1. s \notin ToSet(Core)
        BY <2>3, StageSets
      <4> QED
        BY <2>1, <2>3, <2>p, <4>1 DEF Unwind
    <3>2. Return # <<>>
      BY DEF Return
    <3> QED
      BY <1>3, <1>4, <3>1, <3>2
  <2>4. CASE s \notin ToSet(Core) \cup ToSet(Platform)
    <3>1. Unwind(s) \in {<<>>, <<"bus_probe_end">>}
      BY <2>1, <2>4 DEF Unwind
    <3>2. "bus_probe_end" \in Closing \cap HostStages
      BY <1>1, HostStagesAre, StageSets
    <3>3. <<"bus_probe_end">> \in Seq(Closing) /\ <<"bus_probe_end">> \in Seq(HostStages)
      BY <3>2
    <3>4. <<>> \in Seq(Closing) /\ <<>> \in Seq(HostStages)
      OBVIOUS
    <3>5. Unwind(s) \in Seq(Closing) /\ Unwind(s) \in Seq(HostStages)
      BY <3>1, <3>3, <3>4
    <3> QED
      BY <1>4, <3>5
  <2> QED
    BY <2>2, <2>3, <2>4
<1>5. CASE S = ScanStages
  <2>1. s \notin ToSet(Core) \cup ToSet(Platform) \cup {"clk_defaults", "power_domain"}
    BY <1>5, StageSets DEF ScanStages
  <2>2. Unwind(s) \in {<<"probe_hba_end", "async_probe_hba", "async_scan_end">>,
                       <<"add_lus", "async_scan_end">>, <<>>}
    BY <2>1 DEF Unwind
  <2>3. {"probe_hba_end", "async_probe_hba", "async_scan_end", "add_lus"}
          \subseteq ScanStages \cap Closing
    BY DEF ScanStages, Closing, Plain
  <2>4. /\ <<"probe_hba_end", "async_probe_hba", "async_scan_end">> \in Seq(ScanStages \cap Closing)
        /\ <<"add_lus", "async_scan_end">> \in Seq(ScanStages \cap Closing)
        /\ <<>> \in Seq(ScanStages \cap Closing)
    BY <2>3
  <2>5. Unwind(s) \in Seq(ScanStages \cap Closing)
    BY <2>2, <2>4
  <2> QED
    BY <1>5, <2>5
<1>6. CASE S = {"probe", "ready"}
  <2>1. s \notin ToSet(Core) \cup ToSet(Platform) \cup ToSet(ProbeHba)
                \cup {"clk_defaults", "power_domain", "add_wlus", "devfreq"}
    BY <1>6, StageSets
  <2>2. Unwind(s) = <<>>
    BY <2>1 DEF Unwind
  <2> QED
    BY <2>2
<1> QED
  BY <1>4, <1>5, <1>6

LEMMA IdleType == Idle \in RunStates /\ Idle.dev = Nobody /\ Idle.todo = <<>> /\ Idle.ret = "ok"
<1>1. <<>> \in Seq(Stages)
  OBVIOUS
<1> QED
  BY <1>1 DEF Idle, RunStates, Results

LEMMA TriggeredKeeps ==
  ASSUME NEW d \in DriverCore
  PROVE  /\ Triggered(d) \in DriverCore
         /\ Triggered(d).bound = d.bound /\ Triggered(d).driver = d.driver
         /\ Triggered(d).registered = d.registered
         /\ Triggered(d).pending \cup Triggered(d).active = d.pending \cup d.active
         /\ Apart(d, absent) => Apart(Triggered(d), absent)
<1>1. CASE d.enabled
  <2> DEFINE e == [d EXCEPT !.triggers = @ + 1, !.active = @ \cup d.pending, !.pending = {}]
  <2>1. Triggered(d) = e
    BY <1>1 DEF Triggered
  <2>f. /\ d.active \cup d.pending \in SUBSET Devices /\ d.triggers + 1 \in Nat
        /\ d.active \cap {} = {} /\ {} \in SUBSET Devices
    BY DEF DriverCore
  <2>g. e = [d EXCEPT !.triggers = d.triggers + 1, !.active = d.active \cup d.pending,
                      !.pending = {}]
    BY DEF DriverCore
  <2>2. /\ e \in DriverCore
        /\ e.bound = d.bound /\ e.driver = d.driver /\ e.registered = d.registered
        /\ e.pending = {} /\ e.active = d.active \cup d.pending
    BY <2>f, <2>g DEF DriverCore
  <2> HIDE DEF e
  <2> QED
    BY <2>1, <2>2 DEF Apart
<1>2. CASE ~d.enabled
  BY <1>2 DEF Triggered
<1> QED
  BY <1>1, <1>2

LEMMA InitWInv == Init => WInv
<1> SUFFICES ASSUME Init PROVE WInv
  OBVIOUS
<1>1. /\ dd = [registered |-> {}, driver |-> {}, bound |-> {}, pending |-> {}, active |-> {},
               enabled |-> FALSE, triggers |-> 0]
      /\ run = [t \in Threads |-> Idle] /\ absent \subseteq Optional
  BY DEF Init
<1>2. WorkTypes
  <2>1. {} \in SUBSET Devices /\ FALSE \in BOOLEAN /\ 0 \in Nat
    OBVIOUS
  <2>2. dd \in DriverCore
    BY <1>1, <2>1 DEF DriverCore
  <2> QED
    BY <1>1, <2>2, IdleType, BringupAssumption DEF WorkTypes, Devices
<1>3. Apart(dd, absent)
  BY <1>1 DEF Apart
<1>4. \A t \in Threads : run[t].dev = Nobody /\ run[t].todo = <<>>
  BY <1>1, IdleType
<1>5. HeldApart
  BY <1>4 DEF HeldApart, Threads
<1>6. OwnWork
  <2>1. \A S : <<>> \in Seq(S)
    OBVIOUS
  <2>2. "scan" \in Threads
    BY DEF Threads
  <2> QED
    BY <1>4, <2>1, <2>2 DEF OwnWork
<1> QED
  BY <1>2, <1>3, <1>5, <1>6 DEF WInv

(* What a thread's step does to its work: it drops the first stage, or     *)
(* leaves with a bad result; scheduling the scan gives that its program.   *)
Moves(t) ==
  /\ run[t].todo # <<>> /\ UNCHANGED <<absent, dd, boot>>
  /\ run' \in [Threads -> RunStates]
  /\ \/ run'[t] = [run[t] EXCEPT !.todo = Tail(@)]
     \/ /\ Stage(t) \notin Plain \cup {"device_reset"}
        /\ \E ret \in {"fail", "defer"} :
             run'[t] = [run[t] EXCEPT !.todo = Unwind(Stage(t)), !.ret = ret]
  /\ \A o \in Threads \ {t} :
       \/ run'[o] = run[o]
       \/ /\ o = "scan" /\ Stage(t) = "async_scan_scheduled"
          /\ run'[o] = [run[o] EXCEPT !.todo = AsyncScan]

LEMMA StageOwned ==
  ASSUME WInv, NEW t \in Threads, run[t].todo # <<>>
  PROVE  /\ Stage(t) \in StagesOf(t, run[t].dev) /\ Stage(t) \in Stages
         /\ StagesOf(t, run[t].dev) \in {HostStages, ScanStages, {"probe", "ready"}}
         /\ Tail(run[t].todo) \in Seq(StagesOf(t, run[t].dev))
<1>1. run[t].todo \in Seq(StagesOf(t, run[t].dev))
  BY DEF WInv, OwnWork
<1>2. Stage(t) \in StagesOf(t, run[t].dev)
  BY <1>1 DEF Stage
<1>3. StagesOf(t, run[t].dev) \in {HostStages, ScanStages, {"probe", "ready"}}
  BY <1>2 DEF StagesOf
<1>4. Stage(t) \in Stages
  BY <1>2, <1>3, StagesAre
<1>5. \A S : run[t].todo \in Seq(S) => Tail(run[t].todo) \in Seq(S)
  OBVIOUS
<1> QED
  BY <1>1, <1>2, <1>3, <1>4, <1>5

LEMMA ThreadMoves ==
  ASSUME WInv, NEW t \in Threads,
         \/ Passes(t) \/ Fails(t) \/ Defers(t) \/ PassesOver(t) \/ ResetDevice(t)
         \/ ScheduleScan(t) \/ (t = "scan" /\ SkipPowerMode)
  PROVE  Moves(t)
<1>1. run[t].todo # <<>> /\ UNCHANGED <<absent, dd, boot>>
  BY DEF Passes, Fails, Defers, PassesOver, ResetDevice, ScheduleScan, SkipPowerMode, Working
<1>2. run \in [Threads -> RunStates] /\ run[t] \in RunStates
  BY DEF WInv, WorkTypes
<1>3. /\ run[t].todo \in Seq(Stages) /\ run[t].ret \in Results
      /\ Tail(run[t].todo) \in Seq(Stages)
  BY <1>1, <1>2 DEF RunStates
<1>4. Stage(t) \in StagesOf(t, run[t].dev)
      /\ StagesOf(t, run[t].dev) \in {HostStages, ScanStages, {"probe", "ready"}}
  BY <1>1, StageOwned
<1>5. Unwind(Stage(t)) \in Seq(Stages)
  <2>1. Unwind(Stage(t)) \in Seq(StagesOf(t, run[t].dev))
    BY <1>4, UnwindTypes
  <2>2. StagesOf(t, run[t].dev) \subseteq Stages
    BY <1>4, StagesAre
  <2> QED
    BY <2>1, <2>2
<1>6. CASE Goes(t)
  <2>1. run' = [run EXCEPT ![t] = [run[t] EXCEPT !.todo = Tail(@)]]
    BY <1>2, <1>6 DEF Goes
  <2>2. [run[t] EXCEPT !.todo = Tail(@)] \in RunStates
    BY <1>2, <1>3 DEF RunStates
  <2> QED
    BY <1>1, <1>2, <2>1, <2>2 DEF Moves
<1>7. ASSUME NEW ret \in {"fail", "defer"}, Leaves(t, ret),
             Stage(t) \notin Plain \cup {"device_reset"}
      PROVE  Moves(t)
  <2> DEFINE w == [run[t] EXCEPT !.todo = Unwind(Stage(t)), !.ret = ret]
  <2>1. run' = [run EXCEPT ![t] = w]
    BY <1>2, <1>7 DEF Leaves
  <2>2. w \in RunStates
    BY <1>2, <1>5 DEF RunStates, Results
  <2>3. run' \in [Threads -> RunStates] /\ run'[t] = w
        /\ \A o \in Threads \ {t} : run'[o] = run[o]
    BY <1>2, <2>1, <2>2
  <2> QED
    BY <1>1, <1>7, <2>3 DEF Moves
<1>8. CASE Fails(t)
  BY <1>7, <1>8 DEF Fails
<1>9. CASE Defers(t)
  <2>1. Stage(t) \in {"probe", "pinctrl"} \cup Deferring
    BY <1>9 DEF Defers, Missing, NeededBy
  <2>2. Stage(t) \notin Plain \cup {"device_reset"}
    BY <2>1, StageSets DEF Plain, Deferring
  <2> QED
    BY <1>7, <1>9, <2>2 DEF Defers
<1>10. CASE ScheduleScan(t)
  <2>1. Stage(t) = "async_scan_scheduled"
    BY <1>10 DEF ScheduleScan
  <2>2. t # "scan" /\ "scan" \in Threads
    BY <1>4, <2>1 DEF StagesOf, ScanStages, Threads
  <2>3. run' = [run EXCEPT ![t].todo = Tail(@), !["scan"].todo = AsyncScan]
    BY <1>10 DEF ScheduleScan
  <2>4. run["scan"] \in RunStates /\ AsyncScan \in Seq(Stages)
    BY <1>2, <2>2, PartTypes, StagesAre
  <2>5. run'[t] = [run[t] EXCEPT !.todo = Tail(@)]
        /\ run'["scan"] = [run["scan"] EXCEPT !.todo = AsyncScan]
        /\ \A o \in Threads \ {t, "scan"} : run'[o] = run[o]
    BY <1>2, <2>2, <2>3
  <2>6. [run[t] EXCEPT !.todo = Tail(@)] \in RunStates
        /\ [run["scan"] EXCEPT !.todo = AsyncScan] \in RunStates
    BY <1>2, <1>3, <2>4 DEF RunStates
  <2>7. run' \in [Threads -> RunStates]
    <3>1. run' = [o \in Threads |-> run'[o]]
      BY <1>2, <2>3
    <3>2. \A o \in Threads : run'[o] \in RunStates
      BY <1>2, <2>5, <2>6
    <3> QED
      BY <3>1, <3>2
  <2> QED
    BY <1>1, <2>1, <2>5, <2>7 DEF Moves
<1> QED
  BY <1>6, <1>8, <1>9, <1>10 DEF Passes, PassesOver, ResetDevice, SkipPowerMode

(* A step of a thread's work leaves every thread its device.               *)
LEMMA MovesDevices ==
  ASSUME WInv, NEW t \in Threads, Moves(t)
  PROVE  \A o \in Threads : run'[o].dev = run[o].dev
<1>1. \A o \in Threads : run[o] \in RunStates
  BY DEF WInv, WorkTypes
<1>2. ASSUME NEW o \in Threads \ {t} PROVE run'[o].dev = run[o].dev
  <2>1. run'[o] = run[o] \/ run'[o] = [run[o] EXCEPT !.todo = AsyncScan]
    BY DEF Moves
  <2> QED
    BY <1>1, <2>1 DEF RunStates
<1>3. run'[t].dev = run[t].dev
  <2>1. CASE run'[t] = [run[t] EXCEPT !.todo = Tail(@)]
    BY <1>1, <2>1 DEF RunStates
  <2>2. CASE ~(run'[t] = [run[t] EXCEPT !.todo = Tail(@)])
    <3>1. PICK ret : run'[t] = [run[t] EXCEPT !.todo = Unwind(Stage(t)), !.ret = ret]
      BY <2>2 DEF Moves
    <3> QED
      BY <1>1, <3>1 DEF RunStates
  <2> QED
    BY <2>1, <2>2
<1> QED
  BY <1>2, <1>3

LEMMA MovesKeep ==
  ASSUME WInv, NEW t \in Threads, Moves(t)
  PROVE  WInv'
<1>1. \A o \in Threads : run'[o].dev = run[o].dev
  BY MovesDevices
<1>2. run \in [Threads -> RunStates] /\ dd \in DriverCore
  BY DEF WInv, WorkTypes
<1>3. WorkTypes' /\ Apart(dd', absent')
  BY DEF WInv, WorkTypes, Moves, Apart
<1>4. HeldApart'
  BY <1>1 DEF WInv, HeldApart, Moves, Threads
<1>5. ASSUME NEW o \in Threads
      PROVE  run'[o].todo \in Seq(StagesOf(o, run[o].dev))
  <2>1. run[t].todo # <<>> /\ run[o] \in RunStates
    BY <1>2 DEF Moves
  <2>2. CASE o = t
    <3>1. CASE run'[t] = [run[t] EXCEPT !.todo = Tail(@)]
      BY <1>2, <2>1, <2>2, <3>1, StageOwned DEF RunStates
    <3>2. CASE ~(run'[t] = [run[t] EXCEPT !.todo = Tail(@)])
      <4>1. PICK ret : run'[t] = [run[t] EXCEPT !.todo = Unwind(Stage(t)), !.ret = ret]
        BY <3>2 DEF Moves
      <4>2. run'[t].todo = Unwind(Stage(t))
        BY <2>1, <2>2, <4>1 DEF RunStates
      <4>3. Unwind(Stage(t)) \in Seq(StagesOf(t, run[t].dev))
        BY <2>1, StageOwned, UnwindTypes
      <4> QED
        BY <2>2, <4>2, <4>3
    <3> QED
      BY <3>1, <3>2
  <2>3. CASE o # t
    <3>1. CASE run'[o] = run[o]
      BY <3>1 DEF WInv, OwnWork
    <3>2. CASE run'[o] # run[o]
      <4>1. o = "scan" /\ run'[o] = [run[o] EXCEPT !.todo = AsyncScan]
        BY <2>3, <3>2 DEF Moves
      <4>2. StagesOf(o, run[o].dev) = ScanStages
        BY <4>1 DEF StagesOf
      <4> QED
        BY <2>1, <4>1, <4>2, PartTypes DEF RunStates
    <3> QED
      BY <3>1, <3>2
  <2> QED
    BY <2>2, <2>3
<1>6. OwnWork'
  BY <1>1, <1>5 DEF WInv, OwnWork, StagesOf, Threads
<1> QED
  BY <1>3, <1>4, <1>6 DEF WInv

(* A device whose probe begins is bound to its driver and was not before.  *)
LEMMA StartKeeps ==
  ASSUME WInv, NEW t \in Probers, NEW d \in Devices, StartProbe(t, d), UNCHANGED absent,
         \/ /\ d \notin absent \cup dd.registered
            /\ dd' = [dd EXCEPT !.registered = @ \cup {d}, !.driver = @ \cup {d}]
         \/ d \in dd.active /\ dd' = [dd EXCEPT !.active = @ \ {d}, !.driver = @ \cup {d}]
  PROVE  /\ WInv'
         /\ run'[t].dev = d /\ run'[t].todo = Program(d) /\ run'[t].ret = "ok"
         /\ \A o \in Threads \ {t} : run'[o] = run[o]
         /\ run[t].dev = Nobody /\ \A o \in Threads : run[o].dev # d
         /\ d \notin dd.driver /\ dd'.bound = dd.bound
<1>1. /\ run \in [Threads -> RunStates] /\ dd \in DriverCore
      /\ t \in Threads /\ t # "scan" /\ "scan" \in Threads
  BY DEF WInv, WorkTypes, Threads, Probers
<1>2. Program(d) \in Seq(StagesOf(t, d)) /\ Program(d) \in Seq(Stages)
  BY ProgramTypes
<1> DEFINE w == [Idle EXCEPT !.dev = d, !.todo = Program(d), !.count = dd.triggers]
<1>3. w \in RunStates /\ w.dev = d /\ w.todo = Program(d) /\ w.ret = "ok"
  <2>1. dd.triggers \in Nat
    BY <1>1 DEF DriverCore
  <2> QED
    BY <1>2, <2>1, IdleType DEF RunStates
<1>4. run' = [run EXCEPT ![t] = w] /\ run[t] = Idle /\ \A o \in Threads : run[o].dev # d
  BY DEF StartProbe
<1> HIDE DEF w
<1>5. run' \in [Threads -> RunStates] /\ run'[t] = w /\ \A o \in Threads \ {t} : run'[o] = run[o]
  BY <1>1, <1>3, <1>4
<1>6. d \notin dd.driver
  BY DEF WInv, Apart
<1>7. /\ dd' \in DriverCore /\ Apart(dd', absent') /\ dd'.bound = dd.bound
      /\ dd'.driver = dd.driver \cup {d}
  <2>1. CASE /\ d \notin absent \cup dd.registered
             /\ dd' = [dd EXCEPT !.registered = @ \cup {d}, !.driver = @ \cup {d}]
    <3>1. /\ dd' \in DriverCore /\ dd'.bound = dd.bound /\ dd'.driver = dd.driver \cup {d}
          /\ dd'.registered = dd.registered \cup {d}
          /\ dd'.pending = dd.pending /\ dd'.active = dd.active
      BY <1>1, <2>1 DEF DriverCore
    <3> QED
      BY <1>6, <2>1, <3>1 DEF WInv, Apart
  <2>2. CASE d \in dd.active /\ dd' = [dd EXCEPT !.active = @ \ {d}, !.driver = @ \cup {d}]
    <3>1. /\ dd' \in DriverCore /\ dd'.bound = dd.bound /\ dd'.driver = dd.driver \cup {d}
          /\ dd'.registered = dd.registered
          /\ dd'.pending = dd.pending /\ dd'.active = dd.active \ {d}
      BY <1>1, <2>2 DEF DriverCore
    <3> QED
      BY <1>6, <2>2, <3>1 DEF WInv, Apart
  <2> QED
    BY <2>1, <2>2
<1>8. WorkTypes'
  BY <1>5, <1>7 DEF WInv, WorkTypes
<1>9. HeldApart'
  <2>1. run'[t].dev = d /\ d \in dd'.driver \ dd'.bound
    BY <1>3, <1>5, <1>6, <1>7 DEF WInv, Apart
  <2> QED
    BY <2>1, <1>4, <1>5, <1>7 DEF WInv, HeldApart, Threads
<1>10. OwnWork'
  BY <1>1, <1>2, <1>3, <1>5 DEF WInv, OwnWork
<1>11. run[t].dev = Nobody
  BY <1>4, IdleType
<1> QED
  BY <1>3, <1>4, <1>5, <1>6, <1>7, <1>8, <1>9, <1>10, <1>11 DEF WInv

(* A probe that ends binds its device or takes it off its driver.          *)
LEMMA EndKeeps ==
  ASSUME WInv, NEW t \in Threads, EndProbe(t)
  PROVE  /\ WInv'
         /\ t \in Probers /\ run[t].dev \in Devices /\ run[t].todo = <<>>
         /\ run'[t] = Idle /\ \A o \in Threads \ {t} : run'[o] = run[o]
         /\ run[t].ret = "ok" => /\ dd'.bound = dd.bound \cup {run[t].dev}
                                 /\ dd'.driver = dd.driver
         /\ run[t].ret # "ok" => /\ dd'.bound = dd.bound
                                 /\ dd'.driver = dd.driver \ {run[t].dev}
<1>1. /\ run \in [Threads -> RunStates] /\ dd \in DriverCore
      /\ t \in Probers /\ t # "scan" /\ run[t].dev # Nobody /\ run[t].todo = <<>>
      /\ run[t] \in RunStates
  BY DEF WInv, WorkTypes, EndProbe, Probers
<1>2. PICK d \in Devices : d = run[t].dev
  BY <1>1 DEF RunStates
<1>3. d \in dd.driver /\ d \notin dd.bound /\ d \notin dd.pending \cup dd.active
  BY <1>1, <1>2 DEF WInv, HeldApart, Apart
<1>4. run' = [run EXCEPT ![t] = Idle] /\ absent' = absent
  BY DEF EndProbe
<1>5. run' \in [Threads -> RunStates] /\ run'[t] = Idle
      /\ \A o \in Threads \ {t} : run'[o] = run[o]
  BY <1>1, <1>4, IdleType
<1>6. run[t].ret \in {"ok", "defer", "fail"}
  BY <1>1 DEF RunStates, Results
<1> DEFINE G == /\ dd' \in DriverCore /\ Apart(dd', absent')
                /\ IF run[t].ret = "ok"
                     THEN dd'.bound = dd.bound \cup {d} /\ dd'.driver = dd.driver
                     ELSE dd'.bound = dd.bound /\ dd'.driver = dd.driver \ {d}
<1>7. PICK u : u = [dd EXCEPT !.driver = @ \ {d}]
  OBVIOUS
<1>8. PICK w : w = [u EXCEPT !.pending = @ \cup {d}]
  OBVIOUS
<1>9. PICK b : b = [dd EXCEPT !.bound = @ \cup {d}, !.pending = @ \ {d}, !.active = @ \ {d}]
  OBVIOUS
<1>10. u \in DriverCore /\ Apart(u, absent) /\ u.bound = dd.bound /\ u.driver = dd.driver \ {d}
  BY <1>1, <1>2, <1>3, <1>7 DEF WInv, DriverCore, Apart
<1>11. w \in DriverCore /\ Apart(w, absent) /\ w.bound = dd.bound /\ w.driver = dd.driver \ {d}
  <2>1. /\ w \in DriverCore /\ w.bound = u.bound /\ w.driver = u.driver
        /\ w.registered = u.registered /\ w.active = u.active /\ w.pending = u.pending \cup {d}
    BY <1>8, <1>10 DEF DriverCore
  <2>2. u.registered = dd.registered /\ u.active = dd.active /\ u.pending = dd.pending
    BY <1>1, <1>7 DEF DriverCore
  <2>3. d \in dd.registered
    BY <1>3 DEF WInv, Apart
  <2> QED
    BY <1>3, <1>10, <2>1, <2>2, <2>3 DEF Apart
<1>12. b \in DriverCore /\ Apart(b, absent) /\ b.bound = dd.bound \cup {d} /\ b.driver = dd.driver
  BY <1>1, <1>2, <1>3, <1>9 DEF WInv, DriverCore, Apart
<1>13. dd' = CASE run[t].ret = "ok"    -> Triggered(b)
               [] run[t].ret = "defer" -> IF run[t].count # dd.triggers THEN Triggered(w) ELSE w
               [] run[t].ret = "fail"  -> u
  BY <1>2, <1>7, <1>8, <1>9 DEF EndProbe
<1>15. ASSUME run[t].ret = "ok" PROVE G
  <2>1. dd' = Triggered(b)
    BY <1>13, <1>15
  <2> QED
    BY <1>12, <1>4, <1>15, <2>1, TriggeredKeeps
<1>16. ASSUME run[t].ret = "defer" PROVE G
  <2>1. dd' \in {Triggered(w), w}
    BY <1>13, <1>16
  <2> QED
    BY <1>11, <1>4, <1>16, <2>1, TriggeredKeeps
<1>17. ASSUME run[t].ret = "fail" PROVE G
  <2>1. dd' = u
    BY <1>13, <1>17
  <2> QED
    BY <1>10, <1>4, <1>17, <2>1
<1>18. G
  BY <1>6, <1>15, <1>16, <1>17
<1>19. WorkTypes'
  BY <1>4, <1>5, <1>18 DEF WInv, WorkTypes
<1>20. HeldApart'
  <2>1. \A o \in Probers \ {t} : run[o].dev # d
    BY <1>1, <1>2 DEF WInv, HeldApart
  <2> QED
    BY <1>1, <1>5, <1>18, <2>1, IdleType DEF WInv, HeldApart, Threads
<1>21. OwnWork'
  <2>1. \A S : <<>> \in Seq(S)
    OBVIOUS
  <2>2. "scan" \in Threads \ {t}
    BY <1>1 DEF Threads
  <2> QED
    BY <1>5, <2>1, <2>2, IdleType DEF WInv, OwnWork
<1> QED
  BY <1>1, <1>2, <1>5, <1>18, <1>19, <1>20, <1>21 DEF WInv

(***************************************************************************)
(* The steps of the whole system, as far as probes and the scan go.        *)
(***************************************************************************)
Started(t, d) ==
  /\ StartProbe(t, d) /\ UNCHANGED absent
  /\ \/ /\ d \notin absent \cup dd.registered
        /\ dd' = [dd EXCEPT !.registered = @ \cup {d}, !.driver = @ \cup {d}]
     \/ d \in dd.active /\ dd' = [dd EXCEPT !.active = @ \ {d}, !.driver = @ \cup {d}]

Works(t) ==
  \/ Passes(t) \/ Fails(t) \/ Defers(t) \/ PassesOver(t) \/ ResetDevice(t)
  \/ ScheduleScan(t) \/ (t = "scan" /\ SkipPowerMode)

Quiet == UNCHANGED <<absent, probes>> /\ dd'.bound = dd.bound /\ dd'.driver = dd.driver

LEMMA CoreSteps ==
  ASSUME WInv, UNCHANGED <<absent, probes>>, NEW d \in DriverCore,
         d \in {dd, [dd EXCEPT !.enabled = TRUE]}, dd' \in {d, Triggered(d)}
  PROVE  Quiet /\ WInv'
<1>1. dd \in DriverCore
  BY DEF WInv, WorkTypes
<1>2. Apart(d, absent) /\ d.bound = dd.bound /\ d.driver = dd.driver
  BY <1>1 DEF WInv, Apart, DriverCore
<1>3. /\ dd' \in DriverCore /\ Apart(dd', absent)
      /\ dd'.bound = dd.bound /\ dd'.driver = dd.driver
  BY <1>2, TriggeredKeeps
<1>4. UNCHANGED <<absent, run>>
  BY DEF probes
<1>5. WorkTypes' /\ Apart(dd', absent')
  BY <1>3, <1>4 DEF WInv, WorkTypes
<1>6. HeldApart' /\ OwnWork'
  BY <1>3, <1>4 DEF WInv, HeldApart, OwnWork
<1> QED
  BY <1>3, <1>5, <1>6 DEF WInv, Quiet

LEMMA StepCases ==
  ASSUME WInv, [Next]_vars
  PROVE  /\ WInv'
         /\ \/ Quiet
            \/ \E t \in Probers, d \in Devices : Started(t, d)
            \/ \E t \in Threads : EndProbe(t)
            \/ \E t \in Threads : Works(t)
<1> DEFINE Goal == /\ WInv'
                   /\ \/ Quiet
                      \/ \E t \in Probers, d \in Devices : Started(t, d)
                      \/ \E t \in Threads : EndProbe(t)
                      \/ \E t \in Threads : Works(t)
<1>d. /\ dd \in DriverCore /\ dd \in {dd, [dd EXCEPT !.enabled = TRUE]}
      /\ [dd EXCEPT !.enabled = TRUE] \in DriverCore
  BY DEF WInv, WorkTypes, DriverCore
<1>1. ASSUME NEW t \in Probers, NEW d \in Devices, Started(t, d) PROVE Goal
  <2>1. WInv'
    BY <1>1, StartKeeps DEF Started
  <2> QED
    BY <1>1, <2>1
<1>2. ASSUME NEW d \in Devices, Register(d) PROVE Goal
  <2>1. Started("boot", d) /\ "boot" \in Probers
    BY <1>2 DEF Register, Started, Probers
  <2> QED
    BY <1>1, <2>1
<1>3. ASSUME NEW d \in Devices, Retry(d) PROVE Goal
  <2>1. Started("worker", d) /\ "worker" \in Probers
    BY <1>3 DEF Retry, Started, Probers
  <2> QED
    BY <1>1, <2>1
<1>4. ASSUME NEW t \in Threads, EndProbe(t) PROVE Goal
  <2>1. WInv'
    BY <1>4, EndKeeps
  <2> QED
    BY <1>4, <2>1
<1>5. ASSUME NEW t \in Threads, Works(t) PROVE Goal
  <2>1. Moves(t)
    BY <1>5, ThreadMoves DEF Works
  <2>2. WInv'
    BY <2>1, MovesKeep
  <2> QED
    BY <1>5, <2>2
<1>6. ASSUME UNCHANGED <<absent, probes>>,
             \/ dd' \in {dd, Triggered(dd)}
             \/ dd' = Triggered([dd EXCEPT !.enabled = TRUE])
      PROVE  Goal
  BY <1>d, <1>6, CoreSteps
<1>7. ASSUME EnableDeferred \/ FlushDeferred \/ OtherBinds PROVE Goal
  BY <1>6, <1>7 DEF EnableDeferred, FlushDeferred, OtherBinds
<1>8. ASSUME LateInit \/ ScheduleWork \/ Tick \/ WorkRuns \/ WorkEnds PROVE Goal
  BY <1>6, <1>8 DEF LateInit, ScheduleWork, Tick, WorkRuns, WorkEnds
<1>9. ASSUME NEW t \in Threads, ThreadStep(t) PROVE Goal
  BY <1>4, <1>5, <1>9 DEF ThreadStep, Works
<1>10. ASSUME SkipPowerMode PROVE Goal
  BY <1>5, <1>10 DEF Works, Threads
<1>11. ASSUME NEW c \in Scanners, SnapshotStep(c) PROVE Goal
  BY <1>6, <1>11 DEF SnapshotStep, TraceNode, ListPlatform, ListDisk, EndSnapshot
<1>12. ASSUME NEW d \in Disks, AddDisk(d) PROVE Goal
  BY <1>6, <1>12 DEF AddDisk
<1>13. ASSUME UNCHANGED vars PROVE Goal
  BY <1>6, <1>13 DEF vars, probes
<1> HIDE DEF Goal
<1>14. Goal
  BY <1>2, <1>3, <1>7, <1>8, <1>9, <1>10, <1>11, <1>12, <1>13
     DEF Next, BootStep, WorkerStep, WorkStep
<1> QED
  BY <1>14 DEF Goal

LEMMA WInvInvariant == Spec => []WInv
<1>1. WInv /\ [Next]_vars => WInv'
  BY StepCases
<1> QED
  BY <1>1, InitWInv, PTL DEF Spec

(***************************************************************************)
(* What a probe has passed: what a call asks for is bound once that call   *)
(* is no longer ahead of the probe and nothing has failed.                 *)
(***************************************************************************)
Asks(d) == IF d = Host THEN Deferring ELSE {"probe"}
NeedsAt(d, s) == IF d = Host THEN HostNeeds[s] ELSE Needs[d]

PassedIsReady ==
  \A t \in Probers : (run[t].dev # Nobody /\ run[t].ret = "ok") =>
    \A s \in Asks(run[t].dev) :
      s \in ToSet(run[t].todo) \/ NeedsAt(run[t].dev, s) \subseteq dd.bound

ReadyInv == PassedIsReady /\ BoundMeansReady

LEMMA AsksInProgram ==
  ASSUME NEW d \in Devices PROVE Asks(d) \subseteq ToSet(Program(d))
<1>1. CASE d = Host
  <2>1. DOMAIN Program(Host) = 1 .. 30
    BY HostProgram
  <2>2. Program(Host)[2] = PreProbe[2] /\ PreProbe[2] = "dma"
    BY HostProgram DEF PreProbe
  <2>3. Program(Host)[6] = PreProbe[6] /\ PreProbe[6] = "clk_defaults"
    BY HostProgram DEF PreProbe
  <2>4. Program(Host)[7] = PreProbe[7] /\ PreProbe[7] = "power_domain"
    BY HostProgram DEF PreProbe
  <2>5. Program(Host)[10] = Platform[3] /\ Platform[3] = "irq"
    BY HostProgram DEF Platform
  <2>6. Program(Host)[15] = Core[2] /\ Core[2] = "hba_init"
    BY HostProgram DEF Core
  <2>7. {2, 6, 7, 10, 15} \subseteq DOMAIN Program(Host)
    BY <2>1
  <2> QED
    BY <1>1, <2>2, <2>3, <2>4, <2>5, <2>6, <2>7 DEF Asks, Deferring, ToSet
<1>2. CASE d # Host
  <2>1. Program(d) = <<"probe", "ready">>
    BY <1>2 DEF Program, ProviderProbe
  <2> QED
    BY <1>2, <2>1 DEF Asks, ToSet
<1> QED
  BY <1>1, <1>2

LEMMA ElementOfTail ==
  ASSUME NEW S, NEW s \in Seq(S), s # <<>>
  PROVE  /\ ToSet(s) = {Head(s)} \cup ToSet(Tail(s))
         /\ Len(Tail(s)) = Len(s) - 1 /\ Len(s) \in Nat \ {0}
         /\ \A i \in 1 .. Len(s) - 1 : Tail(s)[i] = s[i + 1]
<1>1. /\ Len(Tail(s)) = Len(s) - 1 /\ Len(s) \in Nat \ {0} /\ Tail(s) \in Seq(S)
      /\ \A i \in 1 .. Len(s) - 1 : Tail(s)[i] = s[i + 1]
  OBVIOUS
<1>2. DOMAIN s = 1 .. Len(s) /\ DOMAIN Tail(s) = 1 .. Len(s) - 1 /\ Head(s) = s[1]
  BY <1>1
<1>3. \A i \in DOMAIN s : i = 1 \/ (i - 1 \in DOMAIN Tail(s) /\ Tail(s)[i - 1] = s[i])
  BY <1>1, <1>2
<1>4. \A i \in DOMAIN Tail(s) : i + 1 \in DOMAIN s /\ Tail(s)[i] = s[i + 1]
  BY <1>1, <1>2
<1>5. 1 \in DOMAIN s
  BY <1>1, <1>2
<1>6. ToSet(s) \subseteq {Head(s)} \cup ToSet(Tail(s))
  BY <1>2, <1>3 DEF ToSet
<1>7. {Head(s)} \cup ToSet(Tail(s)) \subseteq ToSet(s)
  BY <1>2, <1>4, <1>5 DEF ToSet
<1> QED
  BY <1>1, <1>6, <1>7

(* Once bound, ready: what is bound stays bound.                           *)
LEMMA ReadyGrows ==
  ASSUME NEW b, dd.bound \subseteq b, dd'.bound = b, ReadyInv,
         \A d \in b \ dd.bound :
           d \in Devices /\ \A s \in Asks(d) : NeedsAt(d, s) \subseteq dd.bound
  PROVE  BoundMeansReady'
<1>1. \A d \in Devices \cap dd.bound : \A s \in Asks(d) : NeedsAt(d, s) \subseteq dd.bound
  BY BringupAssumption DEF ReadyInv, BoundMeansReady, Asks, NeedsAt, Devices
<1>2. \A d \in Devices \cap b : \A s \in Asks(d) : NeedsAt(d, s) \subseteq b
  BY <1>1
<1>3. "probe" \in {"probe"}
  OBVIOUS
<1> QED
  BY <1>2, <1>3, BringupAssumption DEF BoundMeansReady, Asks, NeedsAt, Devices

LEMMA NextReady == WInv /\ ReadyInv /\ [Next]_vars => ReadyInv'
<1> SUFFICES ASSUME WInv, ReadyInv, [Next]_vars PROVE ReadyInv'
  OBVIOUS
<1>t. /\ \A t \in Threads : run[t] \in RunStates
      /\ Probers \subseteq Threads /\ "scan" \notin Probers
  BY DEF WInv, WorkTypes, Threads, Probers
<1>k. dd'.bound = dd.bound => BoundMeansReady'
  BY DEF ReadyInv, BoundMeansReady
<1>1. CASE Quiet
  <2>1. UNCHANGED run /\ dd'.bound = dd.bound
    BY <1>1 DEF Quiet, probes
  <2> QED
    BY <2>1, <1>k DEF ReadyInv, PassedIsReady
<1>2. ASSUME NEW t \in Probers, NEW d \in Devices, Started(t, d) PROVE ReadyInv'
  <2>1. /\ run'[t].dev = d /\ run'[t].todo = Program(d)
        /\ \A o \in Threads \ {t} : run'[o] = run[o]
        /\ dd'.bound = dd.bound
    BY <1>2, StartKeeps DEF Started
  <2>2. PassedIsReady'
    BY <2>1, <1>t, AsksInProgram DEF ReadyInv, PassedIsReady
  <2> QED
    BY <2>1, <2>2, <1>k DEF ReadyInv
<1>3. ASSUME NEW t \in Threads, EndProbe(t) PROVE ReadyInv'
  <2>1. /\ t \in Probers /\ run[t].dev \in Devices /\ run[t].todo = <<>>
        /\ run'[t] = Idle /\ \A o \in Threads \ {t} : run'[o] = run[o]
        /\ run[t].ret = "ok" => dd'.bound = dd.bound \cup {run[t].dev}
        /\ run[t].ret # "ok" => dd'.bound = dd.bound
    BY <1>3, EndKeeps
  <2>2. PassedIsReady'
    BY <2>1, <1>t, IdleType DEF ReadyInv, PassedIsReady
  <2>3. CASE run[t].ret # "ok"
    BY <2>1, <2>2, <2>3, <1>k DEF ReadyInv
  <2>4. CASE run[t].ret = "ok"
    <3>1. ToSet(run[t].todo) = {}
      BY <2>1 DEF ToSet
    <3>2. \A s \in Asks(run[t].dev) : NeedsAt(run[t].dev, s) \subseteq dd.bound
      BY <2>1, <2>4, <3>1, BringupAssumption DEF ReadyInv, PassedIsReady
    <3> QED
      BY <2>1, <2>2, <2>4, <3>2, ReadyGrows DEF ReadyInv
  <2> QED
    BY <2>3, <2>4
<1>4. ASSUME NEW t \in Threads, Works(t) PROVE ReadyInv'
  <2>1. Moves(t)
    BY <1>4, ThreadMoves DEF Works
  <2>2. \A o \in Threads : run'[o].dev = run[o].dev
    BY <2>1, MovesDevices
  <2>3. dd'.bound = dd.bound
    BY <2>1 DEF Moves
  <2>4. ASSUME NEW o \in Probers, run[o].dev # Nobody, run'[o].ret = "ok",
               NEW s \in Asks(run[o].dev)
        PROVE  s \in ToSet(run'[o].todo) \/ NeedsAt(run[o].dev, s) \subseteq dd.bound
    <3>1. CASE o # t
      BY <1>t, <2>1, <2>4, <3>1 DEF Moves, ReadyInv, PassedIsReady
    <3>2. CASE o = t
      <4>1. run'[t] = [run[t] EXCEPT !.todo = Tail(@)]
        <5>1. CASE \E ret \in {"fail", "defer"} :
                     run'[t] = [run[t] EXCEPT !.todo = Unwind(Stage(t)), !.ret = ret]
          BY <1>t, <2>4, <3>2, <5>1 DEF RunStates
        <5> QED
          BY <2>1, <5>1 DEF Moves
      <4>2. run'[t].todo = Tail(run[t].todo) /\ run[t].ret = "ok"
        BY <1>t, <2>4, <3>2, <4>1 DEF RunStates
      <4>3. run[t].todo \in Seq(Stages) /\ run[t].todo # <<>>
        BY <1>t, <2>1 DEF RunStates, Moves
      <4>4. ToSet(run[t].todo) = {Stage(t)} \cup ToSet(Tail(run[t].todo))
        BY <4>3, ElementOfTail DEF Stage
      <4>5. CASE Stage(t) # s
        BY <2>4, <3>2, <4>2, <4>4, <4>5 DEF ReadyInv, PassedIsReady
      <4>6. CASE Stage(t) = s
        <5>1. NeededBy(t) = NeedsAt(run[t].dev, s)
          BY <2>4, <3>2, <4>6 DEF NeededBy, NeedsAt, Asks, Deferring
        <5>2. ~Missing(t)
          <6>1. Stage(t) \notin {"pinctrl", "device_reset", "async_scan_scheduled", "config_pwr_mode"}
            BY <2>4, <3>2, <4>6 DEF Asks, Deferring
          <6>2. Passes(t) \/ Fails(t) \/ Defers(t)
            BY <1>4, <6>1 DEF Works, PassesOver, Bypassed, ResetDevice, ScheduleScan, SkipPowerMode
          <6>3. ~Fails(t) /\ ~Defers(t)
            <7>1. ASSUME NEW ret \in {"fail", "defer"}, Leaves(t, ret) PROVE FALSE
              <8>1. run'[t].ret = ret
                BY <1>t, <7>1 DEF Leaves, RunStates, WInv, WorkTypes
              <8> QED
                BY <2>4, <3>2, <8>1
            <7> QED
              BY <7>1 DEF Fails, Defers
          <6> QED
            BY <6>2, <6>3 DEF Passes
        <5> QED
          BY <3>2, <5>1, <5>2 DEF Missing
      <4> QED
        BY <4>5, <4>6
    <3> QED
      BY <3>1, <3>2
  <2>5. PassedIsReady'
    BY <1>t, <2>2, <2>3, <2>4 DEF PassedIsReady
  <2> QED
    BY <2>3, <2>5, <1>k DEF ReadyInv
<1> QED
  BY <1>1, <1>2, <1>3, <1>4, StepCases

(* A device binds only when what its probe asks for is bound: the bridge   *)
(* lets the host past its missing pin controller and past nothing else.    *)
THEOREM BoundIsReady == Spec => []BoundMeansReady
<1>1. Init => ReadyInv
  <2> SUFFICES ASSUME Init PROVE ReadyInv
    OBVIOUS
  <2>1. dd.bound = {} /\ \A t \in Threads : run[t] = Idle
    BY DEF Init
  <2> QED
    BY <2>1, IdleType DEF ReadyInv, PassedIsReady, BoundMeansReady, Threads
<1>2. ReadyInv => BoundMeansReady
  BY DEF ReadyInv
<1> QED
  BY <1>1, <1>2, NextReady, WInvInvariant, PTL DEF Spec

(***************************************************************************)
(* The trails.                                                             *)
(***************************************************************************)
MarkTypes == [stage : Stages, ret : Results]
TrailTypes ==
  /\ trail \in [{"probe", "scan"} -> Seq(MarkTypes)]
  /\ failed \in [{"probe", "scan"} -> Stages \cup {""}]

(* A trail with marks added at its end.                                    *)
LEMMA Extended ==
  ASSUME NEW S, NEW s \in Seq(S), NEW r \in Seq(S), NEW j, j = s \o r
  PROVE  /\ j \in Seq(S) /\ ToSet(j) = ToSet(s) \cup ToSet(r)
         /\ DOMAIN s \subseteq DOMAIN j /\ \A i \in DOMAIN s : j[i] = s[i]
         /\ \A i \in DOMAIN j \ DOMAIN s :
              i - Len(s) \in DOMAIN r /\ j[i] = r[i - Len(s)] /\ i > Len(s)
         /\ \A i \in DOMAIN r : i + Len(s) \in DOMAIN j /\ j[i + Len(s)] = r[i]
<1>1. /\ j \in Seq(S) /\ Len(j) = Len(s) + Len(r) /\ Len(s) \in Nat /\ Len(r) \in Nat
      /\ \A i \in 1 .. Len(s) + Len(r) : j[i] = IF i <= Len(s) THEN s[i] ELSE r[i - Len(s)]
  BY Joined
<1>2. DOMAIN j = 1 .. Len(s) + Len(r) /\ DOMAIN s = 1 .. Len(s) /\ DOMAIN r = 1 .. Len(r)
  BY <1>1
<1>3. ToSet(j) = ToSet(s) \cup ToSet(r)
  BY JoinedSet
<1>4. DOMAIN s \subseteq DOMAIN j /\ \A i \in DOMAIN s : j[i] = s[i]
  BY <1>1, <1>2
<1>5. \A i \in DOMAIN j \ DOMAIN s :
        i - Len(s) \in DOMAIN r /\ j[i] = r[i - Len(s)] /\ i > Len(s)
  <2> SUFFICES ASSUME NEW i \in DOMAIN j \ DOMAIN s
               PROVE  i - Len(s) \in DOMAIN r /\ j[i] = r[i - Len(s)] /\ i > Len(s)
    OBVIOUS
  <2>1. i \in 1 .. Len(s) + Len(r) /\ ~(i <= Len(s))
    BY <1>1, <1>2
  <2>2. i - Len(s) \in 1 .. Len(r) /\ i > Len(s)
    BY <1>1, <2>1
  <2>3. j[i] = r[i - Len(s)]
    BY <1>1, <2>1
  <2> QED
    BY <1>2, <2>2, <2>3
<1>6. \A i \in DOMAIN r : i + Len(s) \in DOMAIN j /\ j[i + Len(s)] = r[i]
  <2> SUFFICES ASSUME NEW i \in DOMAIN r
               PROVE  i + Len(s) \in DOMAIN j /\ j[i + Len(s)] = r[i]
    OBVIOUS
  <2>1. i \in 1 .. Len(r)
    BY <1>2
  <2>2. i + Len(s) \in 1 .. Len(s) + Len(r) /\ ~(i + Len(s) <= Len(s)) /\ (i + Len(s)) - Len(s) = i
    BY <1>1, <2>1
  <2> QED
    BY <1>1, <1>2, <2>2
<1> QED
  BY <1>1, <1>3, <1>4, <1>5, <1>6

(* The marks of a step of a thread's work.                                 *)
Marked(t, marks) ==
  \/ marks = <<>> /\ Stage(t) \in Unmarked /\ (Passes(t) \/ Fails(t) \/ Defers(t))
  \/ marks = <<>> /\ t = "scan" /\ SkipPowerMode
  \/ marks = <<Mark(Stage(t), run[t].ret)>> /\ Stage(t) \notin Unmarked /\ Passes(t)
  \/ marks = <<Mark(Stage(t), "fail")>> /\ Stage(t) \notin Unmarked /\ Fails(t)
  \/ marks = <<Mark(Stage(t), "defer")>> /\ Stage(t) \notin Unmarked /\ Defers(t)
  \/ marks = <<Mark(Stage(t), "defer"), Mark("BYPASS", "ok")>> /\ PassesOver(t)
  \/ marks \in {<<Mark("DEVICE_RESET", "ok")>>, <<Mark("DEVICE_RESET", "fail")>>}
       /\ ResetDevice(t)
  \/ marks = <<Mark(Stage(t), "ok")>> /\ ScheduleScan(t)

LEMMA MarkTyped ==
  ASSUME NEW s \in Stages, NEW r \in Results PROVE Mark(s, r) \in MarkTypes
  BY DEF Mark, MarkTypes

LEMMA WorkMarks ==
  ASSUME WInv, TrailTypes, NEW t \in Threads, Works(t)
  PROVE  /\ TrailTypes'
         /\ ~Recorded(t) => UNCHANGED trail
         /\ Recorded(t) => \E marks \in Seq(MarkTypes) :
              /\ Marked(t, marks)
              /\ trail'[Trail(t)] = trail[Trail(t)] \o marks
              /\ \A p \in {"probe", "scan"} \ {Trail(t)} : trail'[p] = trail[p]
<1>1. run[t].todo # <<>>
  BY ThreadMoves DEF Moves, Works
<1>2. Stage(t) \in Stages /\ run[t] \in RunStates
  BY <1>1, StageOwned DEF WInv, WorkTypes
<1>3. {"ok", "defer", "fail"} \subseteq Results /\ run[t].ret \in Results
  BY <1>2 DEF Results, RunStates
<1>4. {"BYPASS", "DEVICE_RESET"} \subseteq Stages
  BY DEF Stages
<1>5. \A s \in Stages, r \in Results : <<Mark(s, r)>> \in Seq(MarkTypes)
  BY MarkTyped
<1>6. \A s \in Stages, r \in Results :
        <<Mark(s, r), Mark("BYPASS", "ok")>> \in Seq(MarkTypes)
  BY <1>3, <1>4, MarkTyped
<1>7. PICK marks \in Seq(MarkTypes) : Marks(t, marks) /\ Marked(t, marks)
  <2>1. CASE Passes(t)
    <3>1. CASE Stage(t) \in Unmarked
      <4>1. Marks(t, <<>>) /\ Marked(t, <<>>) /\ <<>> \in Seq(MarkTypes)
        BY <2>1, <3>1 DEF Passes, MarkCall, Marked
      <4> QED
        BY <4>1
    <3>2. CASE Stage(t) \notin Unmarked
      <4>1. Marks(t, <<Mark(Stage(t), run[t].ret)>>)
        BY <2>1, <3>2 DEF Passes, MarkCall
      <4>2. Marked(t, <<Mark(Stage(t), run[t].ret)>>)
        BY <2>1, <3>2 DEF Marked
      <4> QED
        BY <1>2, <1>3, <1>5, <4>1, <4>2
    <3> QED
      BY <3>1, <3>2
  <2>2. CASE Fails(t)
    <3>1. CASE Stage(t) \in Unmarked
      <4>1. Marks(t, <<>>) /\ Marked(t, <<>>) /\ <<>> \in Seq(MarkTypes)
        BY <2>2, <3>1 DEF Fails, MarkCall, Marked
      <4> QED
        BY <4>1
    <3>2. CASE Stage(t) \notin Unmarked
      <4>1. Marks(t, <<Mark(Stage(t), "fail")>>)
        BY <2>2, <3>2 DEF Fails, MarkCall
      <4>2. Marked(t, <<Mark(Stage(t), "fail")>>)
        BY <2>2, <3>2 DEF Marked
      <4> QED
        BY <1>2, <1>3, <1>5, <4>1, <4>2
    <3> QED
      BY <3>1, <3>2
  <2>3. CASE Defers(t)
    <3>1. CASE Stage(t) \in Unmarked
      <4>1. Marks(t, <<>>) /\ Marked(t, <<>>) /\ <<>> \in Seq(MarkTypes)
        BY <2>3, <3>1 DEF Defers, MarkCall, Marked
      <4> QED
        BY <4>1
    <3>2. CASE Stage(t) \notin Unmarked
      <4>1. Marks(t, <<Mark(Stage(t), "defer")>>)
        BY <2>3, <3>2 DEF Defers, MarkCall
      <4>2. Marked(t, <<Mark(Stage(t), "defer")>>)
        BY <2>3, <3>2 DEF Marked
      <4> QED
        BY <1>2, <1>3, <1>5, <4>1, <4>2
    <3> QED
      BY <3>1, <3>2
  <2>4. CASE PassesOver(t)
    <3>1. /\ Marks(t, <<Mark(Stage(t), "defer"), Mark("BYPASS", "ok")>>)
          /\ Marked(t, <<Mark(Stage(t), "defer"), Mark("BYPASS", "ok")>>)
      BY <2>4 DEF PassesOver, Marked
    <3> QED
      BY <1>2, <1>3, <1>6, <3>1
  <2>5. CASE ResetDevice(t)
    <3>1. PICK r \in {"ok", "fail"} : Marks(t, <<Mark("DEVICE_RESET", r)>>)
      BY <2>5 DEF ResetDevice
    <3>2. Marked(t, <<Mark("DEVICE_RESET", r)>>)
      BY <2>5 DEF Marked
    <3> QED
      BY <1>3, <1>4, <1>5, <3>1, <3>2
  <2>6. CASE ScheduleScan(t)
    <3>1. Marks(t, <<Mark(Stage(t), "ok")>>) /\ Marked(t, <<Mark(Stage(t), "ok")>>)
      BY <2>6 DEF ScheduleScan, Marked
    <3> QED
      BY <1>2, <1>3, <1>5, <3>1
  <2>7. CASE t = "scan" /\ SkipPowerMode
    <3>1. trail' = trail /\ Stage(t) = "config_pwr_mode"
      BY <2>7 DEF SkipPowerMode
    <3>2. trail[Trail(t)] \o <<>> = trail[Trail(t)]
      <4>1. PICK s \in Seq(MarkTypes) : s = trail[Trail(t)]
        BY DEF TrailTypes, Trail
      <4>2. s \o <<>> = s
        OBVIOUS
      <4> QED
        BY <4>1, <4>2
    <3>3. trail = [trail EXCEPT ![Trail(t)] = @ \o <<>>]
      BY <3>2 DEF TrailTypes
    <3>4. Marks(t, <<>>) /\ Marked(t, <<>>) /\ <<>> \in Seq(MarkTypes)
      BY <2>7, <3>1, <3>3 DEF Marks, Marked
    <3> QED
      BY <3>4
  <2> QED
    BY <2>1, <2>2, <2>3, <2>4, <2>5, <2>6, <2>7 DEF Works
<1>f. failed' \in [{"probe", "scan"} -> Stages \cup {""}]
  <2>1. failed' = failed \/ failed' = [failed EXCEPT ![Trail(t)] = Stage(t)]
    BY DEF Works, Passes, Fails, Defers, PassesOver, ResetDevice, ScheduleScan, SkipPowerMode
  <2> QED
    BY <1>2, <2>1 DEF TrailTypes
<1>8. CASE ~Recorded(t)
  BY <1>7, <1>8, <1>f DEF Marks, TrailTypes
<1>9. CASE Recorded(t)
  <2>1. Trail(t) \in {"probe", "scan"}
    BY DEF Trail
  <2>2. trail[Trail(t)] \in Seq(MarkTypes) /\ trail[Trail(t)] \o marks \in Seq(MarkTypes)
    BY <2>1, Joined DEF TrailTypes
  <2>3. trail' = [trail EXCEPT ![Trail(t)] = trail[Trail(t)] \o marks]
    BY <1>7, <1>9 DEF Marks
  <2> QED
    BY <1>7, <1>9, <1>f, <2>1, <2>2, <2>3 DEF TrailTypes
<1> QED
  BY <1>8, <1>9

LEMMA StartTrails ==
  ASSUME TrailTypes, NEW t, NEW d, StartProbe(t, d)
  PROVE  /\ TrailTypes'
         /\ d = Host => trail'["probe"] = <<>> /\ reset' = "no" /\ failed'["probe"] = ""
         /\ d # Host => UNCHANGED <<trail, failed, reset>>
         /\ trail'["scan"] = trail["scan"] /\ failed'["scan"] = failed["scan"]
<1>1. <<>> \in Seq(MarkTypes)
  OBVIOUS
<1> QED
  BY <1>1 DEF StartProbe, TrailTypes

(***************************************************************************)
(* The reset.  Before the controller is enabled a probe of the host has    *)
(* been through the device reset, which has succeeded or left a mark.      *)
(***************************************************************************)
ResetKnown(marks) == reset = "done" \/ Mark("DEVICE_RESET", "fail") \in ToSet(marks)

ResetAhead ==
  \A t \in Probers : run[t].dev = Host =>
    \A i \in DOMAIN run[t].todo : run[t].todo[i] = "hba_enable" =>
      \/ ResetKnown(trail["probe"])
      \/ \E j \in DOMAIN run[t].todo : j < i /\ run[t].todo[j] = "device_reset"

ResetInv == TrailTypes /\ ResetAhead /\ ResetDoneOrMarked

LEMMA ResetBeforeEnable ==
  /\ 23 \in DOMAIN Program(Host) /\ Program(Host)[23] = "device_reset"
  /\ \A i \in DOMAIN Program(Host) : Program(Host)[i] = "hba_enable" => 23 < i
<1>1. DOMAIN Program(Host) = 1 .. 30
  BY HostProgram
<1>2. Program(Host)[23] = Core[10] /\ Core[10] = "device_reset"
  BY HostProgram DEF Core
<1>3. ASSUME NEW i \in 1 .. 30, Program(Host)[i] = "hba_enable" PROVE 23 < i
  <2>1. CASE i <= 7
    <3>1. PreProbe[i] \in ToSet(PreProbe)
      <4>1. i \in 1 .. 7
        BY <2>1
      <4> QED
        BY <4>1, PartTypes DEF ToSet
    <3> QED
      BY <1>3, <2>1, <3>1, HostProgram, StageSets
  <2>2. CASE i \in 8 .. 13
    <3>1. Platform[i - 7] \in ToSet(Platform)
      BY <2>2, PartTypes DEF ToSet
    <3>2. Program(Host)[i] = Platform[i - 7]
      <4>1. i \in 1 .. 30 /\ ~(i <= 7) /\ i <= 13
        BY <2>2
      <4> QED
        BY <4>1, HostProgram
    <3> QED
      BY <1>3, <3>1, <3>2, StageSets
  <2>3. CASE i \in 14 .. 23
    <3>1. Program(Host)[i] = Core[i - 13]
      <4>1. i \in 1 .. 30 /\ ~(i <= 7) /\ ~(i <= 13) /\ i <= 26
        BY <2>3
      <4> QED
        BY <4>1, HostProgram
    <3>2. i - 13 \in 1 .. 10
      BY <2>3
    <3>3. \A k \in 1 .. 10 : Core[k] # "hba_enable"
      BY DEF Core
    <3> QED
      BY <1>3, <3>1, <3>2, <3>3
  <2> QED
    BY <2>1, <2>2, <2>3
<1> QED
  BY <1>1, <1>2, <1>3

LEMMA ResetWorks ==
  ASSUME WInv, ResetInv, NEW t \in Threads, Works(t)
  PROVE  ResetInv'
<1>1. Moves(t)
  BY ThreadMoves DEF Works
<1>2. \A o \in Threads : run'[o].dev = run[o].dev
  BY <1>1, MovesDevices
<1>3. /\ \A o \in Threads : run[o] \in RunStates
      /\ Probers \subseteq Threads /\ "scan" \notin Probers /\ Host # Nobody
  BY BringupAssumption DEF WInv, WorkTypes, Threads, Probers, Devices
<1>4. TrailTypes'
  BY WorkMarks DEF ResetInv
<1>5. run[t].todo # <<>> /\ Stage(t) \in StagesOf(t, run[t].dev)
  BY <1>1, StageOwned DEF Moves
<1>6. CASE t = "scan" \/ run[t].dev # Host
  <2>1. Stage(t) # "device_reset"
    BY <1>5, <1>6 DEF StagesOf, ScanStages
  <2>2. reset' = reset
    BY <2>1
       DEF Works, Passes, Fails, Defers, PassesOver, ResetDevice, ScheduleScan, SkipPowerMode
  <2>3. trail'["probe"] = trail["probe"]
    <3>1. CASE ~Recorded(t)
      BY <3>1, WorkMarks DEF ResetInv
    <3>2. CASE Recorded(t)
      <4>1. Trail(t) = "scan"
        BY <1>6, <3>2 DEF Recorded, Trail
      <4> QED
        BY <3>2, <4>1, WorkMarks DEF ResetInv
    <3> QED
      BY <3>1, <3>2
  <2>4. \A o \in Probers : run[o].dev = Host => run'[o] = run[o]
    BY <1>1, <1>3, <1>6 DEF Moves, WInv, OwnWork
  <2>5. ResetAhead'
    BY <1>2, <1>3, <2>2, <2>3, <2>4 DEF ResetInv, ResetAhead, ResetKnown
  <2>6. ResetDoneOrMarked'
    BY <2>2, <2>3 DEF ResetInv, ResetDoneOrMarked
  <2> QED
    BY <1>4, <2>5, <2>6 DEF ResetInv
<1>7. CASE t # "scan" /\ run[t].dev = Host
  <2>1. Recorded(t) /\ Trail(t) = "probe" /\ t \in Probers
    BY <1>7 DEF Recorded, Trail, Threads
  <2>2. PICK marks \in Seq(MarkTypes) :
          Marked(t, marks) /\ trail'["probe"] = trail["probe"] \o marks
    BY <2>1, WorkMarks DEF ResetInv
  <2>3. trail["probe"] \in Seq(MarkTypes)
    BY DEF ResetInv, TrailTypes
  <2>4. /\ ToSet(trail'["probe"]) = ToSet(trail["probe"]) \cup ToSet(marks)
        /\ \A i \in DOMAIN trail["probe"] : trail'["probe"][i] = trail["probe"][i]
        /\ \A i \in DOMAIN trail'["probe"] \ DOMAIN trail["probe"] :
             \E k \in DOMAIN marks : trail'["probe"][i] = marks[k]
    <3>1. PICK j : j = trail'["probe"]
      OBVIOUS
    <3>2. PICK s \in Seq(MarkTypes) : s = trail["probe"]
      BY <2>3
    <3>3. /\ ToSet(j) = ToSet(s) \cup ToSet(marks) /\ \A i \in DOMAIN s : j[i] = s[i]
          /\ \A i \in DOMAIN j \ DOMAIN s : i - Len(s) \in DOMAIN marks /\ j[i] = marks[i - Len(s)]
      <4>1. j = s \o marks
        BY <2>2, <3>1, <3>2
      <4>2. s \in Seq(MarkTypes) /\ marks \in Seq(MarkTypes)
        OBVIOUS
      <4>3. ToSet(j) = ToSet(s) \cup ToSet(marks)
        BY <4>1, <4>2, JoinedSet
      <4>4. \A i \in DOMAIN s : j[i] = s[i]
        BY <4>1, <4>2, Extended
      <4>5. \A i \in DOMAIN j \ DOMAIN s : i - Len(s) \in DOMAIN marks /\ j[i] = marks[i - Len(s)]
        BY <4>1, <4>2, Extended
      <4> QED
        BY <4>3, <4>4, <4>5
    <3> QED
      BY <3>1, <3>2, <3>3
  <2>5. ResetDevice(t) => (ResetKnown(trail["probe"]))'
    <3> SUFFICES ASSUME ResetDevice(t) PROVE (ResetKnown(trail["probe"]))'
      OBVIOUS
    <3>1. Stage(t) = "device_reset"
      BY DEF ResetDevice
    <3>2. \/ reset' = "done"
          \/ trail' = [trail EXCEPT !["probe"] = @ \o <<Mark("DEVICE_RESET", "fail")>>]
      BY <2>1 DEF ResetDevice, Marks
    <3>3. CASE reset' # "done"
      <4>1. trail'["probe"] = trail["probe"] \o <<Mark("DEVICE_RESET", "fail")>>
        BY <3>2, <3>3 DEF ResetInv, TrailTypes
      <4>2. <<Mark("DEVICE_RESET", "fail")>> \in Seq(MarkTypes)
        BY MarkTyped DEF Stages, Results
      <4>3. ToSet(trail'["probe"]) = ToSet(trail["probe"]) \cup ToSet(<<Mark("DEVICE_RESET", "fail")>>)
        BY <2>3, <4>1, <4>2, JoinedSet
      <4>4. ToSet(<<Mark("DEVICE_RESET", "fail")>>) = {Mark("DEVICE_RESET", "fail")}
        BY DEF ToSet
      <4> QED
        BY <4>3, <4>4 DEF ResetKnown
    <3> QED
      BY <3>3 DEF ResetKnown
  <2>6. ~ResetDevice(t) => Stage(t) # "device_reset" /\ reset' = reset
    <3>1. Works(t) /\ ~ResetDevice(t) /\ Stage(t) = "device_reset" => FALSE
      BY DEF Works, Passes, Fails, Defers, Missing, NeededBy, Deferring, PassesOver, Bypassed,
             ScheduleScan, SkipPowerMode
    <3>2. ~ResetDevice(t) => reset' = reset
      BY DEF Works, Passes, Fails, Defers, PassesOver, ScheduleScan, SkipPowerMode
    <3> QED
      BY <3>1, <3>2
  <2>7. ResetKnown(trail["probe"]) => (ResetKnown(trail["probe"]))'
    BY <2>4, <2>5, <2>6 DEF ResetKnown
  <2>8. ASSUME NEW i \in DOMAIN run'[t].todo, run'[t].todo[i] = "hba_enable",
               ~(ResetKnown(trail["probe"]))'
        PROVE  \E j \in DOMAIN run'[t].todo : j < i /\ run'[t].todo[j] = "device_reset"
    <3>1. CASE run'[t] = [run[t] EXCEPT !.todo = Tail(@)]
      <4>1. PICK s \in Seq(Stages) : s = run[t].todo
        BY <1>3 DEF RunStates
      <4>2. run'[t].todo = Tail(s)
        BY <1>3, <3>1, <4>1 DEF RunStates
      <4>3. /\ Len(Tail(s)) = Len(s) - 1 /\ Len(s) \in Nat \ {0} /\ Tail(s) \in Seq(Stages)
            /\ \A k \in 1 .. Len(s) - 1 : Tail(s)[k] = s[k + 1]
        BY <1>5, <4>1, ElementOfTail
      <4>4. i \in 1 .. Len(s) - 1 /\ s[i + 1] = "hba_enable" /\ i + 1 \in DOMAIN s
        BY <2>8, <4>2, <4>3
      <4>5. PICK j \in DOMAIN s : j < i + 1 /\ s[j] = "device_reset"
        BY <2>1, <1>7, <2>7, <2>8, <4>1, <4>4 DEF ResetInv, ResetAhead
      <4>6. j # 1
        <5>1. s[1] # "device_reset"
          BY <2>5, <2>6, <2>8, <4>1, <4>3 DEF Stage
        <5> QED
          BY <4>5, <5>1
      <4>7. j - 1 \in 1 .. Len(s) - 1 /\ j - 1 < i /\ Tail(s)[j - 1] = s[j]
        BY <4>3, <4>4, <4>5, <4>6
      <4>8. j - 1 \in DOMAIN Tail(s)
        BY <4>3, <4>7
      <4> QED
        BY <4>2, <4>5, <4>7, <4>8
    <3>2. CASE ~(run'[t] = [run[t] EXCEPT !.todo = Tail(@)])
      <4>1. run'[t].todo = Unwind(Stage(t))
        BY <1>1, <1>3, <3>2 DEF Moves, RunStates
      <4>2. Unwind(Stage(t)) \in Seq(Closing)
        BY <1>5, StageOwned, UnwindTypes
      <4>3. "hba_enable" \notin Closing
        BY StageSets DEF Closing, Plain
      <4> QED
        BY <2>8, <4>1, <4>2, <4>3
    <3> QED
      BY <3>1, <3>2
  <2>9. \A o \in Probers \ {t} : run'[o].dev # Host
    BY <1>2, <1>3, <1>7, <2>1 DEF WInv, HeldApart
  <2>10. ResetAhead'
    BY <2>8, <2>9 DEF ResetAhead
  <2>11. Stage(t) = "hba_enable" => ResetKnown(trail["probe"])
    <3>1. PICK s \in Seq(Stages) : s = run[t].todo
      BY <1>3 DEF RunStates
    <3>2. 1 \in DOMAIN s /\ s[1] = Stage(t) /\ \A j \in DOMAIN s : ~(j < 1)
      BY <1>5, <3>1 DEF Stage
    <3> QED
      BY <1>7, <2>1, <3>1, <3>2 DEF ResetInv, ResetAhead
  <2>12. \A k \in DOMAIN marks : marks[k].stage = "hba_enable" => Stage(t) = "hba_enable"
    <3>1. \A s, r : Mark(s, r).stage = s
      BY DEF Mark
    <3>2. \/ marks = <<>>
          \/ \E r : marks = <<Mark(Stage(t), r)>>
          \/ \E r : marks = <<Mark(Stage(t), r), Mark("BYPASS", "ok")>>
          \/ \E r : marks = <<Mark("DEVICE_RESET", r)>>
      BY <2>2 DEF Marked
    <3> QED
      BY <3>1, <3>2
  <2>13. ASSUME NEW i \in DOMAIN trail'["probe"], trail'["probe"][i].stage = "hba_enable"
         PROVE  (ResetKnown(trail["probe"]))'
    BY <2>4, <2>7, <2>11, <2>12, <2>13 DEF ResetInv, ResetDoneOrMarked, ResetKnown
  <2>14. ResetDoneOrMarked'
    BY <2>13 DEF ResetDoneOrMarked, ResetKnown
  <2> QED
    BY <1>4, <2>10, <2>14 DEF ResetInv
<1> QED
  BY <1>6, <1>7

LEMMA NextReset == WInv /\ ResetInv /\ [Next]_vars => ResetInv'
<1> SUFFICES ASSUME WInv, ResetInv, [Next]_vars PROVE ResetInv'
  OBVIOUS
<1>3. /\ \A o \in Threads : run[o] \in RunStates
      /\ Probers \subseteq Threads /\ "scan" \notin Probers /\ Host \in Devices /\ Host # Nobody
  BY BringupAssumption DEF WInv, WorkTypes, Threads, Probers, Devices
<1>1. CASE Quiet
  <2>1. UNCHANGED run /\ UNCHANGED trail /\ UNCHANGED failed /\ UNCHANGED reset
    BY <1>1 DEF Quiet, probes
  <2>2. ResetAhead'
    BY <2>1 DEF ResetInv, ResetAhead, ResetKnown
  <2>3. ResetDoneOrMarked' /\ TrailTypes'
    BY <2>1 DEF ResetInv, ResetDoneOrMarked, TrailTypes
  <2> QED
    BY <2>2, <2>3 DEF ResetInv
<1>2. ASSUME NEW t \in Probers, NEW d \in Devices, Started(t, d) PROVE ResetInv'
  <2>1. /\ run'[t].dev = d /\ run'[t].todo = Program(d)
        /\ \A o \in Threads \ {t} : run'[o] = run[o]
        /\ \A o \in Threads : run[o].dev # d
    BY <1>2, StartKeeps DEF Started
  <2>2. TrailTypes'
    BY <1>2, StartTrails DEF Started, ResetInv
  <2>3. CASE d = Host
    <3>1. trail'["probe"] = <<>>
      BY <1>2, <2>3, StartTrails DEF Started, ResetInv
    <3>2. ResetDoneOrMarked'
      BY <3>1 DEF ResetDoneOrMarked
    <3>3. ResetAhead'
      BY <1>3, <2>1, <2>3, ResetBeforeEnable DEF ResetAhead
    <3> QED
      BY <2>2, <3>2, <3>3 DEF ResetInv
  <2>4. CASE d # Host
    <3>1. UNCHANGED trail /\ UNCHANGED reset
      BY <1>2, <2>4 DEF Started, StartProbe
    <3>2. ResetAhead' /\ ResetDoneOrMarked'
      BY <1>3, <2>1, <2>4, <3>1 DEF ResetInv, ResetAhead, ResetKnown, ResetDoneOrMarked
    <3> QED
      BY <2>2, <3>2 DEF ResetInv
  <2> QED
    BY <2>3, <2>4
<1>4. ASSUME NEW t \in Threads, EndProbe(t) PROVE ResetInv'
  <2>1. UNCHANGED <<trail, failed, reset>>
    BY <1>4 DEF EndProbe
  <2>2. run'[t] = Idle /\ \A o \in Threads \ {t} : run'[o] = run[o]
    BY <1>4, EndKeeps
  <2>3. ResetAhead'
    BY <1>3, <2>1, <2>2, IdleType DEF ResetInv, ResetAhead, ResetKnown
  <2> QED
    BY <2>1, <2>3 DEF ResetInv, TrailTypes, ResetDoneOrMarked
<1>5. ASSUME NEW t \in Threads, Works(t) PROVE ResetInv'
  BY <1>5, ResetWorks
<1> QED
  BY <1>1, <1>2, <1>4, <1>5, StepCases

LEMMA ResetInvInvariant == Spec => []ResetInv
<1>1. Init => ResetInv
  <2> SUFFICES ASSUME Init PROVE ResetInv
    OBVIOUS
  <2>1. <<>> \in Seq(MarkTypes)
    OBVIOUS
  <2>2. \A t \in Probers : run[t].dev = Nobody
    BY IdleType DEF Init, Threads
  <2>3. Host # Nobody
    BY BringupAssumption DEF Devices
  <2>4. TrailTypes
    BY <2>1 DEF Init, TrailTypes
  <2>5. trail["probe"] = <<>>
    BY DEF Init
  <2>6. ResetAhead
    BY <2>2, <2>3 DEF ResetAhead
  <2> QED
    BY <2>4, <2>5, <2>6 DEF ResetInv, ResetDoneOrMarked
<1> QED
  BY <1>1, NextReset, WInvInvariant, PTL DEF Spec

(* Whatever order the providers come in, and however often the host's      *)
(* probe is retried, the controller is never enabled with a device whose   *)
(* reset did not happen unless the log says so.                            *)
THEOREM ResetIsDoneOrMarked == Spec => []ResetDoneOrMarked
<1>1. ResetInv => ResetDoneOrMarked
  BY DEF ResetInv
<1> QED
  BY <1>1, ResetInvInvariant, PTL

(***************************************************************************)
(* The scan.  It is scheduled once, by a probe of the host with nothing    *)
(* left that can fail; so once it has begun the host keeps its driver.     *)
(***************************************************************************)
ScanFresh ==
  run["scan"] = Idle /\ trail["scan"] = <<>> /\ failed["scan"] = "" /\ disks = <<>>

Committed ==
  \/ Host \in dd.bound
  \/ \E t \in Probers :
       run[t].dev = Host /\ run[t].ret = "ok" /\ run[t].todo \in Seq(Closing)

ScheduledLast ==
  \A t \in Probers : run[t].dev = Host =>
    \A i \in DOMAIN run[t].todo : run[t].todo[i] = "async_scan_scheduled" =>
      /\ run[t].ret = "ok"
      /\ \A j \in DOMAIN run[t].todo : j > i => run[t].todo[j] \in Closing

ScanInv == ScheduledLast /\ (ScanFresh \/ Committed)

LEMMA ScheduledNearEnd ==
  ASSUME NEW i \in DOMAIN Program(Host), Program(Host)[i] = "async_scan_scheduled",
         NEW j \in DOMAIN Program(Host), j > i
  PROVE  Program(Host)[j] \in Closing
<1>1. i \in 1 .. 30 /\ j \in 1 .. 30
  BY HostProgram
<1>2. ~(i <= 24)
  <2>1. CASE i <= 7
    <3>1. PreProbe[i] \in ToSet(PreProbe)
      <4>1. i \in 1 .. 7
        BY <1>1, <2>1
      <4> QED
        BY <4>1, PartTypes DEF ToSet
    <3> QED
      BY <1>1, <2>1, <3>1, HostProgram, StageSets
  <2>2. CASE i \in 8 .. 13
    <3>1. Platform[i - 7] \in ToSet(Platform)
      BY <2>2, PartTypes DEF ToSet
    <3>2. Program(Host)[i] = Platform[i - 7]
      <4>1. i \in 1 .. 30 /\ ~(i <= 7) /\ i <= 13
        BY <2>2
      <4> QED
        BY <4>1, HostProgram
    <3> QED
      BY <3>1, <3>2, StageSets
  <2>3. CASE i \in 14 .. 24
    <3>1. i \in 14 .. 26 /\ i - 13 \in 1 .. 11
      BY <2>3
    <3>3. Program(Host)[i] = Core[i - 13]
      BY <3>1, HostCore
    <3>2. \A k \in 1 .. 11 : Core[k] # "async_scan_scheduled"
      BY DEF Core
    <3> QED
      BY <3>1, <3>2, <3>3
  <2> QED
    BY <1>1, <2>1, <2>2, <2>3
<1>3. CASE j = 26
  <2>1. Program(Host)[26] = Core[13] /\ Core[13] = "init_return"
    BY HostProgram DEF Core
  <2> QED
    BY <1>3, <2>1 DEF Closing, Plain
<1>4. CASE j \in 27 .. 30
  <2>1. Program(Host)[j] = Return[j - 26] /\ j - 26 \in 1 .. 4
    <3>1. j - 26 \in 1 .. 4
      BY <1>4
    <3> QED
      BY <1>4, <3>1, HostCore
  <2>2. Return[j - 26] \in ToSet(Return)
    BY <2>1, PartTypes DEF ToSet
  <2>3. ToSet(Return) \subseteq Closing
    BY StageSets DEF Closing, Plain
  <2> QED
    BY <2>1, <2>2, <2>3
<1> QED
  BY <1>1, <1>2, <1>3, <1>4

LEMMA DiskSteps ==
  ASSUME [Next]_vars
  PROVE  disks' = disks \/ \E d \in Disks : AddDisk(d)
  BY DEF Next, BootStep, WorkerStep, WorkStep, Register, Retry, EnableDeferred, FlushDeferred,
         LateInit, ScheduleWork, Tick, WorkRuns, WorkEnds, SkipPowerMode, OtherBinds,
         ThreadStep, Passes, Fails, Defers, PassesOver, ResetDevice, ScheduleScan, EndProbe,
         SnapshotStep, TraceNode, ListPlatform, ListDisk, EndSnapshot, vars

(* Only a step of its own, or its scheduling, changes the scan's work.     *)
LEMMA SchedulesOrNot ==
  ASSUME WInv, NEW t \in Threads, Works(t), Stage(t) = "async_scan_scheduled"
  PROVE  ScheduleScan(t) /\ t \in Probers /\ run[t].dev = Host
<1>1. run[t].todo # <<>> /\ Stage(t) \in StagesOf(t, run[t].dev)
  BY ThreadMoves, StageOwned DEF Works, Moves
<1>2. t # "scan" /\ run[t].dev = Host
  BY <1>1 DEF StagesOf, ScanStages
<1>3. ScheduleScan(t)
  <2>1. Stage(t) \in Plain
    BY DEF Plain
  <2> QED
    BY <2>1 DEF Works, Passes, Fails, Defers, Missing, NeededBy, Deferring, PassesOver,
                Bypassed, ResetDevice, SkipPowerMode
<1> QED
  BY <1>2, <1>3 DEF Threads

LEMMA CommittedStays ==
  ASSUME WInv, Committed, [Next]_vars
  PROVE  Committed'
<1>3. /\ \A o \in Threads : run[o] \in RunStates
      /\ Probers \subseteq Threads /\ Host # Nobody /\ Host \in Devices
  BY BringupAssumption DEF WInv, WorkTypes, Threads, Probers, Devices
<1>1. CASE Quiet
  BY <1>1 DEF Quiet, probes, Committed
<1>2. ASSUME NEW t \in Probers, NEW d \in Devices, Started(t, d) PROVE Committed'
  <2>1. /\ \A o \in Threads \ {t} : run'[o] = run[o]
        /\ run[t].dev = Nobody /\ dd'.bound = dd.bound
    BY <1>2, StartKeeps DEF Started
  <2> QED
    BY <1>3, <2>1 DEF Committed
<1>4. ASSUME NEW t \in Threads, EndProbe(t) PROVE Committed'
  <2>1. /\ \A o \in Threads \ {t} : run'[o] = run[o]
        /\ dd.bound \subseteq dd'.bound
        /\ run[t].ret = "ok" => run[t].dev \in dd'.bound
    BY <1>4, EndKeeps
  <2> QED
    BY <1>3, <2>1 DEF Committed
<1>5. ASSUME NEW t \in Threads, Works(t) PROVE Committed'
  <2>1. Moves(t) /\ dd'.bound = dd.bound
    BY <1>5, ThreadMoves DEF Works, Moves
  <2>2. ASSUME NEW o \in Probers, run[o].dev = Host, run[o].ret = "ok",
               run[o].todo \in Seq(Closing)
        PROVE  run'[o].dev = Host /\ run'[o].ret = "ok" /\ run'[o].todo \in Seq(Closing)
    <3>1. CASE o # t
      <4>1. o # "scan"
        BY DEF Probers
      <4>2. run'[o] = run[o]
        BY <1>3, <2>1, <3>1, <4>1 DEF Moves
      <4> QED
        BY <2>2, <4>2
    <3>2. CASE o = t
      <4>1. run[t].todo # <<>>
        BY <2>1 DEF Moves
      <4>2. Stage(t) \in Closing
        BY <2>2, <3>2, <4>1 DEF Stage
      <4>3. run'[t] = [run[t] EXCEPT !.todo = Tail(@)]
        BY <2>1, <4>2 DEF Moves, Closing
      <4>4. Tail(run[t].todo) \in Seq(Closing)
        BY <2>2, <3>2, <4>1
      <4> QED
        BY <1>3, <2>2, <3>2, <4>3, <4>4 DEF RunStates
    <3> QED
      BY <3>1, <3>2
  <2> QED
    BY <2>1, <2>2 DEF Committed
<1> QED
  BY <1>1, <1>2, <1>4, <1>5, StepCases

(* A probe that is yet to schedule the scan finds nothing of it.           *)
LEMMA NotYetCommitted ==
  ASSUME WInv, ScanInv, NEW t \in Probers, run[t].dev = Host, run[t].todo # <<>>,
         Stage(t) = "async_scan_scheduled"
  PROVE  ScanFresh /\ run[t].ret = "ok" /\ Tail(run[t].todo) \in Seq(Closing)
<1>1. run[t] \in RunStates
  BY DEF WInv, WorkTypes, Threads
<1>2. PICK s \in Seq(Stages) : s = run[t].todo
  BY <1>1 DEF RunStates
<1>3. s # <<>> /\ s[1] = "async_scan_scheduled" /\ 1 \in DOMAIN s
  BY <1>2 DEF Stage
<1>4. Host # Nobody
  BY BringupAssumption DEF Devices
<1>5. ~Committed
  <2>1. Host \notin dd.bound
    BY <1>4 DEF WInv, HeldApart
  <2>2. \A o \in Probers \ {t} : run[o].dev # Host
    BY <1>4 DEF WInv, HeldApart
  <2>3. s \notin Seq(Closing)
    BY <1>3 DEF Closing
  <2> QED
    BY <1>2, <2>1, <2>2, <2>3 DEF Committed
<1>6. run[t].ret = "ok" /\ \A j \in DOMAIN s : j > 1 => s[j] \in Closing
  BY <1>2, <1>3 DEF ScanInv, ScheduledLast
<1>7. Tail(s) \in Seq(Closing)
  <2>1. /\ Len(Tail(s)) = Len(s) - 1 /\ Len(s) \in Nat \ {0} /\ Tail(s) \in Seq(Stages)
        /\ \A k \in 1 .. Len(s) - 1 : Tail(s)[k] = s[k + 1]
    BY <1>3, ElementOfTail
  <2>2. \A k \in 1 .. Len(Tail(s)) : Tail(s)[k] \in Closing
    <3>1. \A k \in 1 .. Len(s) - 1 : k + 1 \in DOMAIN s /\ k + 1 > 1
      BY <2>1
    <3> QED
      BY <1>6, <2>1, <3>1
  <2>3. PICK r \in Seq(Stages) : r = Tail(s)
    BY <2>1
  <2>4. \A k \in 1 .. Len(r) : r[k] \in Closing
    BY <2>2, <2>3
  <2>5. r \in [1 .. Len(r) -> Closing] /\ Len(r) \in Nat
    BY <2>4
  <2>6. r \in Seq(Closing)
    BY <2>5
  <2> QED
    BY <2>3, <2>6
<1> QED
  BY <1>2, <1>5, <1>6, <1>7 DEF ScanInv

LEMMA NextScan == WInv /\ TrailTypes /\ ScanInv /\ [Next]_vars => ScanInv'
<1> SUFFICES ASSUME WInv, TrailTypes, ScanInv, [Next]_vars PROVE ScanInv'
  OBVIOUS
<1>3. /\ \A o \in Threads : run[o] \in RunStates
      /\ Probers \subseteq Threads /\ "scan" \in Threads \ Probers
      /\ Host # Nobody /\ Host \in Devices
  BY BringupAssumption DEF WInv, WorkTypes, Threads, Probers, Devices
<1>d. ASSUME disks' # disks PROVE Committed'
  <2>1. trail["scan"] # <<>>
    BY <1>d, DiskSteps DEF AddDisk, ToSet
  <2> QED
    BY <2>1, CommittedStays DEF ScanInv, ScanFresh
<1>f. ASSUME run'["scan"] = run["scan"], trail'["scan"] = trail["scan"],
             failed'["scan"] = failed["scan"]
      PROVE  (ScanFresh \/ Committed)'
  BY <1>d, <1>f, CommittedStays DEF ScanInv, ScanFresh
<1>1. CASE Quiet
  <2>1. UNCHANGED run /\ UNCHANGED trail /\ UNCHANGED failed
    BY <1>1 DEF Quiet, probes
  <2> QED
    BY <1>f, <2>1 DEF ScanInv, ScheduledLast
<1>2. ASSUME NEW t \in Probers, NEW d \in Devices, Started(t, d) PROVE ScanInv'
  <2>1. /\ run'[t].dev = d /\ run'[t].todo = Program(d) /\ run'[t].ret = "ok"
        /\ \A o \in Threads \ {t} : run'[o] = run[o]
    BY <1>2, StartKeeps DEF Started
  <2>2. trail'["scan"] = trail["scan"] /\ failed'["scan"] = failed["scan"]
    BY <1>2, StartTrails DEF Started
  <2>3. ScheduledLast'
    BY <1>3, <2>1, ScheduledNearEnd DEF ScanInv, ScheduledLast
  <2> QED
    BY <1>3, <1>f, <2>1, <2>2, <2>3 DEF ScanInv
<1>4. ASSUME NEW t \in Threads, EndProbe(t) PROVE ScanInv'
  <2>1. t \in Probers /\ run'[t] = Idle /\ \A o \in Threads \ {t} : run'[o] = run[o]
    BY <1>4, EndKeeps
  <2>2. UNCHANGED <<trail, failed>>
    BY <1>4 DEF EndProbe
  <2>3. ScheduledLast'
    BY <1>3, <2>1, IdleType DEF ScanInv, ScheduledLast
  <2> QED
    BY <1>3, <1>f, <2>1, <2>2, <2>3 DEF ScanInv
<1>5. ASSUME NEW t \in Threads, Works(t) PROVE ScanInv'
  <2>1. Moves(t)
    BY <1>5, ThreadMoves DEF Works
  <2>2. \A o \in Threads : run'[o].dev = run[o].dev
    BY <2>1, MovesDevices
  <2>3. ASSUME NEW o \in Probers, run[o].dev = Host, NEW i \in DOMAIN run'[o].todo,
               run'[o].todo[i] = "async_scan_scheduled"
        PROVE  /\ run'[o].ret = "ok"
               /\ \A j \in DOMAIN run'[o].todo : j > i => run'[o].todo[j] \in Closing
    <3>1. CASE o # t
      <4>1. run'[o] = run[o]
        BY <1>3, <2>1, <3>1 DEF Moves
      <4> QED
        BY <2>3, <4>1 DEF ScanInv, ScheduledLast
    <3>2. CASE o = t /\ run'[t] = [run[t] EXCEPT !.todo = Tail(@)]
      <4>1. PICK s \in Seq(Stages) : s = run[t].todo
        BY <1>3 DEF RunStates
      <4>2. run'[t].todo = Tail(s) /\ run'[t].ret = run[t].ret /\ s # <<>>
        BY <1>3, <2>1, <3>2, <4>1 DEF RunStates, Moves
      <4>3. /\ Len(Tail(s)) = Len(s) - 1 /\ Len(s) \in Nat \ {0} /\ Tail(s) \in Seq(Stages)
            /\ \A k \in 1 .. Len(s) - 1 : Tail(s)[k] = s[k + 1]
        BY <4>2, ElementOfTail
      <4>4. DOMAIN Tail(s) = 1 .. Len(s) - 1 /\ DOMAIN s = 1 .. Len(s)
        BY <4>3
      <4>5. i \in 1 .. Len(s) - 1 /\ i + 1 \in DOMAIN s /\ s[i + 1] = "async_scan_scheduled"
        <5>1. i \in DOMAIN Tail(s) /\ Tail(s)[i] = "async_scan_scheduled"
          BY <2>3, <3>2, <4>2
        <5>2. i \in 1 .. Len(s) - 1
          BY <4>4, <5>1
        <5> QED
          BY <4>3, <4>4, <5>1, <5>2
      <4>6. run[t].ret = "ok" /\ \A j \in DOMAIN s : j > i + 1 => s[j] \in Closing
        BY <2>3, <3>2, <4>1, <4>5 DEF ScanInv, ScheduledLast
      <4>7. ASSUME NEW j \in DOMAIN Tail(s), j > i PROVE Tail(s)[j] \in Closing
        <5>1. j + 1 \in DOMAIN s /\ j + 1 > i + 1 /\ Tail(s)[j] = s[j + 1]
          BY <4>3, <4>4, <4>5, <4>7
        <5> QED
          BY <4>6, <5>1
      <4> QED
        BY <3>2, <4>2, <4>6, <4>7
    <3>3. CASE o = t /\ ~(run'[t] = [run[t] EXCEPT !.todo = Tail(@)])
      <4>1. run'[t].todo = Unwind(Stage(t)) /\ run[t].todo # <<>>
        BY <1>3, <2>1, <3>3 DEF Moves, RunStates
      <4>2. Unwind(Stage(t)) \in Seq(Closing)
        BY <4>1, StageOwned, UnwindTypes
      <4> QED
        BY <2>3, <3>3, <4>1, <4>2 DEF Closing
    <3> QED
      BY <3>1, <3>2, <3>3
  <2>4. ScheduledLast'
    BY <1>3, <2>2, <2>3 DEF ScheduledLast
  <2>5. CASE t = "scan"
    <3>1. run["scan"].todo # <<>>
      BY <2>1, <2>5 DEF Moves
    <3> QED
      BY <2>4, <3>1, IdleType, CommittedStays DEF ScanInv, ScanFresh
  <2>6. CASE Stage(t) = "async_scan_scheduled"
    <3>1. t \in Probers /\ run[t].dev = Host /\ run[t].todo # <<>>
      BY <1>5, <2>1, <2>6, SchedulesOrNot DEF Moves
    <3>2. run[t].ret = "ok" /\ Tail(run[t].todo) \in Seq(Closing)
      BY <2>6, <3>1, NotYetCommitted
    <3>3. run'[t] = [run[t] EXCEPT !.todo = Tail(@)]
      BY <2>1, <2>6 DEF Moves, Plain
    <3>4. run'[t].dev = Host /\ run'[t].ret = "ok" /\ run'[t].todo \in Seq(Closing)
      BY <1>3, <3>1, <3>2, <3>3 DEF RunStates
    <3>5. Committed'
      BY <3>1, <3>4 DEF Committed
    <3> QED
      BY <2>4, <3>5 DEF ScanInv
  <2>7. CASE t # "scan" /\ Stage(t) # "async_scan_scheduled"
    <3>1. run'["scan"] = run["scan"]
      BY <1>3, <2>1, <2>7 DEF Moves
    <3>2. Trail(t) = "probe"
      BY <2>7 DEF Trail
    <3>3. trail'["scan"] = trail["scan"]
      BY <1>5, <3>2, WorkMarks
    <3>4. failed'["scan"] = failed["scan"]
      <4>1. failed' = failed \/ failed' = [failed EXCEPT !["probe"] = Stage(t)]
        BY <1>5, <3>2
           DEF Works, Passes, Fails, Defers, PassesOver, ResetDevice, ScheduleScan, SkipPowerMode
      <4> QED
        BY <4>1 DEF TrailTypes
    <3> QED
      BY <1>f, <2>4, <3>1, <3>3, <3>4 DEF ScanInv
  <2> QED
    BY <2>5, <2>6, <2>7
<1> QED
  BY <1>1, <1>2, <1>4, <1>5, StepCases

LEMMA ScanInvInvariant == Spec => []ScanInv
<1>1. Init => ScanInv
  <2> SUFFICES ASSUME Init PROVE ScanInv
    OBVIOUS
  <2>1. /\ \A t \in Threads : run[t] = Idle
        /\ trail["scan"] = <<>> /\ failed["scan"] = "" /\ disks = <<>>
    BY DEF Init
  <2>2. Host # Nobody /\ "scan" \in Threads /\ Probers \subseteq Threads
    BY BringupAssumption DEF Devices, Threads
  <2> QED
    BY <2>1, <2>2, IdleType DEF ScanInv, ScheduledLast, ScanFresh
<1>2. WInv /\ ResetInv /\ ScanInv /\ [Next]_vars => ScanInv'
  BY NextScan DEF ResetInv
<1> QED
  BY <1>1, <1>2, WInvInvariant, ResetInvInvariant, PTL DEF Spec

LEMMA CommittedDriven ==
  ASSUME WInv, Committed PROVE Host \in dd.driver
<1>1. Host # Nobody
  BY BringupAssumption DEF Devices
<1> QED
  BY <1>1 DEF WInv, Committed, HeldApart, Apart

(***************************************************************************)
(* The listings.                                                           *)
(***************************************************************************)
Listed(n) == {disks[j] : j \in 1 .. n}

(* A snapshot of scanner c: its listing is the disks up to its place, and  *)
(* those that were there when it began are still among the disks.          *)
ListingOK(s) ==
  /\ s.before \subseteq ToSet(disks)
  /\ s.i <= Len(disks) + 1
  /\ s.listed = Listed(s.i - 1)
  /\ IsFiniteSet(s.listed) /\ Cardinality(s.listed) <= ListCap
  /\ s.at = "ended" => s.before \subseteq s.listed \/ Cardinality(s.listed) = ListCap
  /\ s.at \notin {"none", "node"} => s.host \/ s.before = {}

One(c) == IF Running(c) THEN 1 ELSE 0

Listings == \A c \in Scanners : ListingOK(snap[c])

Counted ==
  /\ scans = Len(reports) + One("boot") + One("work")
  /\ timer \in -1 .. 8

ListInv == Listings /\ Counted

LEMMA NoSnapListing == ASSUME LiveTypes PROVE ListingOK(NoSnap)
<1>1. /\ NoSnap.before = {} /\ NoSnap.i = 1 /\ NoSnap.listed = {} /\ NoSnap.at = "none"
  BY DEF NoSnap
<1>2. Listed(1 - 1) = {}
  BY DEF Listed
<1>3. Len(disks) \in Nat /\ ListCap \in Nat
  BY BringupAssumption DEF LiveTypes
<1>4. IsFiniteSet({}) /\ Cardinality({}) = 0
  BY FS_EmptySet
<1> QED
  BY <1>1, <1>2, <1>3, <1>4 DEF ListingOK

(* The set of snapshots that are running has as many elements as are.      *)
LEMMA RunningCount ==
  ASSUME LiveTypes
  PROVE  Cardinality({c \in Scanners : snap[c].at \notin {"none", "ended"}})
           = One("boot") + One("work")
<1> DEFINE R == {c \in Scanners : snap[c].at \notin {"none", "ended"}}
<1>1. \A c \in Scanners : c \in R <=> Running(c)
  BY DEF LiveTypes, SnapStates, Running
<1>2. R \subseteq {"boot", "work"}
  BY DEF Scanners
<1>3. /\ Cardinality({}) = 0 /\ Cardinality({"boot"}) = 1 /\ Cardinality({"work"}) = 1
  BY FS_EmptySet, FS_Singleton
<1>4. Cardinality({"boot"} \cup {"work"}) = 2
  <2>1. IsFiniteSet({"boot"}) /\ "work" \notin {"boot"}
    BY FS_Singleton
  <2>2. Cardinality({"boot"} \cup {"work"}) = Cardinality({"boot"}) + 1
    BY <2>1, FS_AddElement
  <2> QED
    BY <1>3, <2>2
<1> HIDE DEF R
<1>5. /\ Running("boot") /\ Running("work") => R = {"boot"} \cup {"work"}
      /\ Running("boot") /\ ~Running("work") => R = {"boot"}
      /\ ~Running("boot") /\ Running("work") => R = {"work"}
      /\ ~Running("boot") /\ ~Running("work") => R = {}
  BY <1>1, <1>2 DEF Scanners
<1>6. Cardinality(R) = One("boot") + One("work")
  BY <1>3, <1>4, <1>5 DEF One
<1> QED
  BY <1>6 DEF R

(* What leaves the snapshots alone leaves the listings as they are, a new  *)
(* disk included.                                                          *)
LEMMA ListingKept ==
  ASSUME LiveTypes, NEW s \in SnapStates, ListingOK(s),
         disks' = disks \/ \E d \in Disks : AddDisk(d)
  PROVE  ListingOK(s)'
<1>1. CASE disks' = disks
  BY <1>1 DEF ListingOK, Listed
<1>2. ASSUME NEW d \in Disks, AddDisk(d) PROVE ListingOK(s)'
  <2>1. disks' = Append(disks, d) /\ disks \in Seq(Disks)
    BY <1>2 DEF AddDisk, LiveTypes
  <2>2. /\ disks' \in Seq(Disks) /\ Len(disks') = Len(disks) + 1 /\ Len(disks) \in Nat
        /\ \A i \in 1 .. Len(disks) : disks'[i] = disks[i]
    BY <2>1
  <2>3. DOMAIN disks = 1 .. Len(disks) /\ DOMAIN disks' = 1 .. Len(disks) + 1
    BY <2>1, <2>2
  <2>4. ToSet(disks) \subseteq ToSet(disks')
    <3>1. \A i \in DOMAIN disks : i \in DOMAIN disks' /\ disks'[i] = disks[i]
      BY <2>2, <2>3
    <3> QED
      BY <3>1 DEF ToSet
  <2>5. s.i \in Nat \ {0}
    BY DEF SnapStates
  <2>6. Listed(s.i - 1)' = Listed(s.i - 1)
    <3>1. \A j \in 1 .. s.i - 1 : disks'[j] = disks[j]
      <4>1. s.i <= Len(disks) + 1
        BY DEF ListingOK
      <4> QED
        BY <2>2, <2>5, <4>1
    <3> QED
      BY <3>1 DEF Listed
  <2> QED
    BY <2>2, <2>4, <2>5, <2>6 DEF ListingOK
<1> QED
  BY <1>1, <1>2

LEMMA BeginListing ==
  ASSUME LiveTypes, WInv, ScanInv, Listings, Counted, NEW c \in Scanners, NEW label \in Names,
         BeginSnapshot(c, label), UNCHANGED <<disks, reports>>
  PROVE  Listings' /\ scans' = Len(reports') + One("boot")' + One("work")'
<1> DEFINE s == [NoSnap EXCEPT !.at = "node", !.label = label, !.before = ToSet(disks)]
<1>1. ToSet(disks) \in SUBSET Disks
  BY DEF LiveTypes, ToSet
<1>2. s \in SnapStates
  BY <1>1, NoSnapType DEF SnapStates
<1>3. /\ s.at = "node" /\ s.before = ToSet(disks) /\ s.i = NoSnap.i
      /\ s.listed = NoSnap.listed
  BY NoSnapType DEF SnapStates
<1>4. snap' = [snap EXCEPT ![c] = s] /\ snap[c].at = "none" /\ scans' = scans + 1
  BY DEF BeginSnapshot, Snapping
<1>5. ListingOK(s)
  BY <1>3, NoSnapListing DEF ListingOK
<1> HIDE DEF s
<1>6. /\ snap' \in [Scanners -> SnapStates] /\ snap'[c] = s
      /\ \A k \in Scanners \ {c} : snap'[k] = snap[k]
  BY <1>2, <1>4, SnapReplaced
<1>7. \A k \in Scanners : ListingOK(snap'[k])
  BY <1>5, <1>6 DEF Listings
<1>8. Listings'
  BY <1>7 DEF Listings, ListingOK, Listed
<1>9. /\ Running(c)' /\ ~Running(c)
      /\ \A k \in Scanners \ {c} : Running(k)' <=> Running(k)
  BY <1>3, <1>4, <1>6 DEF Running
<1>10. scans' = Len(reports') + One("boot")' + One("work")'
  <2>1. Len(reports) \in Nat
    BY DEF LiveTypes
  <2>2. scans = Len(reports) + One("boot") + One("work") /\ reports' = reports
    BY DEF Counted
  <2>3. CASE c = "boot"
    <3>1. One("boot") = 0 /\ One("boot")' = 1 /\ One("work")' = One("work")
      BY <1>9, <2>3 DEF One, Scanners
    <3>2. One("work") \in {0, 1}
      BY DEF One
    <3> QED
      BY <1>4, <2>1, <2>2, <3>1, <3>2
  <2>4. CASE c = "work"
    <3>1. One("work") = 0 /\ One("work")' = 1 /\ One("boot")' = One("boot")
      BY <1>9, <2>4 DEF One, Scanners
    <3>2. One("boot") \in {0, 1}
      BY DEF One
    <3> QED
      BY <1>4, <2>1, <2>2, <3>1, <3>2
  <2> QED
    BY <2>3, <2>4 DEF Scanners
<1> QED
  BY <1>8, <1>10

(* A running snapshot goes on, or ends.                                    *)
LEMMA NextListing ==
  ASSUME LiveTypes, NEW c \in Scanners, NEW s \in SnapStates, ListingOK(s), Listings, Counted,
         snap' = [snap EXCEPT ![c] = s], UNCHANGED <<disks, scans, timer>>, Running(c),
         \/ s.at \in {"node", "platform", "block"} /\ reports' = reports
         \/ s.at = "ended" /\ Len(reports') = Len(reports) + 1
  PROVE  ListInv'
<1>1. /\ snap' \in [Scanners -> SnapStates] /\ snap'[c] = s
      /\ \A k \in Scanners \ {c} : snap'[k] = snap[k]
  BY SnapReplaced
<1>2. \A k \in Scanners : ListingOK(snap'[k])
  BY <1>1 DEF Listings
<1>3. Listings'
  BY <1>2 DEF Listings, ListingOK, Listed
<1>4. Len(reports) \in Nat
  BY DEF LiveTypes
<1>5. \A k \in Scanners \ {c} : Running(k)' <=> Running(k)
  BY <1>1 DEF Running
<1>6. Running(c)' <=> s.at # "ended"
  BY <1>1 DEF Running
<1>7. Counted'
  <2>1. One("boot") \in {0, 1} /\ One("work") \in {0, 1}
    BY DEF One
  <2>2. CASE s.at # "ended"
    <3>1. One("boot")' = One("boot") /\ One("work")' = One("work") /\ reports' = reports
      BY <1>5, <1>6, <2>2 DEF One, Scanners
    <3> QED
      BY <3>1 DEF Counted
  <2>3. CASE s.at = "ended"
    <3>1. One("boot")' + One("work")' = One("boot") + One("work") - 1
      <4>1. CASE c = "boot"
        <5>1. One("boot")' = 0 /\ One("boot") = 1 /\ One("work")' = One("work")
          BY <1>5, <1>6, <2>3, <4>1 DEF One, Scanners
        <5> QED
          BY <2>1, <5>1
      <4>2. CASE c = "work"
        <5>1. One("work")' = 0 /\ One("work") = 1 /\ One("boot")' = One("boot")
          BY <1>5, <1>6, <2>3, <4>2 DEF One, Scanners
        <5> QED
          BY <2>1, <5>1
      <4> QED
        BY <4>1, <4>2 DEF Scanners
    <3>2. One("boot")' \in {0, 1} /\ One("work")' \in {0, 1}
      BY DEF One
    <3> QED
      BY <1>4, <2>1, <2>3, <3>1, <3>2 DEF Counted
  <2> QED
    BY <2>2, <2>3
<1> QED
  BY <1>3, <1>7 DEF ListInv

LEMMA ListingSteps ==
  ASSUME LiveTypes, WInv, ScanInv, ListInv, NEW c \in Scanners, SnapshotStep(c)
  PROVE  ListInv'
<1>1. /\ snap \in [Scanners -> SnapStates] /\ snap[c] \in SnapStates /\ ListingOK(snap[c])
      /\ disks \in Seq(Disks) /\ Len(disks) \in Nat /\ ListCap \in Nat
      /\ snap[c].i \in Nat \ {0} /\ Listings /\ Counted
  BY BringupAssumption DEF LiveTypes, SnapStates, ListInv, Listings
<1>2. CASE TraceNode(c)
  <2>1. PICK h \in BOOLEAN : h <=> Host \in dd.driver
    OBVIOUS
  <2>2. PICK s : s = [snap[c] EXCEPT !.at = "platform", !.host = h]
    OBVIOUS
  <2>h. h = (Host \in dd.driver)
    BY <2>1
  <2>3. snap' = [snap EXCEPT ![c] = s] /\ snap[c].at = "node"
    BY <1>1, <1>2, <2>h, <2>2 DEF TraceNode
  <2>4. /\ s \in SnapStates /\ s.at = "platform" /\ s.host = h
        /\ s.before = snap[c].before /\ s.listed = snap[c].listed /\ s.i = snap[c].i
    BY <1>1, <2>2 DEF SnapStates
  <2>5. s.host \/ s.before = {}
    <3>1. ASSUME snap[c].before # {} PROVE Host \in dd.driver
      <4>1. ToSet(disks) # {}
        BY <1>1, <3>1 DEF ListingOK
      <4>2. disks # <<>>
        BY <4>1 DEF ToSet
      <4> QED
        BY <4>2, CommittedDriven DEF ScanInv, ScanFresh
    <3> QED
      BY <2>1, <2>4, <3>1
  <2>6. ListingOK(s)
    BY <1>1, <2>4, <2>5 DEF ListingOK
  <2>7. Running(c) /\ UNCHANGED <<disks, scans, timer, reports>>
    BY <1>2 DEF TraceNode, Running
  <2> QED
    BY <1>1, <2>3, <2>4, <2>6, <2>7, NextListing
<1>3. CASE ListPlatform(c)
  <2>1. PICK n : n = IF Cardinality(Devices) < ListCap THEN Cardinality(Devices) ELSE ListCap
    OBVIOUS
  <2>2. PICK s : s = [snap[c] EXCEPT !.at = "block", !.platform = n]
    OBVIOUS
  <2>3. IsFiniteSet(Devices)
    BY BringupAssumption, FS_AddElement DEF Devices
  <2>4. n \in Nat
    BY <1>1, <2>1, <2>3, FS_CardinalityType
  <2>5. snap' = [snap EXCEPT ![c] = s] /\ snap[c].at = "platform"
    BY <1>1, <1>3, <2>1, <2>2 DEF ListPlatform
  <2>6. /\ s \in SnapStates /\ s.at = "block" /\ s.host = snap[c].host
        /\ s.before = snap[c].before /\ s.listed = snap[c].listed /\ s.i = snap[c].i
    BY <1>1, <2>2, <2>4 DEF SnapStates
  <2>7. ListingOK(s)
    BY <1>1, <2>5, <2>6 DEF ListingOK
  <2>8. Running(c) /\ UNCHANGED <<disks, scans, timer, reports>>
    BY <1>3 DEF ListPlatform, Running
  <2> QED
    BY <1>1, <2>5, <2>6, <2>7, <2>8, NextListing
<1>4. CASE ListDisk(c)
  <2>1. PICK i \in Nat \ {0} : i = snap[c].i
    BY <1>1
  <2>2. PICK l : l = snap[c].listed \cup {disks[i]}
    OBVIOUS
  <2>3. PICK s : s = [snap[c] EXCEPT !.i = i + 1, !.listed = l]
    OBVIOUS
  <2>4. /\ snap[c].at = "block" /\ i <= Len(disks) /\ Cardinality(snap[c].listed) < ListCap
        /\ snap' = [snap EXCEPT ![c] = s]
    BY <1>1, <1>4, <2>1, <2>2, <2>3 DEF ListDisk, Printed
  <2>5. disks[i] \in Disks /\ i + 1 \in Nat \ {0}
    BY <1>1, <2>1, <2>4
  <2>6. /\ s \in SnapStates /\ s.at = "block" /\ s.host = snap[c].host
        /\ s.before = snap[c].before /\ s.listed = l /\ s.i = i + 1
    BY <1>1, <2>2, <2>3, <2>4, <2>5 DEF SnapStates
  <2>7. l = Listed((i + 1) - 1)
    <3>1. snap[c].listed = Listed(i - 1)
      BY <1>1, <2>1 DEF ListingOK
    <3>2. (i + 1) - 1 = i /\ 1 .. i = (1 .. i - 1) \cup {i}
      BY <2>1
    <3> QED
      BY <2>2, <3>1, <3>2 DEF Listed
  <2>8. IsFiniteSet(l) /\ Cardinality(l) <= ListCap
    <3>1. IsFiniteSet(snap[c].listed) /\ Cardinality(snap[c].listed) \in Nat
      BY <1>1, FS_CardinalityType DEF ListingOK
    <3>2. IsFiniteSet(l) /\ Cardinality(l) <= Cardinality(snap[c].listed) + 1
      <4>1. PICK old, x : old = snap[c].listed /\ x = disks[i]
        OBVIOUS
      <4>2. IsFiniteSet(old) /\ Cardinality(old) \in Nat /\ l = old \cup {x}
        BY <2>2, <3>1, <4>1
      <4>3. /\ IsFiniteSet(old \cup {x})
            /\ Cardinality(old \cup {x}) = Cardinality(old)
               \/ Cardinality(old \cup {x}) = Cardinality(old) + 1
        BY <4>2, FS_AddElement
      <4> QED
        BY <4>1, <4>2, <4>3
    <3>3. Cardinality(l) \in Nat
      BY <3>2, FS_CardinalityType
    <3> QED
      BY <1>1, <2>4, <3>1, <3>2, <3>3
  <2>9. ListingOK(s)
    BY <1>1, <2>1, <2>4, <2>6, <2>7, <2>8 DEF ListingOK
  <2>10. Running(c) /\ UNCHANGED <<disks, scans, timer, reports>>
    BY <1>4 DEF ListDisk, Running
  <2> QED
    BY <1>1, <2>4, <2>6, <2>9, <2>10, NextListing
<1>5. CASE EndSnapshot(c)
  <2>1. PICK s : s = [snap[c] EXCEPT !.at = "ended"]
    OBVIOUS
  <2>2. /\ s \in SnapStates /\ s.at = "ended" /\ s.host = snap[c].host
        /\ s.before = snap[c].before /\ s.listed = snap[c].listed /\ s.i = snap[c].i
    BY <1>1, <2>1 DEF SnapStates
  <2>3. /\ snap' = [snap EXCEPT ![c] = s] /\ snap[c].at = "block"
        /\ snap[c].i > Len(disks) \/ Cardinality(snap[c].listed) >= ListCap
    BY <1>1, <1>5, <2>1 DEF EndSnapshot, Printed
  <2>4. s.before \subseteq s.listed \/ Cardinality(s.listed) = ListCap
    <3>1. CASE snap[c].i > Len(disks)
      <4>1. snap[c].i - 1 = Len(disks)
        BY <1>1, <3>1 DEF ListingOK
      <4>2. Listed(Len(disks)) = ToSet(disks)
        BY <1>1 DEF Listed, ToSet
      <4> QED
        BY <1>1, <2>2, <4>1, <4>2 DEF ListingOK
    <3>2. CASE Cardinality(snap[c].listed) >= ListCap
      <4>1. Cardinality(snap[c].listed) \in Nat
        BY <1>1, FS_CardinalityType DEF ListingOK
      <4> QED
        BY <1>1, <2>2, <3>2, <4>1 DEF ListingOK
    <3> QED
      BY <2>3, <3>1, <3>2
  <2>5. ListingOK(s)
    BY <1>1, <2>2, <2>3, <2>4 DEF ListingOK
  <2>6. Running(c) /\ UNCHANGED <<disks, scans, timer>>
    BY <1>5 DEF EndSnapshot, Running
  <2>7. Len(reports') = Len(reports) + 1
    <3>1. PICK r : reports' = Append(reports, r)
      BY <1>5 DEF EndSnapshot
    <3>2. reports \in Seq([label : Names, time : Nat])
      BY DEF LiveTypes
    <3> QED
      BY <3>1, <3>2
  <2> QED
    BY <1>1, <2>2, <2>3, <2>5, <2>6, <2>7, NextListing
<1> QED
  BY <1>2, <1>3, <1>4, <1>5 DEF SnapshotStep

(* A scanner's snapshot that has ended is forgotten.                       *)
LEMMA Forgotten ==
  ASSUME LiveTypes, ListInv, NEW c \in Scanners, snap[c].at = "ended",
         snap' = [snap EXCEPT ![c] = NoSnap], UNCHANGED <<disks, scans, reports>>,
         timer' \in -1 .. 8
  PROVE  ListInv'
<1>1. /\ snap' \in [Scanners -> SnapStates] /\ snap'[c] = NoSnap
      /\ \A k \in Scanners \ {c} : snap'[k] = snap[k]
  BY NoSnapType, SnapReplaced
<1>2. \A k \in Scanners : ListingOK(snap'[k])
  BY <1>1, NoSnapListing DEF ListInv, Listings
<1>3. Listings'
  BY <1>2 DEF Listings, ListingOK, Listed
<1>4. \A k \in Scanners : Running(k)' <=> Running(k)
  BY <1>1, NoSnapType DEF Running
<1>5. Counted'
  BY <1>4 DEF ListInv, Counted, One, Scanners
<1> QED
  BY <1>3, <1>5 DEF ListInv

LEMMA NextList == IInv /\ WInv /\ ScanInv /\ ListInv /\ [Next]_vars => ListInv'
<1> SUFFICES ASSUME IInv, WInv, ScanInv, ListInv, [Next]_vars PROVE ListInv'
  OBVIOUS
<1>t. /\ LiveTypes /\ Listings /\ Counted
      /\ "boot" \in Scanners /\ "work" \in Scanners
  BY DEF IInv, ListInv, Scanners
<1>1. CASE LateInit
  <2>1. BeginSnapshot("boot", "late-init") /\ UNCHANGED <<disks, reports, timer>>
    BY <1>1 DEF LateInit
  <2>2. Listings' /\ scans' = Len(reports') + One("boot")' + One("work")'
    BY <1>t, <2>1, BeginListing DEF Names
  <2> QED
    BY <1>t, <2>1, <2>2 DEF ListInv, Counted
<1>2. CASE WorkRuns
  <2>1. BeginSnapshot("work", Label(round + 1)) /\ UNCHANGED <<disks, reports>> /\ timer' = -1
    BY <1>2 DEF WorkRuns
  <2>2. Label(round + 1) \in Names
    BY DEF Label, Names
  <2>3. Listings' /\ scans' = Len(reports') + One("boot")' + One("work")'
    BY <1>t, <2>1, <2>2, BeginListing
  <2> QED
    BY <2>1, <2>3 DEF ListInv, Counted
<1>3. CASE ScheduleWork
  <2>1. /\ snap["boot"].at = "ended" /\ snap' = [snap EXCEPT !["boot"] = NoSnap]
        /\ UNCHANGED <<disks, scans, reports>> /\ timer' \in {1, timer}
    BY <1>3 DEF ScheduleWork
  <2>2. timer' \in -1 .. 8
    BY <1>t, <2>1 DEF Counted
  <2> QED
    BY <1>t, <2>1, <2>2, Forgotten
<1>4. CASE WorkEnds
  <2>1. /\ snap["work"].at = "ended" /\ snap' = [snap EXCEPT !["work"] = NoSnap]
        /\ UNCHANGED <<disks, scans, reports>> /\ timer' = Delay(round)
    BY <1>4 DEF WorkEnds
  <2>2. round \in 1 .. 3
    BY <2>1, TraceScheduled DEF Rounds
  <2>3. Delay(round) \in {3, 8, -1}
    BY <2>2 DEF Delay, Delays
  <2>4. timer' \in -1 .. 8
    BY <2>1, <2>3
  <2> QED
    BY <1>t, <2>1, <2>4, Forgotten
<1>5. ASSUME UNCHANGED <<snap, scans, reports>>, timer' \in -1 .. 8 PROVE ListInv'
  <2>1. disks' = disks \/ \E d \in Disks : AddDisk(d)
    BY DiskSteps
  <2>2. \A c \in Scanners : snap[c] \in SnapStates
    BY <1>t DEF LiveTypes
  <2>3. \A c \in Scanners : ListingOK(snap[c])'
    <3> SUFFICES ASSUME NEW c \in Scanners PROVE ListingOK(snap[c])'
      OBVIOUS
    <3>1. PICK s \in SnapStates : s = snap[c]
      BY <2>2
    <3>2. ListingOK(s)'
      BY <1>t, <2>1, <3>1, ListingKept DEF Listings
    <3> QED
      BY <1>5, <3>1, <3>2 DEF ListingOK, Listed
  <2>4. Listings'
    BY <2>3 DEF Listings
  <2>5. Counted'
    BY <1>t, <1>5 DEF Counted, One, Running
  <2> QED
    BY <2>4, <2>5 DEF ListInv
<1>6. CASE Tick
  <2>1. UNCHANGED <<snap, scans, reports>> /\ timer > 0 /\ timer' = timer - 1
    BY <1>6 DEF Tick
  <2> QED
    BY <1>t, <1>5, <2>1 DEF Counted
<1>7. CASE UNCHANGED <<snap, scans, reports, timer>>
  BY <1>t, <1>5, <1>7 DEF Counted
<1>8. ASSUME NEW c \in Scanners, SnapshotStep(c) PROVE ListInv'
  BY <1>t, <1>8, ListingSteps
<1>9. ASSUME NEW t \in Threads, ThreadStep(t) PROVE ListInv'
  BY <1>7, <1>9
     DEF ThreadStep, Passes, Fails, Defers, PassesOver, ResetDevice, ScheduleScan, EndProbe, live
<1>10. ASSUME NEW d \in Devices, Register(d) \/ Retry(d) PROVE ListInv'
  BY <1>7, <1>10 DEF Register, Retry, live
<1>11. CASE EnableDeferred \/ FlushDeferred \/ SkipPowerMode \/ OtherBinds
  BY <1>7, <1>11 DEF EnableDeferred, FlushDeferred, SkipPowerMode, OtherBinds, live
<1>12. ASSUME NEW d \in Disks, AddDisk(d) PROVE ListInv'
  BY <1>7, <1>12 DEF AddDisk, live
<1>13. CASE UNCHANGED vars
  BY <1>7, <1>13 DEF vars
<1> QED
  BY <1>1, <1>2, <1>3, <1>4, <1>6, <1>8, <1>9, <1>10, <1>11, <1>12, <1>13
     DEF Next, BootStep, WorkerStep, WorkStep

(* What the live trace lists is what is there: every device is counted     *)
(* once and in one state, a disk that was there when a snapshot began is   *)
(* listed unless the listing is full, and a snapshot that finds the host   *)
(* without a driver lists none.                                            *)
THEOREM ListingsAreTrue == Spec => []ListingsTrue
<1>1. Init => ListInv
  <2> SUFFICES ASSUME Init PROVE ListInv
    OBVIOUS
  <2>1. LiveTypes
    BY InitIInv DEF IInv
  <2>2. /\ \A c \in Scanners : snap[c] = NoSnap
        /\ scans = 0 /\ reports = <<>> /\ timer = -1
    BY DEF Init
  <2>3. Listings
    BY <2>1, <2>2, NoSnapListing DEF Listings
  <2>4. ~Running("boot") /\ ~Running("work")
    BY <2>2, NoSnapType DEF Running, Scanners
  <2>5. Counted
    BY <2>2, <2>4 DEF Counted, One
  <2> QED
    BY <2>3, <2>5 DEF ListInv
<1>2. IInv /\ WInv /\ ResetInv /\ ListInv => ListingsTrue
  <2> SUFFICES ASSUME IInv, WInv, ResetInv, ListInv PROVE ListingsTrue
    OBVIOUS
  <2>1. LiveTypes /\ TrailTypes /\ Listings /\ Counted
    BY DEF IInv, ResetInv, ListInv
  <2>2. \A t \in Threads : run[t].dev \in Devices \cup {Nobody} /\ run[t].todo \in Seq(Stages)
    BY DEF WInv, WorkTypes, RunStates
  <2>3. \A p \in {"probe", "scan"} : trail[p] \in Seq([stage : Stages, ret : Results])
    BY <2>1 DEF TrailTypes, MarkTypes
  <2>4. scans = Len(reports) + Cardinality({c \in Scanners : snap[c].at \notin {"none", "ended"}})
    <3>1. Len(reports) \in Nat /\ One("boot") \in {0, 1} /\ One("work") \in {0, 1}
      BY <2>1 DEF LiveTypes, One
    <3>2. scans = Len(reports) + (One("boot") + One("work"))
      BY <2>1, <3>1 DEF Counted
    <3> QED
      BY <2>1, <3>2, RunningCount
  <2>5. round \in 0 .. 3
    BY DEF IInv, LiveTypes, InPhase, BeforeTrace, LateInitRuns, Rounds
  <2>6. TypeOK
    BY <2>1, <2>2, <2>3, <2>4, <2>5 DEF TypeOK, WInv, Apart, Counted
  <2>7. DisksListed /\ DisksNeedDriver
    BY <2>1 DEF Listings, ListingOK, DisksListed, DisksNeedDriver
  <2> QED
    BY <2>6, <2>7 DEF ListingsTrue
<1>3. Spec => []ListInv
  BY <1>1, NextList, IInvInvariant, WInvInvariant, ScanInvInvariant, PTL DEF Spec
<1> QED
  BY <1>2, <1>3, IInvInvariant, WInvInvariant, ResetInvInvariant, PTL

(***************************************************************************)
(* Who is blamed.  A trail has no bad result until a call has failed.  Its *)
(* first one names that call from then on, or, when the call has no mark   *)
(* of its own, the caller, whose mark is the next on the way out: until    *)
(* then the trail has no bad result still.                                 *)
(***************************************************************************)
Blames(marks, i) ==
  /\ marks[i].ret # "ok" /\ marks[i].stage # "DEVICE_RESET"
  /\ ~(marks[i].stage = "pinctrl" /\ Mark("BYPASS", "ok") \in ToSet(marks))

Unblamed(marks) == \A i \in DOMAIN marks : ~Blames(marks, i)

FirstBad(marks, s) ==
  \E i \in DOMAIN marks :
    /\ Blames(marks, i) /\ marks[i].stage = s
    /\ \A j \in DOMAIN marks : j < i => ~Blames(marks, j)

(* The stage whose mark is the first to show the failure of call s.        *)
Culprit(s) ==
  CASE s \in {"clk_defaults", "power_domain"} -> "bus_probe_end"
    [] s \in {"eh_wq", "queues"}              -> "init_fail"
    [] s \in {"add_wlus", "devfreq"}          -> "add_lus"
    [] OTHER                                  -> s

ProbeBlame ==
  IF failed["probe"] = "" THEN Unblamed(trail["probe"])
  ELSE /\ failed["probe"] \notin Plain
       /\ \/ FirstBad(trail["probe"], Culprit(failed["probe"]))
          \/ /\ failed["probe"] \in Unmarked /\ Unblamed(trail["probe"])
             /\ \E t \in Probers : run[t].dev = Host /\ run[t].todo = Unwind(failed["probe"])

ScanBlame ==
  IF failed["scan"] = "" THEN Unblamed(trail["scan"])
  ELSE /\ failed["scan"] \notin Plain
       /\ \/ FirstBad(trail["scan"], Culprit(failed["scan"]))
          \/ /\ failed["scan"] \in Unmarked /\ Unblamed(trail["scan"])
             /\ run["scan"].todo = Unwind(failed["scan"])

HostWork ==
  \A t \in Probers : run[t].dev = Host =>
    /\ failed["probe"] = "" => run[t].ret = "ok"
    /\ failed["probe"] # "" => run[t].todo \in Seq(Closing) /\ run[t].ret # "ok"
    /\ \A i \in DOMAIN run[t].todo :
         run[t].todo[i] = "pinctrl" => i = 1 /\ trail["probe"] = <<>>

ScanWork ==
  /\ failed["scan"] = "" => run["scan"].ret = "ok"
  /\ failed["scan"] # "" => run["scan"].todo \in Seq(Closing) /\ run["scan"].ret # "ok"

BlameInv == ProbeBlame /\ ScanBlame /\ HostWork /\ ScanWork

(* The way out of an unmarked call begins with the mark that shows it.     *)
LEMMA UnmarkedUnwind ==
  ASSUME NEW s \in Unmarked
  PROVE  /\ Unwind(s) # <<>> /\ Head(Unwind(s)) = Culprit(s)
         /\ Culprit(s) \notin {"pinctrl", "DEVICE_RESET"} /\ s \in Suspects(Culprit(s))
<1>1. CASE s \in {"clk_defaults", "power_domain"}
  <2>1. s \notin ToSet(Core) \cup ToSet(Platform) \cup ToSet(ProbeHba) \cup {"add_wlus", "devfreq"}
    BY <1>1, StageSets
  <2>2. Unwind(s) = <<"bus_probe_end">>
    BY <1>1, <2>1 DEF Unwind
  <2>3. Head(Unwind(s)) = "bus_probe_end" /\ Unwind(s) # <<>>
    BY <2>2
  <2>4. Culprit(s) = "bus_probe_end"
    BY <1>1 DEF Culprit
  <2> QED
    BY <1>1, <2>3, <2>4 DEF Suspects
<1>2. CASE s \in {"eh_wq", "queues"}
  <2>1. s \in ToSet(Core) /\ s \notin ToSet(Platform) \cup ToSet(ProbeHba)
    BY <1>2, StageSets
  <2>2. Unwind(s) = <<"init_fail">> \o Return
    BY <1>2, <2>1 DEF Unwind
  <2>h. <<"init_fail">> \in Seq(HostStages)
    BY HostStagesAre
  <2>3. PICK h \in Seq(HostStages) : h = <<"init_fail">>
    BY <2>h
  <2>4. Len(h) = 1 /\ h[1] = "init_fail"
    BY <2>3
  <2>5. PICK u : u = h \o Return
    OBVIOUS
  <2>6. /\ u \in Seq(HostStages) /\ Len(u) = Len(h) + Len(Return)
        /\ \A i \in 1 .. Len(h) + Len(Return) :
             u[i] = IF i <= Len(h) THEN h[i] ELSE Return[i - Len(h)]
    BY <2>5, PartTypes, Joined
  <2>7. Len(u) = 5 /\ u[1] = "init_fail"
    BY <2>4, <2>6, PartTypes
  <2>8. u # <<>> /\ Head(u) = "init_fail"
    BY <2>6, <2>7
  <2>9. Culprit(s) = "init_fail"
    BY <1>2 DEF Culprit
  <2> QED
    BY <1>2, <2>2, <2>3, <2>5, <2>8, <2>9 DEF Suspects
<1>3. CASE s \in {"add_wlus", "devfreq"}
  <2>1. s \notin ToSet(Core) \cup ToSet(Platform) \cup ToSet(ProbeHba)
                \cup {"clk_defaults", "power_domain"}
    BY <1>3, StageSets
  <2>2. Unwind(s) = <<"add_lus", "async_scan_end">>
    BY <1>3, <2>1 DEF Unwind
  <2>3. Head(Unwind(s)) = "add_lus" /\ Unwind(s) # <<>>
    BY <2>2
  <2>4. Culprit(s) = "add_lus"
    BY <1>3 DEF Culprit
  <2> QED
    BY <1>3, <2>3, <2>4 DEF Suspects
<1> QED
  BY <1>1, <1>2, <1>3 DEF Unmarked

LEMMA MarkedCulprit ==
  ASSUME NEW s, s \notin Unmarked
  PROVE  Culprit(s) = s /\ (s \notin Plain => s \in Suspects(s))
<1>1. Culprit(s) = s
  BY DEF Culprit, Unmarked
<1>2. ASSUME s \notin Plain PROVE s \in Suspects(s)
  <2>1. s \notin {"bus_probe_end", "init_fail", "add_lus"}
    BY <1>2, StageSets DEF Plain
  <2> QED
    BY <2>1 DEF Suspects
<1> QED
  BY <1>1, <1>2

(* No unmarked call is on a way out.                                       *)
LEMMA UnmarkedOpen == Unmarked \cap Plain = {}
  BY StageSets DEF Unmarked, Plain

LEMMA OneMore ==
  ASSUME NEW s \in Seq(MarkTypes), NEW m \in MarkTypes, m # Mark("BYPASS", "ok"),
         NEW j, j = s \o <<m>>
  PROVE  /\ j # <<>>
         /\ (m.ret = "ok" \/ m.stage = "DEVICE_RESET") /\ Unblamed(s) => Unblamed(j)
         /\ \A x : FirstBad(s, x) => FirstBad(j, x)
         /\ /\ m.ret # "ok" /\ m.stage # "DEVICE_RESET" /\ Unblamed(s)
            /\ m.stage = "pinctrl" => s = <<>>
            => FirstBad(j, m.stage)
<1>0. <<m>> \in Seq(MarkTypes)
  OBVIOUS
<1>1. PICK r \in Seq(MarkTypes) : r = <<m>>
  BY <1>0
<1>2. Len(r) = 1 /\ r[1] = m /\ ToSet(r) = {m} /\ Len(s) \in Nat
  BY <1>1 DEF ToSet
<1>j. j = s \o r
  BY <1>1
<1>3. /\ j \in Seq(MarkTypes) /\ Len(j) = Len(s) + Len(r)
      /\ \A i \in 1 .. Len(s) + Len(r) : j[i] = IF i <= Len(s) THEN s[i] ELSE r[i - Len(s)]
  BY <1>j, Joined
<1>4. /\ DOMAIN j = 1 .. Len(s) + 1 /\ DOMAIN s = 1 .. Len(s)
      /\ \A i \in DOMAIN s : i \in DOMAIN j /\ j[i] = s[i]
      /\ Len(s) + 1 \in DOMAIN j /\ j[Len(s) + 1] = m
  BY <1>2, <1>3
<1>5. ToSet(j) = ToSet(s) \cup {m}
  BY <1>j, <1>2, JoinedSet
<1>6. \A i \in DOMAIN s : Blames(j, i) <=> Blames(s, i)
  BY <1>4, <1>5 DEF Blames
<1>7. \A i \in DOMAIN j : i \in DOMAIN s \/ i = Len(s) + 1
  BY <1>2, <1>4
<1>8. \A i \in DOMAIN s : i < Len(s) + 1
  BY <1>2, <1>4
<1>9. j # <<>>
  BY <1>4
<1>10. ASSUME m.ret = "ok" \/ m.stage = "DEVICE_RESET", Unblamed(s) PROVE Unblamed(j)
  <2>1. ~Blames(j, Len(s) + 1)
    BY <1>4, <1>10 DEF Blames
  <2> QED
    BY <1>6, <1>7, <1>10, <2>1 DEF Unblamed
<1>11. ASSUME NEW x, FirstBad(s, x) PROVE FirstBad(j, x)
  <2>1. PICK i \in DOMAIN s : /\ Blames(s, i) /\ s[i].stage = x
                              /\ \A k \in DOMAIN s : k < i => ~Blames(s, k)
    BY <1>11 DEF FirstBad
  <2>2. \A k \in DOMAIN j : k < i => k \in DOMAIN s
    BY <1>2, <1>4, <1>7, <2>1
  <2>3. i \in DOMAIN j /\ Blames(j, i) /\ j[i].stage = x
    BY <1>4, <1>6, <2>1
  <2> QED
    BY <1>6, <2>1, <2>2, <2>3 DEF FirstBad
<1>12. ASSUME m.ret # "ok", m.stage # "DEVICE_RESET", Unblamed(s),
              m.stage = "pinctrl" => s = <<>>
       PROVE  FirstBad(j, m.stage)
  <2>1. Blames(j, Len(s) + 1)
    <3>1. m.stage = "pinctrl" => Mark("BYPASS", "ok") \notin ToSet(j)
      <4>1. s = <<>> => ToSet(s) = {}
        BY DEF ToSet
      <4> QED
        BY <1>5, <1>12, <4>1
    <3> QED
      BY <1>4, <1>12, <3>1 DEF Blames
  <2>2. \A k \in DOMAIN j : k < Len(s) + 1 => k \in DOMAIN s
    BY <1>2, <1>7
  <2> QED
    BY <1>4, <1>6, <1>12, <2>1, <2>2 DEF FirstBad, Unblamed
<1> QED
  BY <1>9, <1>10, <1>11, <1>12

(* The two marks of the bridge leave an empty trail without a bad result.  *)
LEMMA EmptyUnblamed == Unblamed(<<>>)
<1>1. DOMAIN <<>> = {}
  OBVIOUS
<1> QED
  BY <1>1 DEF Unblamed

LEMMA BypassUnblamed ==
  Unblamed(<<Mark("pinctrl", "defer"), Mark("BYPASS", "ok")>>)
<1> DEFINE b == <<Mark("pinctrl", "defer"), Mark("BYPASS", "ok")>>
<1>1. DOMAIN b = {1, 2} /\ b[1] = Mark("pinctrl", "defer") /\ b[2] = Mark("BYPASS", "ok")
  OBVIOUS
<1>2. b[1].stage = "pinctrl" /\ b[2].ret = "ok"
  BY <1>1 DEF Mark
<1> HIDE DEF b
<1>3. Mark("BYPASS", "ok") \in ToSet(b)
  BY <1>1 DEF ToSet
<1>4. Unblamed(b)
  BY <1>1, <1>2, <1>3 DEF Unblamed, Blames
<1> QED
  BY <1>4 DEF b

LEMMA GoesOrLeaves ==
  ASSUME WInv, NEW t \in Threads, run[t].todo # <<>>
  PROVE  /\ Goes(t) => run'[t].todo = Tail(run[t].todo) /\ run'[t].ret = run[t].ret
         /\ \A ret : Leaves(t, ret) => run'[t].todo = Unwind(Stage(t)) /\ run'[t].ret = ret
<1>1. run \in [Threads -> RunStates] /\ run[t] \in RunStates
  BY DEF WInv, WorkTypes
<1>2. Goes(t) => run'[t].todo = Tail(run[t].todo) /\ run'[t].ret = run[t].ret
  BY <1>1 DEF Goes, RunStates
<1>3. ASSUME NEW ret, Leaves(t, ret)
      PROVE  run'[t].todo = Unwind(Stage(t)) /\ run'[t].ret = ret
  BY <1>1, <1>3 DEF Leaves, RunStates
<1> QED
  BY <1>2, <1>3

(* The end of a sequence of closing marks, and the pins' place in one.     *)
LEMMA TailFacts ==
  ASSUME NEW S, NEW s \in Seq(S), s # <<>>
  PROVE  /\ s \in Seq(Closing) => Tail(s) \in Seq(Closing) /\ Head(s) \in Closing
         /\ (\A i \in DOMAIN s : s[i] = "pinctrl" => i = 1) =>
              \A i \in DOMAIN Tail(s) : Tail(s)[i] # "pinctrl"
<1>1. s \in Seq(Closing) => Tail(s) \in Seq(Closing) /\ Head(s) \in Closing
  OBVIOUS
<1>2. /\ Len(Tail(s)) = Len(s) - 1 /\ Len(s) \in Nat \ {0} /\ Tail(s) \in Seq(S)
      /\ \A k \in 1 .. Len(s) - 1 : Tail(s)[k] = s[k + 1]
  BY ElementOfTail
<1>3. DOMAIN Tail(s) = 1 .. Len(s) - 1 /\ DOMAIN s = 1 .. Len(s)
  BY <1>2
<1>4. \A i \in DOMAIN Tail(s) : i + 1 \in DOMAIN s /\ i + 1 # 1 /\ Tail(s)[i] = s[i + 1]
  BY <1>2, <1>3
<1> QED
  BY <1>1, <1>4

(* A step of a probe of the host.                                          *)
LEMMA HostBlame ==
  ASSUME WInv, TrailTypes, BlameInv, NEW t \in Probers, run[t].dev = Host, Works(t)
  PROVE  ProbeBlame' /\ HostWork' /\ trail'["scan"] = trail["scan"] /\ failed'["scan"] = failed["scan"]
<1>1. /\ t \in Threads /\ t # "scan" /\ Recorded(t) /\ Trail(t) = "probe"
      /\ run[t] \in RunStates /\ Host # Nobody /\ Probers \subseteq Threads /\ "scan" \notin Probers
  BY BringupAssumption DEF Threads, Probers, Recorded, Trail, WInv, WorkTypes, Devices
<1>2. Moves(t) /\ run[t].todo # <<>>
  BY <1>1, ThreadMoves DEF Works, Moves
<1>3. Stage(t) \in HostStages /\ Stage(t) \in Stages
  BY <1>1, <1>2, StageOwned DEF StagesOf
<1>4. Stage(t) \notin {"add_wlus", "config_pwr_mode", "DEVICE_RESET", "BYPASS", ""}
  BY <1>3, HostStagesAre
<1>5. PICK s \in Seq(MarkTypes) : s = trail["probe"]
  BY DEF TrailTypes
<1>6. PICK marks \in Seq(MarkTypes) :
        /\ Marked(t, marks) /\ trail'["probe"] = s \o marks
        /\ trail'["scan"] = trail["scan"]
  BY <1>1, <1>5, WorkMarks
<1>7. /\ failed["probe"] = "" => run[t].ret = "ok"
      /\ failed["probe"] # "" => run[t].todo \in Seq(Closing) /\ run[t].ret # "ok"
      /\ \A i \in DOMAIN run[t].todo : run[t].todo[i] = "pinctrl" => i = 1 /\ s = <<>>
  BY <1>5 DEF BlameInv, HostWork
<1>8. PICK todo \in Seq(Stages) : todo = run[t].todo
  BY <1>1 DEF RunStates
<1>9. /\ Stage(t) = todo[1] /\ 1 \in DOMAIN todo /\ Stage(t) = Head(todo)
      /\ \A i \in DOMAIN Tail(todo) : Tail(todo)[i] # "pinctrl"
      /\ todo \in Seq(Closing) => Tail(todo) \in Seq(Closing) /\ Stage(t) \in Closing
  <2>1. todo # <<>> /\ Stage(t) = Head(todo)
    BY <1>2, <1>8 DEF Stage
  <2>2. Head(todo) = todo[1] /\ 1 \in DOMAIN todo
    BY <2>1
  <2>3. \A i \in DOMAIN todo : todo[i] = "pinctrl" => i = 1
    BY <1>7, <1>8
  <2>4. \A i \in DOMAIN Tail(todo) : Tail(todo)[i] # "pinctrl"
    BY <2>1, <2>3, TailFacts
  <2>5. todo \in Seq(Closing) => Tail(todo) \in Seq(Closing) /\ Head(todo) \in Closing
    BY <2>1, TailFacts
  <2> QED
    BY <2>1, <2>2, <2>4, <2>5
<1>10. Stage(t) = "pinctrl" => s = <<>>
  BY <1>7, <1>8, <1>9
<1>11. \A x, r : /\ Mark(x, r).stage = x /\ Mark(x, r).ret = r
                 /\ x # "BYPASS" => Mark(x, r) # Mark("BYPASS", "ok")
  BY DEF Mark
<1>12. \A o \in Probers \ {t} : run'[o].dev # Host
  BY <1>1, <1>2, MovesDevices DEF WInv, HeldApart
<1>13. run'[t].dev = Host
  BY <1>1, <1>2, MovesDevices
<1> DEFINE Goal == ProbeBlame' /\ HostWork' /\ failed'["scan"] = failed["scan"]
<1>a. run[t].ret \in Results /\ {"ok", "defer", "fail"} \subseteq Results /\ "DEVICE_RESET" \in Stages
  BY <1>1 DEF RunStates, Results, Stages
<1>b. \A x \in Stages, r \in Results : Mark(x, r) \in MarkTypes
  BY MarkTyped
<1>c. Stage(t) \notin Closing => failed["probe"] = "" /\ Unblamed(s)
  BY <1>5, <1>7, <1>8, <1>9 DEF BlameInv, ProbeBlame
<1>e. s \o <<>> = s
  OBVIOUS
(* The call succeeds, or only records a place.                             *)
<1>14. ASSUME failed' = failed, run'[t].todo = Tail(todo), run'[t].ret = run[t].ret,
              NEW m \in MarkTypes, m # Mark("BYPASS", "ok"), marks = <<m>>,
              failed["probe"] = "" => m.ret = "ok" \/ m.stage = "DEVICE_RESET",
              failed["probe"] # "" => m = Mark(Stage(t), run[t].ret)
       PROVE  Goal
  <2>1. trail'["probe"] # <<>>
    BY <1>6, <1>14, OneMore
  <2>2. ProbeBlame'
    <3>1. CASE failed["probe"] = ""
      <4>1. Unblamed(s)
        BY <1>5, <3>1 DEF BlameInv, ProbeBlame
      <4>2. Unblamed(trail'["probe"])
        BY <1>6, <1>14, <3>1, <4>1, OneMore
      <4> QED
        BY <1>14, <3>1, <4>2 DEF ProbeBlame
    <3>2. CASE failed["probe"] # ""
      <4> DEFINE x == Culprit(failed["probe"])
      <4>1. PICK j : j = trail'["probe"]
        OBVIOUS
      <4>2. j = s \o <<m>> /\ failed["probe"] \notin Plain
        BY <1>5, <1>6, <1>14, <3>2, <4>1 DEF BlameInv, ProbeBlame
      <4>3. FirstBad(j, x)
        <5>1. CASE FirstBad(s, x)
          BY <1>14, <4>2, <5>1, OneMore
        <5>2. CASE ~FirstBad(s, x)
          <6>1. PICK u \in Probers :
                  /\ failed["probe"] \in Unmarked /\ Unblamed(s)
                  /\ run[u].dev = Host /\ run[u].todo = Unwind(failed["probe"])
            BY <1>5, <3>2, <5>2 DEF BlameInv, ProbeBlame
          <6>2. u = t
            BY <1>1, <6>1 DEF WInv, HeldApart
          <6>3. Stage(t) = x /\ x \notin {"pinctrl", "DEVICE_RESET"}
            BY <6>1, <6>2, UnmarkedUnwind DEF Stage
          <6> HIDE DEF x
          <6>4. m.stage = x /\ m.ret = run[t].ret /\ run[t].ret # "ok"
            <7>1. m.stage = Stage(t) /\ m.ret = run[t].ret
              <8>1. m = Mark(Stage(t), run[t].ret)
                BY <1>14, <3>2
              <8> QED
                BY <8>1 DEF Mark
            <7>2. run[t].ret # "ok"
              BY <1>7, <3>2
            <7> QED
              BY <6>3, <7>1, <7>2
          <6>5. /\ m.ret # "ok" /\ m.stage # "DEVICE_RESET" /\ Unblamed(s)
                /\ m.stage = "pinctrl" => s = <<>>
            BY <6>1, <6>3, <6>4
          <6>6. FirstBad(j, m.stage)
            BY <1>14, <4>2, <6>5, OneMore
          <6> QED
            BY <6>4, <6>6
        <5> QED
          BY <5>1, <5>2
      <4> QED
        BY <1>14, <3>2, <4>1, <4>2, <4>3 DEF ProbeBlame
    <3> QED
      BY <3>1, <3>2
  <2>3. HostWork'
    BY <1>7, <1>8, <1>9, <1>12, <1>14 DEF HostWork
  <2> QED
    BY <1>14, <2>2, <2>3
(* The call fails or is deferred.                                          *)
<1>15. ASSUME NEW r \in {"fail", "defer"}, Leaves(t, r), Stage(t) \notin Plain,
              \/ marks = <<Mark(Stage(t), r)>> /\ Stage(t) \notin Unmarked
              \/ marks = <<>> /\ Stage(t) \in Unmarked,
              failed' = [failed EXCEPT !["probe"] = Stage(t)]
       PROVE  Goal
  <2>2. Unblamed(s)
    BY <1>15, <1>c DEF Closing
  <2>3. PICK m \in MarkTypes : m = Mark(Stage(t), r)
    BY <1>3, <1>a, <1>b
  <2>4. m.stage = Stage(t) /\ m.ret = r /\ m # Mark("BYPASS", "ok")
    BY <1>4, <1>11, <2>3
  <2>5. ASSUME Stage(t) \notin Unmarked PROVE FirstBad(trail'["probe"], Stage(t))
    <3>1. trail'["probe"] = s \o <<m>>
      BY <1>6, <1>15, <2>3, <2>5
    <3>2. /\ m.ret # "ok" /\ m.stage # "DEVICE_RESET" /\ Unblamed(s)
          /\ m.stage = "pinctrl" => s = <<>>
      BY <1>4, <1>10, <2>2, <2>4
    <3>3. PICK j : j = trail'["probe"]
      OBVIOUS
    <3>4. j = s \o <<m>>
      BY <3>1, <3>3
    <3>5. FirstBad(j, m.stage)
      BY <2>4, <3>2, <3>4, OneMore
    <3> QED
      BY <2>4, <3>3, <3>5
  <2>6. failed'["probe"] = Stage(t) /\ failed'["scan"] = failed["scan"]
    BY <1>15 DEF TrailTypes
  <2>8. run'[t].todo = Unwind(Stage(t)) /\ run'[t].ret = r
    BY <1>1, <1>2, <1>15, GoesOrLeaves
  <2>7. ProbeBlame'
    <3>1. CASE Stage(t) \notin Unmarked
      <4>1. FirstBad(trail'["probe"], Culprit(Stage(t)))
        BY <2>5, <3>1, MarkedCulprit
      <4> QED
        BY <1>4, <1>15, <2>6, <4>1 DEF ProbeBlame
    <3>2. CASE Stage(t) \in Unmarked
      <4>1. trail'["probe"] = s
        BY <1>6, <1>15, <1>e, <3>2
      <4> QED
        BY <1>4, <1>13, <1>15, <2>2, <2>6, <2>8, <3>2, <4>1 DEF ProbeBlame
    <3> QED
      BY <3>1, <3>2
  <2>9. Unwind(Stage(t)) \in Seq(Closing)
    BY <1>3, UnwindTypes
  <2>10. "pinctrl" \notin Closing
    BY StageSets DEF Closing, Plain
  <2>11. \A i \in DOMAIN run'[t].todo : run'[t].todo[i] # "pinctrl"
    BY <2>8, <2>9, <2>10
  <2>12. HostWork'
    BY <1>4, <1>12, <2>6, <2>8, <2>9, <2>11 DEF HostWork
  <2> QED
    BY <2>6, <2>7, <2>12
<1>g. Goes(t) => run'[t].todo = Tail(todo) /\ run'[t].ret = run[t].ret
  BY <1>1, <1>2, <1>8, GoesOrLeaves
(* An unmarked call succeeds.                                              *)
<1>u. ASSUME marks = <<>>, Stage(t) \in Unmarked, Passes(t) PROVE Goal
  <2>1. failed' = failed /\ run'[t].todo = Tail(todo) /\ run'[t].ret = run[t].ret
    BY <1>g, <1>u DEF Passes
  <2>2. failed["probe"] = "" /\ Unblamed(s)
    BY <1>c, <1>u, UnmarkedOpen DEF Closing
  <2>3. trail'["probe"] = s
    BY <1>6, <1>e, <1>u
  <2>4. ProbeBlame'
    BY <2>1, <2>2, <2>3 DEF ProbeBlame
  <2>5. HostWork'
    BY <1>7, <1>9, <1>12, <2>1, <2>2 DEF HostWork
  <2> QED
    BY <2>1, <2>4, <2>5
<1>16. ASSUME marks = <<Mark(Stage(t), run[t].ret)>>, Passes(t) PROVE Goal
  <2>1. failed' = failed /\ Goes(t)
    BY <1>16 DEF Passes
  <2>2. PICK m \in MarkTypes : m = Mark(Stage(t), run[t].ret)
    BY <1>3, <1>a, <1>b
  <2>3. m # Mark("BYPASS", "ok") /\ (failed["probe"] = "" => m.ret = "ok")
    BY <1>4, <1>7, <1>11, <2>2
  <2> HIDE DEF Goal
  <2> QED
    BY <1>14, <1>16, <1>g, <2>1, <2>2, <2>3
<1>17. ASSUME Fails(t),
              \/ marks = <<Mark(Stage(t), "fail")>> /\ Stage(t) \notin Unmarked
              \/ marks = <<>> /\ Stage(t) \in Unmarked
       PROVE  Goal
  <2>1. /\ Leaves(t, "fail") /\ Stage(t) \notin Plain
        /\ failed' = [failed EXCEPT !["probe"] = Stage(t)]
    BY <1>1, <1>17 DEF Fails
  <2> HIDE DEF Goal
  <2> QED
    BY <1>15, <1>17, <2>1
<1>18. ASSUME Defers(t),
              \/ marks = <<Mark(Stage(t), "defer")>> /\ Stage(t) \notin Unmarked
              \/ marks = <<>> /\ Stage(t) \in Unmarked
       PROVE  Goal
  <2>1. Leaves(t, "defer") /\ failed' = [failed EXCEPT !["probe"] = Stage(t)]
    BY <1>1, <1>18 DEF Defers
  <2>2. Stage(t) \in {"probe", "pinctrl"} \cup Deferring
    BY <1>18 DEF Defers, Missing, NeededBy
  <2>3. Stage(t) \notin Plain
    BY <2>2, StageSets DEF Plain, Deferring
  <2> HIDE DEF Goal
  <2> QED
    BY <1>15, <1>18, <2>1, <2>3
<1>19. ASSUME marks = <<Mark(Stage(t), "defer"), Mark("BYPASS", "ok")>>, PassesOver(t)
       PROVE  Goal
  <2>1. failed' = failed /\ Goes(t) /\ Stage(t) = "pinctrl"
    BY <1>19 DEF PassesOver, Bypassed
  <2>2. s = <<>>
    BY <1>10, <2>1
  <2>3. failed["probe"] = ""
    BY <1>c, <2>1, StageSets DEF Closing, Plain
  <2>4. trail'["probe"] = <<Mark("pinctrl", "defer"), Mark("BYPASS", "ok")>>
    BY <1>6, <1>19, <2>1, <2>2
  <2>5. ProbeBlame'
    BY <2>1, <2>3, <2>4, BypassUnblamed DEF ProbeBlame
  <2>6. HostWork'
    BY <1>7, <1>9, <1>12, <1>g, <2>1, <2>3 DEF HostWork
  <2> QED
    BY <2>1, <2>5, <2>6
<1>20. ASSUME marks \in {<<Mark("DEVICE_RESET", "ok")>>, <<Mark("DEVICE_RESET", "fail")>>},
              ResetDevice(t)
       PROVE  Goal
  <2>1. failed' = failed /\ Goes(t)
    BY <1>20 DEF ResetDevice
  <2>2. PICK r \in Results : marks = <<Mark("DEVICE_RESET", r)>>
    BY <1>20, <1>a
  <2>3. PICK m \in MarkTypes : m = Mark("DEVICE_RESET", r)
    BY <1>a, <1>b
  <2>4. m # Mark("BYPASS", "ok") /\ m.stage = "DEVICE_RESET"
    BY <1>11, <2>3
  <2>5. failed["probe"] = ""
    BY <1>20, <1>c, StageSets DEF ResetDevice, Closing, Plain
  <2> HIDE DEF Goal
  <2> QED
    BY <1>14, <1>g, <2>1, <2>2, <2>3, <2>4, <2>5
<1>21. ASSUME marks = <<Mark(Stage(t), "ok")>>, ScheduleScan(t) PROVE Goal
  <2>1. failed' = failed /\ run'[t].todo = Tail(todo) /\ run'[t].ret = run[t].ret
    <3>1. run' = [run EXCEPT ![t].todo = Tail(@), !["scan"].todo = AsyncScan]
      BY <1>21 DEF ScheduleScan
    <3>2. run \in [Threads -> RunStates]
      BY DEF WInv, WorkTypes
    <3>3. run'[t] = [run[t] EXCEPT !.todo = Tail(@)]
      BY <1>1, <3>1, <3>2
    <3> QED
      BY <1>1, <1>8, <1>21, <3>3 DEF ScheduleScan, RunStates
  <2>2. PICK m \in MarkTypes : m = Mark(Stage(t), "ok")
    BY <1>3, <1>a, <1>b
  <2>3. m # Mark("BYPASS", "ok") /\ m.ret = "ok"
    BY <1>4, <1>11, <2>2
  <2>4. failed["probe"] = ""
    BY <1>21, <1>c DEF ScheduleScan, Closing
  <2> HIDE DEF Goal
  <2> QED
    BY <1>14, <1>21, <2>1, <2>2, <2>3, <2>4
<1> HIDE DEF Goal
<1>22. Goal
  BY <1>1, <1>4, <1>6, <1>u, <1>16, <1>17, <1>18, <1>19, <1>20, <1>21 DEF Marked
<1> QED
  BY <1>6, <1>22 DEF Goal

(* A step of the scan.                                                     *)
LEMMA ScanBlamed ==
  ASSUME WInv, TrailTypes, BlameInv, Works("scan")
  PROVE  /\ ScanBlame' /\ ScanWork'
         /\ trail'["probe"] = trail["probe"] /\ failed'["probe"] = failed["probe"]
<1> DEFINE t == "scan"
<1>1. t \in Threads /\ Recorded(t) /\ Trail(t) = "scan" /\ run[t] \in RunStates
  BY DEF Threads, Recorded, Trail, WInv, WorkTypes
<1>2. Moves(t) /\ run[t].todo # <<>>
  BY <1>1, ThreadMoves DEF Works, Moves
<1>3. Stage(t) \in ScanStages /\ Stage(t) \in Stages
  BY <1>1, <1>2, StageOwned DEF StagesOf
<1>4. Stage(t) \notin {"probe", "pinctrl", "device_reset", "async_scan_scheduled",
                       "DEVICE_RESET", "BYPASS", ""} \cup Deferring
  BY <1>3 DEF ScanStages, Deferring
<1>5. PICK s \in Seq(MarkTypes) : s = trail["scan"]
  BY DEF TrailTypes
<1>6. PICK marks \in Seq(MarkTypes) :
        /\ Marked(t, marks) /\ trail'["scan"] = s \o marks
        /\ trail'["probe"] = trail["probe"]
  BY <1>1, <1>5, WorkMarks
<1>7. /\ failed["scan"] = "" => run[t].ret = "ok" /\ Unblamed(s)
      /\ failed["scan"] # "" => run[t].todo \in Seq(Closing) /\ run[t].ret # "ok"
  BY <1>5 DEF BlameInv, ScanWork, ScanBlame
<1>8. PICK todo \in Seq(Stages) : todo = run[t].todo
  BY <1>1 DEF RunStates
<1>9. /\ Stage(t) = Head(todo)
      /\ todo \in Seq(Closing) => Tail(todo) \in Seq(Closing) /\ Stage(t) \in Closing
  <2>1. todo # <<>> /\ Stage(t) = Head(todo)
    BY <1>2, <1>8 DEF Stage
  <2> QED
    BY <2>1, TailFacts
<1>10. Stage(t) \notin Plain => failed["scan"] = ""
  BY <1>7, <1>8, <1>9 DEF Closing
<1>11. \A x, r : /\ Mark(x, r).stage = x /\ Mark(x, r).ret = r
                 /\ x # "BYPASS" => Mark(x, r) # Mark("BYPASS", "ok")
  BY DEF Mark
<1>a. run[t].ret \in Results /\ {"ok", "defer", "fail"} \subseteq Results
  BY <1>1 DEF RunStates, Results
<1>b. \A x \in Stages, r \in Results : Mark(x, r) \in MarkTypes
  BY MarkTyped
<1>e. s \o <<>> = s
  OBVIOUS
<1> DEFINE Goal == ScanBlame' /\ ScanWork' /\ failed'["probe"] = failed["probe"]
(* The call succeeds without a mark.                                       *)
<1>12. ASSUME marks = <<>>, failed' = failed, Goes(t), Stage(t) \notin Plain PROVE Goal
  <2>1. failed["scan"] = "" /\ trail'["scan"] = s
    BY <1>6, <1>10, <1>12, <1>e
  <2>2. run'[t].ret = run[t].ret
    BY <1>1, <1>2, <1>12, GoesOrLeaves
  <2> QED
    BY <1>7, <1>12, <2>1, <2>2 DEF ScanBlame, ScanWork
<1>13. ASSUME Leaves(t, "fail"), failed' = [failed EXCEPT !["scan"] = Stage(t)],
              Stage(t) \notin Plain
       PROVE  /\ failed["scan"] = "" /\ Unblamed(s) /\ ScanWork'
              /\ failed'["scan"] = Stage(t) /\ failed'["probe"] = failed["probe"]
              /\ run'[t].todo = Unwind(Stage(t))
  <2>1. run'[t].todo = Unwind(Stage(t)) /\ run'[t].ret = "fail"
    BY <1>1, <1>2, <1>13, GoesOrLeaves
  <2>2. Unwind(Stage(t)) \in Seq(Closing)
    BY <1>3, UnwindTypes
  <2>3. failed'["scan"] = Stage(t) /\ failed'["probe"] = failed["probe"]
    BY <1>13 DEF TrailTypes
  <2> QED
    BY <1>4, <1>7, <1>10, <1>13, <2>1, <2>2, <2>3 DEF ScanWork
(* An unmarked call fails: nothing is marked yet.                          *)
<1>14. ASSUME marks = <<>>, Fails(t), Stage(t) \in Unmarked PROVE Goal
  <2>1. /\ Leaves(t, "fail") /\ Stage(t) \notin Plain
        /\ failed' = [failed EXCEPT !["scan"] = Stage(t)]
    BY <1>1, <1>14 DEF Fails
  <2>3. trail'["scan"] = s
    BY <1>6, <1>14, <1>e
  <2>4. ScanBlame'
    BY <1>4, <1>13, <1>14, <2>1, <2>3 DEF ScanBlame
  <2> QED
    BY <1>13, <2>1, <2>4
<1>15. ASSUME marks = <<Mark(Stage(t), "fail")>>, Fails(t), Stage(t) \notin Unmarked PROVE Goal
  <2>1. /\ Leaves(t, "fail") /\ Stage(t) \notin Plain
        /\ failed' = [failed EXCEPT !["scan"] = Stage(t)]
    BY <1>1, <1>15 DEF Fails
  <2>2. PICK m \in MarkTypes : m = Mark(Stage(t), "fail")
    BY <1>3, <1>a, <1>b
  <2>3. m.stage = Stage(t) /\ m.ret = "fail" /\ m # Mark("BYPASS", "ok")
    BY <1>4, <1>11, <2>2
  <2>4. PICK j : j = trail'["scan"]
    OBVIOUS
  <2>5. j = s \o <<m>>
    BY <1>6, <1>15, <2>2, <2>4
  <2>6. Unblamed(s)
    BY <1>13, <2>1
  <2>7. FirstBad(j, m.stage)
    <3>1. /\ m.ret # "ok" /\ m.stage # "DEVICE_RESET" /\ Unblamed(s)
          /\ m.stage = "pinctrl" => s = <<>>
      BY <1>4, <2>3, <2>6
    <3> QED
      BY <2>3, <2>5, <3>1, OneMore
  <2>8. ScanBlame'
    <3>1. FirstBad(trail'["scan"], Culprit(Stage(t)))
      BY <1>15, <2>3, <2>4, <2>7, MarkedCulprit
    <3> QED
      BY <1>4, <1>13, <1>15, <2>1, <3>1 DEF ScanBlame
  <2> QED
    BY <1>13, <2>1, <2>8
(* A mark with the result so far; the caller's of an unmarked call too.    *)
<1>16. ASSUME marks = <<Mark(Stage(t), run[t].ret)>>, Passes(t), Stage(t) \notin Unmarked
       PROVE  Goal
  <2>1. failed' = failed /\ Goes(t)
    BY <1>16 DEF Passes
  <2>2. PICK m \in MarkTypes : m = Mark(Stage(t), run[t].ret)
    BY <1>3, <1>a, <1>b
  <2>3. m.stage = Stage(t) /\ m.ret = run[t].ret /\ m # Mark("BYPASS", "ok")
    BY <1>4, <1>11, <2>2
  <2>4. PICK j : j = trail'["scan"]
    OBVIOUS
  <2>5. j = s \o <<m>>
    BY <1>6, <1>16, <2>2, <2>4
  <2>6. run'[t].todo = Tail(todo) /\ run'[t].ret = run[t].ret
    BY <1>1, <1>2, <1>8, <2>1, GoesOrLeaves
  <2>7. ScanWork'
    BY <1>7, <1>8, <1>9, <2>1, <2>6 DEF ScanWork
  <2>8. CASE failed["scan"] = ""
    <3>1. Unblamed(j)
      BY <1>7, <2>3, <2>5, <2>8, OneMore
    <3> QED
      BY <2>1, <2>4, <2>7, <2>8, <3>1 DEF ScanBlame
  <2>9. CASE failed["scan"] # ""
    <3> DEFINE x == Culprit(failed["scan"])
    <3>1. FirstBad(j, x)
      <4>1. CASE FirstBad(s, Culprit(failed["scan"]))
        BY <2>3, <2>5, <4>1, OneMore
      <4>2. CASE ~FirstBad(s, Culprit(failed["scan"]))
        <5>1. /\ failed["scan"] \in Unmarked /\ Unblamed(s)
              /\ todo = Unwind(failed["scan"])
          BY <1>5, <1>8, <2>9, <4>2 DEF BlameInv, ScanBlame
        <5>2. Stage(t) = x /\ x \notin {"pinctrl", "DEVICE_RESET"}
          BY <1>9, <5>1, UnmarkedUnwind
        <5> HIDE DEF x
        <5>3. /\ m.ret # "ok" /\ m.stage # "DEVICE_RESET" /\ Unblamed(s)
              /\ m.stage = "pinctrl" => s = <<>>
          BY <1>7, <2>3, <2>9, <5>1, <5>2
        <5>4. FirstBad(j, m.stage)
          BY <2>3, <2>5, <5>3, OneMore
        <5> QED
          BY <2>3, <5>2, <5>4
      <4> QED
        BY <4>1, <4>2
    <3> QED
      BY <1>5, <2>1, <2>4, <2>7, <2>9, <3>1 DEF BlameInv, ScanBlame
  <2> QED
    BY <2>8, <2>9
<1>17. ASSUME marks = <<>>, Stage(t) \in Unmarked, Passes(t) PROVE Goal
  <2>1. failed' = failed /\ Goes(t) /\ Stage(t) \notin Plain
    BY <1>17, UnmarkedOpen DEF Passes
  <2> HIDE DEF Goal
  <2> QED
    BY <1>12, <1>17, <2>1
<1>18. ASSUME marks = <<>>, SkipPowerMode PROVE Goal
  <2>1. failed' = failed /\ Goes(t) /\ Stage(t) \notin Plain
    BY <1>18, StageSets DEF SkipPowerMode, Plain
  <2> HIDE DEF Goal
  <2> QED
    BY <1>12, <1>18, <2>1
<1>19. ~Defers(t) /\ ~PassesOver(t) /\ ~ResetDevice(t) /\ ~ScheduleScan(t)
  BY <1>4 DEF Defers, Missing, NeededBy, PassesOver, Bypassed, ResetDevice, ScheduleScan
<1> HIDE DEF Goal
<1>20. Goal
  BY <1>6, <1>14, <1>15, <1>16, <1>17, <1>18, <1>19 DEF Marked
<1> QED
  BY <1>6, <1>20 DEF Goal

LEMMA PinsFirst ==
  \A i \in DOMAIN Program(Host) : Program(Host)[i] = "pinctrl" => i = 1
<1> SUFFICES ASSUME NEW i \in 1 .. 30, Program(Host)[i] = "pinctrl" PROVE i = 1
  BY HostProgram
<1>1. CASE i <= 7
  <2>1. i \in 1 .. 7 /\ Program(Host)[i] = PreProbe[i]
    BY <1>1, HostProgram
  <2>2. \A k \in 2 .. 7 : PreProbe[k] # "pinctrl"
    BY DEF PreProbe
  <2> QED
    BY <2>1, <2>2
<1>2. CASE i \in 8 .. 13
  <2>1. Platform[i - 7] \in ToSet(Platform)
    BY <1>2, PartTypes DEF ToSet
  <2>2. i \in 1 .. 30 /\ ~(i <= 7) /\ i <= 13
    BY <1>2
  <2>3. Program(Host)[i] = Platform[i - 7]
    BY <2>2, HostProgram
  <2> QED
    BY <2>1, <2>3, StageSets
<1>3. CASE i \in 14 .. 26
  <2>1. i - 13 \in 1 .. 13 /\ ~(i <= 7) /\ ~(i <= 13) /\ i <= 26
    BY <1>3
  <2>2. Core[i - 13] \in ToSet(Core)
    BY <2>1, PartTypes DEF ToSet
  <2>3. Program(Host)[i] = Core[i - 13]
    BY <2>1, HostProgram
  <2> QED
    BY <2>2, <2>3, StageSets
<1>4. CASE i \in 27 .. 30
  <2>1. i - 26 \in 1 .. 4 /\ ~(i <= 7) /\ ~(i <= 13) /\ ~(i <= 26)
    BY <1>4
  <2>2. Return[i - 26] \in ToSet(Return)
    BY <2>1, PartTypes DEF ToSet
  <2>3. Program(Host)[i] = Return[i - 26]
    BY <2>1, HostProgram
  <2> QED
    BY <2>2, <2>3, StageSets
<1> QED
  BY <1>1, <1>2, <1>3, <1>4

LEMMA NextBlame == WInv /\ TrailTypes /\ ScanInv /\ BlameInv /\ [Next]_vars => BlameInv'
<1> SUFFICES ASSUME WInv, TrailTypes, ScanInv, BlameInv, [Next]_vars PROVE BlameInv'
  OBVIOUS
<1>3. /\ \A o \in Threads : run[o] \in RunStates
      /\ Probers \subseteq Threads /\ "scan" \in Threads \ Probers
      /\ Host # Nobody /\ Host \in Devices
  BY BringupAssumption DEF WInv, WorkTypes, Threads, Probers, Devices
<1>p. ASSUME trail'["probe"] = trail["probe"], failed'["probe"] = failed["probe"],
             \A o \in Probers : Host \in {run'[o].dev, run[o].dev} => run'[o] = run[o]
      PROVE  ProbeBlame' /\ HostWork'
  BY <1>p DEF BlameInv, ProbeBlame, HostWork
<1>s. ASSUME trail'["scan"] = trail["scan"], failed'["scan"] = failed["scan"],
             run'["scan"] = run["scan"]
      PROVE  ScanBlame' /\ ScanWork'
  BY <1>s DEF BlameInv, ScanBlame, ScanWork
<1>1. CASE Quiet
  <2>1. UNCHANGED run /\ UNCHANGED trail /\ UNCHANGED failed
    BY <1>1 DEF Quiet, probes
  <2> QED
    BY <1>p, <1>s, <2>1 DEF BlameInv
<1>2. ASSUME NEW t \in Probers, NEW d \in Devices, Started(t, d) PROVE BlameInv'
  <2>1. /\ run'[t].dev = d /\ run'[t].todo = Program(d) /\ run'[t].ret = "ok"
        /\ \A o \in Threads \ {t} : run'[o] = run[o]
        /\ run[t].dev = Nobody /\ \A o \in Threads : run[o].dev # d
    BY <1>2, StartKeeps DEF Started
  <2>2. trail'["scan"] = trail["scan"] /\ failed'["scan"] = failed["scan"]
    BY <1>2, StartTrails DEF Started
  <2>3. ScanBlame' /\ ScanWork'
    BY <1>3, <1>s, <2>1, <2>2
  <2>4. CASE d = Host
    <3>1. trail'["probe"] = <<>> /\ failed'["probe"] = ""
      BY <1>2, <2>4, StartTrails DEF Started
    <3>2. ProbeBlame'
      BY <3>1, EmptyUnblamed DEF ProbeBlame
    <3>3. HostWork'
      BY <1>3, <2>1, <2>4, <3>1, PinsFirst DEF HostWork
    <3> QED
      BY <2>3, <3>2, <3>3 DEF BlameInv
  <2>5. CASE d # Host
    <3>1. UNCHANGED trail /\ UNCHANGED failed
      BY <1>2, <2>5 DEF Started, StartProbe
    <3> QED
      BY <1>3, <1>p, <2>1, <2>3, <2>5, <3>1 DEF BlameInv
  <2> QED
    BY <2>4, <2>5
<1>4. ASSUME NEW t \in Threads, EndProbe(t) PROVE BlameInv'
  <2>1. t \in Probers /\ run'[t] = Idle /\ \A o \in Threads \ {t} : run'[o] = run[o]
    BY <1>4, EndKeeps
  <2>2. UNCHANGED trail /\ UNCHANGED failed
    BY <1>4 DEF EndProbe
  <2>3. ScanBlame' /\ ScanWork'
    BY <1>3, <1>s, <2>1, <2>2
  <2>4. run[t].todo = <<>>
    BY <1>4 DEF EndProbe
  <2>5. ProbeBlame'
    <3>1. ASSUME failed["probe"] \in Unmarked, NEW u \in Probers, run[u].dev = Host,
                 run[u].todo = Unwind(failed["probe"])
          PROVE  run'[u] = run[u]
      <4>1. run[u].todo # <<>>
        BY <3>1, UnmarkedUnwind
      <4> QED
        BY <1>3, <2>1, <2>4, <4>1
    <3> QED
      BY <2>2, <3>1 DEF BlameInv, ProbeBlame
  <2>6. HostWork'
    BY <1>3, <2>1, <2>2, IdleType DEF BlameInv, HostWork
  <2> QED
    BY <2>3, <2>5, <2>6 DEF BlameInv
<1>5. ASSUME NEW t \in Threads, Works(t) PROVE BlameInv'
  <2>1. Moves(t) /\ run[t].todo # <<>>
    BY <1>5, ThreadMoves DEF Works, Moves
  <2>2. CASE t = "scan"
    <3>1. /\ ScanBlame' /\ ScanWork'
          /\ trail'["probe"] = trail["probe"] /\ failed'["probe"] = failed["probe"]
      BY <1>5, <2>2, ScanBlamed
    <3>2. \A o \in Probers : run'[o] = run[o]
      BY <1>3, <2>1, <2>2 DEF Moves
    <3> QED
      BY <1>p, <3>1, <3>2 DEF BlameInv
  <2>3. CASE t # "scan" /\ run[t].dev = Host
    <3>1. t \in Probers
      BY <2>3 DEF Threads
    <3>2. /\ ProbeBlame' /\ HostWork'
          /\ trail'["scan"] = trail["scan"] /\ failed'["scan"] = failed["scan"]
      BY <1>5, <2>3, <3>1, HostBlame
    <3>3. CASE Stage(t) # "async_scan_scheduled"
      <4>1. run'["scan"] = run["scan"]
        BY <1>3, <2>1, <2>3, <3>3 DEF Moves
      <4> QED
        BY <1>s, <3>2, <4>1 DEF BlameInv
    <3>4. CASE Stage(t) = "async_scan_scheduled"
      <4>1. ScanFresh
        BY <2>1, <2>3, <3>1, <3>4, NotYetCommitted
      <4>2. \/ run'["scan"] = run["scan"]
            \/ run'["scan"] = [run["scan"] EXCEPT !.todo = AsyncScan]
        BY <1>3, <2>1, <2>3 DEF Moves
      <4>3. run'["scan"].ret = "ok"
        <5>1. run["scan"].ret = "ok"
          BY <4>1, IdleType DEF ScanFresh
        <5> QED
          BY <1>3, <4>2, <5>1 DEF RunStates
      <4>4. failed'["scan"] = "" /\ trail'["scan"] = <<>>
        BY <3>2, <4>1 DEF ScanFresh
      <4>5. ScanBlame' /\ ScanWork'
        BY <4>3, <4>4, EmptyUnblamed DEF ScanBlame, ScanWork
      <4> QED
        BY <3>2, <4>5 DEF BlameInv
    <3> QED
      BY <3>3, <3>4
  <2>4. CASE t # "scan" /\ run[t].dev # Host
    <3>1. ~Recorded(t) /\ t \in Probers
      BY <2>4 DEF Recorded, Threads
    <3>2. UNCHANGED trail
      BY <1>5, <3>1, WorkMarks
    <3>3. UNCHANGED failed
      BY <1>5, <3>1
         DEF Works, Passes, Fails, Defers, PassesOver, ResetDevice, ScheduleScan, SkipPowerMode
    <3>4. Stage(t) # "async_scan_scheduled"
      BY <1>5, <2>4, SchedulesOrNot
    <3>5. run'["scan"] = run["scan"] /\ \A o \in Probers \ {t} : run'[o] = run[o]
      BY <1>3, <2>1, <2>4, <3>4 DEF Moves
    <3>6. run'[t].dev # Host
      BY <2>1, <2>4, MovesDevices
    <3>7. ProbeBlame' /\ HostWork'
      BY <1>p, <2>4, <3>2, <3>3, <3>5, <3>6
    <3>8. ScanBlame' /\ ScanWork'
      BY <1>s, <3>2, <3>3, <3>5
    <3> QED
      BY <3>7, <3>8 DEF BlameInv
  <2> QED
    BY <2>2, <2>3, <2>4
<1> QED
  BY <1>1, <1>2, <1>4, <1>5, StepCases

LEMMA BlamedIs ==
  ASSUME NEW marks \in Seq(MarkTypes), NEW s, FirstBad(marks, s)
  PROVE  Blamed(marks) # 0 /\ marks[Blamed(marks)].stage = s
<1>1. PICK i \in DOMAIN marks : /\ Blames(marks, i) /\ marks[i].stage = s
                                /\ \A j \in DOMAIN marks : j < i => ~Blames(marks, j)
  BY DEF FirstBad
<1>2. PICK I : I = {k \in 1 .. Len(marks) :
                      marks[k].ret # "ok" /\ marks[k].stage # "DEVICE_RESET"
                      /\ ~(marks[k].stage = "pinctrl" /\ Mark("BYPASS", "ok") \in ToSet(marks))}
  OBVIOUS
<1>3. Blamed(marks) = IF I # {} THEN Min(I) ELSE 0
  BY <1>2 DEF Blamed, SelectInSeq
<1>4. DOMAIN marks = 1 .. Len(marks) /\ i \in 1 .. Len(marks)
  OBVIOUS
<1>5. i \in I /\ I \subseteq 1 .. Len(marks) /\ \A k \in I : k \in DOMAIN marks /\ Blames(marks, k)
  BY <1>1, <1>2, <1>4 DEF Blames
<1>6. \A k \in I : i <= k
  BY <1>1, <1>4, <1>5
<1>7. Min(I) = i
  <2>1. \A k \in I : k \in Int
    BY <1>5
  <2>2. \E x \in I : \A y \in I : x =< y
    BY <1>5, <1>6
  <2>3. Min(I) \in I /\ \A y \in I : Min(I) =< y
    BY <2>2 DEF Min
  <2> QED
    BY <1>5, <1>6, <2>1, <2>3
<1> QED
  BY <1>1, <1>3, <1>4, <1>5, <1>7

(* Once the host's probe or the scan has failed, by any of its calls with  *)
(* or without a mark, the first bad result in its log that is neither the  *)
(* reset's nor one the bridge passed over names the call that did, or the  *)
(* function that made it when the call has no mark, whatever else is       *)
(* marked on the way out.                                                  *)
THEOREM FailureIsNamed == Spec => []FailureNamed
<1>1. Init => BlameInv
  <2> SUFFICES ASSUME Init PROVE BlameInv
    OBVIOUS
  <2>1. /\ \A t \in Threads : run[t] = Idle
        /\ \A p \in {"probe", "scan"} : trail[p] = <<>> /\ failed[p] = ""
    BY DEF Init
  <2>2. Host # Nobody /\ "scan" \in Threads /\ Probers \subseteq Threads
    BY BringupAssumption DEF Devices, Threads
  <2>3. ProbeBlame /\ ScanBlame
    BY <2>1, EmptyUnblamed DEF ProbeBlame, ScanBlame
  <2>4. HostWork /\ ScanWork
    BY <2>1, <2>2, IdleType DEF HostWork, ScanWork
  <2> QED
    BY <2>3, <2>4 DEF BlameInv
<1>2. WInv /\ ResetInv /\ ScanInv /\ BlameInv /\ [Next]_vars => BlameInv'
  BY NextBlame DEF ResetInv
<1>3. TrailTypes /\ BlameInv => FailureNamed
  <2> SUFFICES ASSUME TrailTypes, BlameInv PROVE FailureNamed
    OBVIOUS
  <2>1. trail["probe"] \in Seq(MarkTypes) /\ trail["scan"] \in Seq(MarkTypes)
    BY DEF TrailTypes
  <2>2. ASSUME NEW p \in {"probe", "scan"}, failed[p] \notin Plain,
               FirstBad(trail[p], Culprit(failed[p]))
        PROVE  BlamesCall(trail[p], failed[p])
    <3>1. PICK i : i = Blamed(trail[p])
      OBVIOUS
    <3>2. i # 0 /\ trail[p][i].stage = Culprit(failed[p])
      BY <2>1, <2>2, <3>1, BlamedIs
    <3>3. failed[p] \in Suspects(Culprit(failed[p]))
      <4>1. CASE failed[p] \in Unmarked
        BY <4>1, UnmarkedUnwind
      <4>2. CASE failed[p] \notin Unmarked
        BY <2>2, <4>2, MarkedCulprit
      <4> QED
        BY <4>1, <4>2
    <3> QED
      BY <3>1, <3>2, <3>3 DEF BlamesCall
  <2>3. (failed["probe"] # "" /\ \A u \in Probers : run[u].dev # Host) =>
          BlamesCall(trail["probe"], failed["probe"])
    BY <2>2 DEF BlameInv, ProbeBlame
  <2>4. (failed["scan"] # "" /\ run["scan"].todo = <<>>) =>
          BlamesCall(trail["scan"], failed["scan"])
    <3>1. \A s \in Unmarked : Unwind(s) # <<>>
      BY UnmarkedUnwind
    <3> QED
      BY <2>2, <3>1 DEF BlameInv, ScanBlame
  <2> QED
    BY <2>3, <2>4 DEF FailureNamed
<1>4. ResetInv => TrailTypes
  BY DEF ResetInv
<1> QED
  BY <1>1, <1>2, <1>3, <1>4, WInvInvariant, ResetInvInvariant, ScanInvInvariant, PTL DEF Spec

==============================================================================
