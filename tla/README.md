# Mangrove Kernel: a verification project

The repository builds kernels for the Samsung Galaxy A52 5G: the vendor 4.19
tree with SukiSU and SUSFS, and a GKI 5.10 bring-up.  Its product is not a
daemon but *code put into other code*: shell and Python scripts patch a pinned
kernel tree, build it, audit the result and package it.  What runs
concurrently, crashes and has to be diagnosed afterwards is the code the
scripts insert (C text inside Python strings), the stress program booted under
QEMU, and the host script around it.  Those models therefore follow the inserted
code.  Two more follow the scripts themselves where *they* are stateful: the
porting scripts, which edit a tree step by step and are made to be run again,
and the boot image's way to the device.  Where it calls into the kernel that is not in the repository
(`persistent_ram_write`, `waitpid`, the boot loader), the behaviour is modelled
from how the inserted code uses it and marked external in `PROJECT.json`.

## 1. Inventory

Line references are to `src/`.  "State" is what outlives one call.

| component | state | operations | interacts through | what is hard | what makes it correct |
|---|---|---|---|---|---|
| **Persistent zone** (`scripts/82`, kernel `ram_core.c`) | header (start, size) and ring in uncached DRAM | create with zap, write, read back after a reset | DRAM survives a reset | three unlocked writers; header advanced before the copy; reset between any two steps; ring wrap and laps | the header is always one the next boot accepts; only cells in flight can be torn |
| **Boot recorder** (`scripts/82, 83, 91, 92, 93`) | `a52_diag_prz`, console registered, first-IRQ flag | marks around initcalls and statements, mirrored console, first IRQ, PID 1's exit, panic | the zone | resets inside an initcall; console text shares the ring; creation may fail | the log names the running initcall; three copies survive what one does not; no mark ever blocks the boot |
| **Recovery exporters** (`scripts/90, 390`) | snapshot, error, misc device | snapshot at `pure_initcall`, `open`, `read`, `llseek` | DRAM range, user space | drivers reuse the range; every allocation or copy may fail | what is served is what the reset left, each byte once |
| **Crash diagnosis** (recorder and exporters together) | the DRAM range | boot, crash, recovery, dump | DRAM | recovery restarted; stale log of an earlier boot | the dump names the initcall of the boot that crashed |
| **printk mirrors** (`scripts/93`, `a52_diag94_printk.py`) | message counter | test, increment, one or three lines | the zone | counter tested and incremented with no lock | no message turned away early, admitted ones complete |
| **QEMU stress run** (`tests/qemu/full_stack_stress.c`, `scripts/11`) | guest: workers, failures, stop flag; host: serial log, exit status | fork, loop, reap, report; timeout, verdict | serial console, exit status | workers that hang or die, signals, kernel reports after the marker | a pass means every worker ended with 0, at the deadline unless it or PID 1 was signalled, with no listed complaint and no panic; there is always a verdict |
| **UFS live trace** (`scripts/94`, `a52_diag94_*`) | per-file counters, delayed work | snapshots in rounds, probe trace | the zone | delayed work against the boot thread | rounds end; the summary is the last |
| **Probe and deferral bridges** (`scripts/94b, 95`) | driver core's deferred list | probe, `-EPROBE_DEFER`, retry | driver core | mutual deferral | nobody defers for ever |
| **SELinux policy update** (`scripts/07_*sepolicy*`, `07_fix_*rcu_deadlock*`) | live policydb, `policy_rwlock`, AVC | read decision, in-place rule update, AVC reset | lock, RCU | waiting for readers inside a read section; atomicity of an update | no self-deadlock; no reader sees half a rule; no stale AVC entry for ever |
| **GKI porting jobs** (`scripts/53` to `68`, their workflows) | GKI checkout, index, patch, status file, report | copy, adapt, edit, walk include graphs, `git add -N`, `git diff`, probe, report, enforce | the checkout, the downstream tree | kills in the middle of a write, reruns in place, circular includes, a file outside the index | a rerun makes what one pass makes; the patch is the whole difference; the report has every probe once |
| **Boot image tools** (`scripts/37, 38, 39, 76`) | output file, package, boot partition | validate, parse, lay out, write, audit, package, install | files, the partition | page rounding at boundaries; a killed write; `dd` failing half-way | the boot loader finds every part; success means a whole image |
| **Staging protocol** (all `*_stage_*`) | the patched tree | anchored replacement, marker, write | the tree | rerun on a half-patched tree | an edit is made once or refused |
| **Watchdog hand-over** (`scripts/75`) | hardware running or not | take over from firmware, feed | firmware | gap in which nobody feeds | no bite while the kernel boots (not modelled) |
| SukiSU, SUSFS, stable updates, BPF repair, bisect builders, base builds, other workflows | files | patch, build, audit, select commits | the tree | sequential file processing | not modelled: section 6 |

## 2. Modules

| module | models | role |
|---|---|---|
| `PersistentRam` | the zone's header and ring as operators on a record | pure operators |
| `BoundedLog` | what the zone promises: a log of numbered cells that keeps the newest ones and is owed those in flight; no ring, no header, no slots | **abstract specification** of the zone |
| `DiagZone` | three writers of one zone; resets | implements `BoundedLog`; itself the **abstract specification** of everything that writes to the zone |
| `BootScript` | the boot thread's instrumented program, built from the same helpers the scripts use (`triplet`, `mark_statement`, the list of finalisers) | pure operators |
| `BootRecorder` | a diagnostic boot: the boot thread interprets `BootScript`; console, first IRQ, reset, next boot | implements `DiagZone` |
| `RecoveryExporter` | both exporters, the recovery's drivers, a reader | component |
| `CrashDiagnosis` | `BootRecorder` and an instance of `RecoveryExporter` over the same DRAM | composition |
| `KmsgMirror` | the two capped mirrors | component |
| `PolicyLock` | the live policy database, its lock, RCU readers, the AVC | component |
| `StorageBringup` | the UFS host, its providers, the asynchronous scan, the live trace | component |
| `StressGuest` | PID 1, workers, guest kernel, QEMU, host script | component |
| `StagedTree` | a kernel tree as a function from paths to texts, and the edits the scripts are made of: anchored, appended once, merged, adapted | pure operators |
| `PortPhases`, `PortWorkflows` | scripts 53 to 68 as programs of steps; which of them a workflow stages, what it probes and counts | pure operators |
| `PortOutcome` | the tree one uninterrupted pass makes, with reachability instead of queues | **reference definition** |
| `PortJob` | a job that interprets the programs; kills, clean checkouts, reruns in place | component |
| `BootImage` | parser, page arithmetic and writer of scripts 38 and 76, and the image as a boot loader reads it | pure operators, **reference definition** |
| `BootRepack` | validation, repack, audit, output, package, installer, `dd`, power cuts | component |
| `CrashDiagnosis_proofs` | theorems about `DiagZone`, `BootRecorder` and `CrashDiagnosis`, each layer resting on the one below | proofs |
| `RecoveryExporter_proofs`, `KmsgMirror_proofs`, `PolicyLock_proofs`, `StorageBringup_proofs`, `StressGuest_proofs`, `PortJob_proofs`, `BootRepack_proofs` | theorems about one component each | proofs |
| `MC*` | constants for TLC | runs |

How state maps to the code:

- `zone.start`, `zone.size` are the zone's header, `zone.data` its bytes, cut
  into cells of a fixed size.  A cell remembers which line it belongs to, which
  part it is and its serial number `off`, so that "old bytes", "half a line" and
  "the wrong line" are distinguishable.  `Announce`, `Claim`, `StoreCell` are
  the three steps of `persistent_ram_write`: size, start, bytes.
- `w[x]` is the write a context is in the middle of.  It is not erased by a
  reset: afterwards it says what was torn, which only properties read.
- `boot` is the boot thread's place in its program, `console` whether the
  registered console was selected, `firstIrq` the `atomic_cmpxchg` flag.
- `snapshot`, `error`, `node`, `file` are the exporters' static variables, the
  misc device and the reader's `struct file`s.
- `thread[t].loaded` in `KmsgMirror` is the register between the load and the
  store of `count++`.
- `history` variables (`total`, `late`, `recent`, `entered`, `frozen`, `got`,
  `sought`, `admitted`, `refused`, `early`, `signalled`) are named as such where
  they are declared; no guard of a code action reads one, except the model's
  bounds (`MaxTotal`).

Abstractions to know about:

- A panic outside the boot thread is a `Reset`; a panic of the boot thread runs
  the instrumented `panic()` first.
- Stage 83 executes a script downloaded at run time.  What its workflow looks for
  in the result is modelled: the zone is created at the head of the program
  instead of after `driver_init()`, and `start_kernel`'s START and REST marks come
  before the initcalls (`StartKernel`).  Its fallback writer, for marks before the
  zone exists, is not.
- `CreateFails` jumps over READY, `register_console` and CONSOLE, as the early
  return does.
- PID 1 of this build is the single-threaded first-stage init, so
  `do_group_exit` leads to `do_exit` and to the global-init panic.
- The header is advanced before the bytes are copied.  A reset in between
  leaves old bytes at the *end* of the log, where they decode as a line.
  Properties about the log therefore leave out the slots in `Torn`, and say so.
- In the stress guest time is four ticks, and an iteration's body only ends
  well, fails, is killed or hangs.

## 3. Runs

Every `cfg` names its bounds; the state counts are TLC's.

| run | bounds | checks | shows |
|---|---|---|---|
| `boot_initcalls` | ring of 5 cells, marks of 2, one early and two normal initcalls on two levels, one console text, the first-IRQ line | `HeaderSurvives TornOnlyInFlight ClaimsDisjoint LogNamesInitcall ZoneSpec KeepsBoundedLog` | every interleaving of three writers with resets: the zone is sound, the initcall trace names the running initcall and no other, a log reads in the order of writing, and the boot implements `DiagZone` and `BoundedLog` |
| `last_marker` | ring of 4, two texts | `LastMarkerIdentifiesInitcall` **violated** | finding 1 |
| `exporter` | two ranges of 3 cells, files, seeks to 0, 1, 3 and past the end | `ServedFaithfully ReadCompletes` | every failure of the exporters, and a reader that goes on after a fault |
| `crash_diagnosis` | ring of 3, `FailingBoots` = 2 failing boots before a recovery is started, drivers reuse the second cell, the log an older boot left is the empty one | `DumpNamesInitcall DumpIsOfLastBoot` | 5 million states: end to end |
| `flight_recorder` | the flight recorder's program with an early and a normal initcall and a finaliser, marks of 1 cell, ring of 5, text of 2, one boot, one recovery that reads cell by cell | `TripletSurvives DumpKeepsTriplet BootNeverBlocked` | nearly 7 million states: up to PID 1's exit and the panic, a milestone survives in the ring and in the dump although the ring wrapped and a late writer spoilt a copy; liveness |
| `mirror_93` | 2 threads, cap 2, 3 copies, 3 messages each | `RefusedOnlyAfterCap MirroredInFull` | what the racy counter guarantees all the same |
| `mirror_fatal_93` | 1 thread, cap 2 | `FatalExplanationPreserved` **violated** | finding 2 |
| `policy_lock` | 2 updaters, 1 lookup in a thread or a softirq, 3 jobs, 3 updates | `NamesFound UpdatesAtomic NeverSleepsAtomic TypeArraysSound CacheCurrent UpdatesReturn` | the policy update (section 7) |
| `storage_bringup` | 4 providers, the pin controller optional, 3 disks, listings of 2 entries, 1 other device | `ListingsTrue SnapshotsInOrder FailureNamed ResetDoneOrMarked BoundMeansReady FourSnapshots HostSettles` | the storage bring-up (section 8) |
| `stress_verdict` | 3 workers, deadline, alarm and timeout one tick apart | `VerdictTrue HostDecides` | what a pass verdict means, and that there is always a verdict |
| `port_job` | 16 workflows, 3 downstream trees, 2 passes | `PatchSound RefusedOnlyForCause Converged EveryProbeOnce CountsAddUp PassEnds` | the porting jobs (section 9) |
| `boot_repack` | pages of 4 and 8 cells, parts of 0 to 25 cells, partition of 36, 2 repacks | `LoaderFindsParts AuditPasses OnlyGrowthRefused SuccessMeansWhole` | the boot image's way to the device (section 10) |

Some properties are conjunctions of named parts that answer one question; the
parts are defined beside them.  `HeaderSurvives` joins `ZoneTypeOK` and
`ValidHeader`; `KeepsBoundedLog` the refinement and `ReadInOrder`;
`MirroredInFull` joins `TypeOK` and `CopiesInFull`; `LogNamesInitcall` is `RunningInitcallNamed` and
its converse `NamedInitcallWasRunning`; `ServedFaithfully` joins the exporter's
types, `SnapshotFrozen` and `ReadsContiguous`; `NamesFound` joins `TypeOK`,
`LookupFindsType` and `TransitionsFound`; `ListingsTrue` joins `TypeOK`,
`DisksListed` and `DisksNeedDriver`; `VerdictTrue` joins `TypeOK`,
`PassMeansNoFailure`, `PassMeansFullRun` and `FailuresCounted`; `PatchSound`
joins `PortTypeOK` and `PatchComplete`; `Converged` joins `TreeConverges` and `GkiKept`.

Why the bounds are enough.  The ring arithmetic has one boundary, the wrap, and
the rings are a cell or two longer than the longest line, so every write wraps
in some behaviour and writers are lapped with few claims.  Three writers are the
contexts of stages 82 and 91 (boot thread, console, first interrupt) and a bound:
the marks of stage 83 are the boot thread's, but the mirrors of stages 93 and 94
run on any CPU and a UFS probe, its scan and its delayed work mark the same zone
from workqueues.  What goes wrong between writers (a lap, an advance between
another's two updates, a late store) takes two of them, and a line spoilt in two
copies three; the theorems are for three as well.  Two races of the counter need two threads; three workers let
PID 1 wait for one while another has ended and a third is not yet forked.

Deadlock is checked where the system cannot stop.  It is switched off
(`CHECK_DEADLOCK FALSE`) where it really does: a device that stays off, a guest
that has a verdict, threads that have printed all their messages, a job whose
last pass has ended, an installed image.

Fairness.
- `BootNeverBlocked` assumes `WF(BootThread)`: statements of the kernel end (by
  returning or by panicking) and some CPU executes the boot thread.  *Nothing*
  is assumed of the other writers, which is the point: they may stop in the
  middle of their writes.
- `ReadCompletes` assumes `WF` of the reader's own successful reads: a fault is
  not permanent and the reader goes on.
- `UpdatesReturn` assumes `SF` of each updater's steps and `WF` of the lookup's,
  and excepts a deadlock the code leaves open (section 7).
- `FourSnapshots` and `HostSettles` assume `WF` of the boot thread, the
  deferred-probe worker, the scan, the snapshots and the delayed work: calls
  return and works that are queued run.  Nothing is assumed of disks or of other
  devices.
- `PassEnds` assumes `WF` of the staging steps together and of the shell's steps
  together: a runner that has not killed a job keeps executing it.  Kills may
  happen or not.
- `HostDecides` assumes that time passes and that the host script and
  `timeout(1)` run; the guest may hang altogether.

## 4. Findings

1. *The last marker does not always identify the initcall* (`last_marker`).
   Workflow 82 reports that it does.  `a52_diag_console_write` has no cap and
   shares the ring, so text printed during the initcall can evict its BEGIN.
2. *The fatal message may be the one that is dropped* (`mirror_fatal_93`).
   Stage 93 keeps the first 32 messages of PID 1; the one that explains its
   exit is the last.

An observation that is no finding, since nothing promises otherwise: the test of
the mirrors' cap and its increment are separate and unlocked, so two threads may
both pass at the last place and one message more than the cap is mirrored.

## 5. What is proved

Every theorem holds for all values of the constants that satisfy the modules'
named assumptions.  Besides types and positive sizes these say:

| assumption | what the code gives |
|---|---|
| `StaleAssumption` (`DiagZone`) | the value a ring has where nothing was written is no cell of a line: the zap writes zeroes |
| `ScriptAssumption` (`BootScript`) | the initcall tables and the list of finalisers are sequences, and no initcall is one of the other statements the boot runs |
| `LinesAssumption` (`BootRecorder`) | the lines of the program are among `Lines` |
| `DiagnosisAssumption` (`CrashDiagnosis`), `ExporterAssumption`, `DramAssumption` (`RecoveryExporter`) | the exporters serve a range of fixed size; what drivers reuse of it lies inside |
| `BringupAssumption` (`StorageBringup`) | the host is no provider, there are finitely many providers, the pin controller is not among the host's other needs |
| `SourceAssumption` (`BootRepack`) | an image with the lock's digests and a valid header consists of the parts it was made of |
| `WorkflowsAssumption` (`PortJob`) | a workflow that is run has scripts and a report |

**The crash diagnosis path** (`CrashDiagnosis_proofs`), in seven layers.

1. *Zone*, for every ring size, line length and interleaving of three writers.
   `HeaderSurvives` is not inductive: between `buffer_size_add` and
   `buffer_start_add` the header is ahead of itself.  `HeaderAccounts` adds that,
   until the ring is full, size exceeds start by exactly the cells announced and
   not yet claimed.  `ClaimsAlwaysDisjoint` and `OnlyInFlightTorn` speak of
   slots, which repeat with every lap.  `RingInv` numbers the cells instead:
   claims of different writers are disjoint intervals of serial numbers below
   `total` (`Apart`), a slot belongs to the newest number claimed for it, and
   that cell is there, in flight, or was overwritten by a lapped writer
   (`NewestKept`).
2. *Boot*.  `BootImplementsZone`: `Spec => ZoneSpec`, action by action and for
   every program, so that `BootHeaderSurvives` and `BootTearsOnlyInFlight` follow.
3. *Program*.  Whatever the initcall table: each initcall stands between its
   BEGIN and its END line, and those lines stand nowhere else; a line of a
   triplet stands behind its earlier copies and in front of its later ones; and
   what a failed creation skips ends in the CONSOLE line (`WellMarked`).
   The program is made by flattening lists of lists; its induction goes over the
   library's well-founded order on `Nat`, through the least element of the set of
   counterexamples.
4. *Promise*.  `ZoneImplementsLog`: `DiagZone` implements `BoundedLog`, where
   `next` is `total`, `owed` the cells the copy loops have still to store, and
   `kept` the cells a reader finds in the log that no lap has passed.  `Announce`,
   which only moves the header, stutters; `Claim` reserves; `StoreCell` delivers
   one cell, and one that a lapped writer stores late costs the log at most one
   cell.  The argument rests on `CellInv` (the cell numbered `o` is the part of
   the line that its claimer announced) and on `KeptInRing`: what the log keeps
   is what lies in the slots and was not lapped, since by `HeaderAccounts` the
   slots the header covers are exactly those of the newest numbers.
   `AlwaysReadInOrder` is the other half, the order.  `BootImplementsLog` and
   `PathImplementsLog` carry both to the boot and to the whole path.
5. *Boot's log*.  `LogInv` says what the initcall
   lines among them say of the boot thread: inside an initcall, its BEGIN line
   lies whole with no initcall line after it; and a BEGIN line in the ring is
   that one, or is followed by another initcall line.  From these, what `LastInitcallMark` decodes,
   a search backwards over slots with some left out, is that line:
   `LogAlwaysNamesInitcall`, both directions.
6. *Triplets*.  `TripletInv` adds to `LogInv` that a later copy is next only
   right behind the one before it (`CopyBehind`), that the copies claimed so far
   are the latest entries of `recent` (`CopiesClaimed`), and that those entries
   lie in the ring whole and apart, but for the one being written
   (`RecentWhole`).  Past the triplet all three are whole and none is lapped; a
   cell of a copy that is missing was then stored over late (`SpoiltLate`), and
   three spoilt copies make three late slots: `TripletAlwaysSurvives`.
7. *System*.  `SystemInv` adds that the first recovery after a reset has the ring
   of that reset frozen in its DRAM range, and the exporter's own invariant, taken
   over from `RecoveryExporter_proofs` by `INSTANCE`.  `DumpAlwaysNames` and
   `DumpAlwaysOfLastBoot`: what a reader gets names the initcall the boot died in
   and none of an older boot.  `PathImplementsZone`: on the whole path the zone
   still sees only its writers, its creation and the reset.
   `DumpAlwaysKeepsTriplet` takes a surviving copy (`PathTriplets`) to the place
   in the dump where a reader finds it: each of its cells is the newest of its
   slot, so the log shows it at that number's place (`ShownInLog`), and a slot
   that was stored late holds what was stored and not the zap's zero
   (`LateStored`).

**Exporters** (`RecoveryExporter_proofs`).  `AlwaysServedFaithfully`.  `ServeInv`
adds to the property that ranges are copied before anybody else writes to them,
that a file is open only over a snapshot, and that the bytes a reader has are the
prefix its file position says.

**printk mirrors** (`KmsgMirror_proofs`).  `CountNeverAhead`,
`RefusalsAfterCap`: lost updates only make the counter too small.
`AdmittedInFull`: `CopiesCounted` ties each message's rows in the mirror to the
copy its thread is at, so the threads' interleaving does not matter.

**Policy update** (`PolicyLock_proofs`): section 7.
**Storage bring-up** (`StorageBringup_proofs`): section 8.
**Porting jobs** (`PortJob_proofs`): section 9.
**Boot image** (`BootRepack_proofs`): section 10.

**Stress run** (`StressGuest_proofs`).  `VerdictAlwaysTrue`.  `GuestInv` follows
PID 1: workers are forked and reaped in order, `failures` is the number of those
not forked or reaped and found failed, and a worker that ended with 0 before
the deadline was sent a signal itself or forked after PID 1 was: it inherits PID 1's
handlers, sets its own `stop_requested` and exits 0.  So a pass does *not* mean
that every worker ran to the deadline.  It means that each one ended with 0, that
those which stopped short were told to, and (`PanicLogged`, with a panic's line in
the list the host greps for) that the guest powered itself off rather than
panicked, although both end QEMU with 0.  A complaint of the guest kernel outside
that list is only counted in the report, as `kernel_diagnostic_matches`, of a run
that may pass; the model has both kinds and the property claims nothing of it.

*Only model-checked.*
- All liveness (`BootNeverBlocked`, `ReadCompletes`, `HostDecides`,
  `UpdatesReturn`, `FourSnapshots`, `HostSettles`, `PassEnds`): out of the
  prover's reach.
- `RefusedOnlyForCause` and `Converged` of `PortJob`.  They compare a tree with
  folds over a script's edits (`FoldLeft`) and with a closure counted up step by
  step (`Reach`), which takes an induction over data; and `RefusedOnlyForCause`
  holds only of trees in which the scripts find the shapes they were written for.

## 6. Not modelled, and why

- The text of lines, formats, `dev_name`s: no property is about them.
- What a stress worker does to the guest kernel in an iteration; a QEMU that
  survives the SIGTERM of `timeout(1)`, which is given no `--kill-after`.
- Page sizes below the size of the header a boot image's parser reads.
- Write-back to the device: a chunk `dd` has written counts as durable, and
  `SuccessMeansWhole` says nothing of a device that loses what `conv=fsync` and
  `sync` of the installer have handed to it.
- A `.git/index.lock` left by a killed `git add -N`, which makes the next one fail
  until somebody removes it.
- *SukiSU and SUSFS integration.*  One pass of text transformations over a
  pinned driver, or over the rejects of a patch that is downloaded; the code that
  runs is not in the repository.  What the scripts put *in* of their own, the
  policy update, is `PolicyLock`.
- *Stable updates, BPF repair, bisect builders, base builds.*  Each applies a
  fixed list of commits or patches to a fresh clone in one pass and builds.  No
  state survives between two builders; the bisection itself is done by people.
- *Watchdog hand-over.*  One call and one bit in the driver's probe; the deadline
  is the firmware's and the pinging the watchdog core's, neither of them here.
- *Early ramoops (stage 79).*  Superseded by stage 82.
- *Comparison and seed scripts 50 to 52 and 63.*  They read trees and write
  tables.
- *What the ported drivers do on the device.*  `PortJob` is about the edits, not
  about the edited code.

## 7. The policy update

Stage 07's scripts replace SukiSU's copy-and-publish of the SELinux policy,
which does not exist on 4.19, by updates in place, and a later fix replaces the
RCU read section around them (in which `synchronize_rcu` waited for itself) by
`policy_rwlock`.  `PolicyLock` follows the code after both.

| model | code |
|---|---|
| `db.value`, `db.nprim` | `p_types.table` and `p_types.nprim` |
| `db.attr`, `db.struct`, `db.name` | `type_attr_map_array`, `type_val_to_struct_array`, `sym_val_to_name[SYM_TYPES]`, each reallocated, copied and replaced on its own |
| `db.allow` | the access vector table |
| `db.trans`, `db.ttypes` | the filename transition table and the bitmap a lookup tests before it |
| `update[u]` | the local state of `apply_kernelsu_rules` or `handle_sepolicy`: place, commands left, value taken, readers `synchronize_rcu` waits for |
| `lookup[l]` | a call of `avc_has_perm`, in a thread or, with `on = u`, in a softirq on updater `u`'s CPU: search, miss, compute under the read lock, insert |

*Bounds.*  Two updaters and one lookup; the jobs are boot's rules (a new type
and an allow rule), a batch that adds another type and a transition, and a batch
whose second command is malformed; three updates in all.  1.0 million states:
two updates of one type collide, a failed allocation leaves a gap the next type
must step over, and a lookup spans a whole update.

*Fairness, and a deadlock.*  `write_lock()` (`07_fix_sukisu_4.19_selinux_rcu_deadlock.sh:59,95`)
disables preemption but neither interrupts nor softirqs.  A softirq may therefore
interrupt an updater that holds `policy_rwlock`, miss the AVC and spin in
`read_lock()` over the very CPU that would have to release the lock: for ever
(`HolderSpunOver`).  The model reaches this, and `UpdatesReturn` excepts it and
nothing else: every update returns unless some softirq spins over a holder.
Updaters have strong fairness: a softirq suspends its updater, and readers in
softirqs pass a waiting writer of the kernel's queued rwlock (readers in threads
wait behind it: `ReadLock`), but neither goes on endlessly.  Lookups have weak
fairness.

*Properties.*  `UpdatesAtomic` and `NeverSleepsAtomic`
state the discipline; `TypeArraysSound` what an update leaves, whatever
allocation failed; `LookupFindsType` and `TransitionsFound` what a reader gets;
`CacheCurrent` that a cached decision is the policy's.  `CacheCurrent` has an
exception the code has: a lookup that read the policy before a reset and inserts
its answer after it leaves a stale entry until the next reset.  What
`reset_avc_cache` does beyond emptying the cache and waiting for readers is not
in this repository, so nothing stronger is claimed.

*Proof.*  `IInv` is the conjunction of `LockTypes` (types of the lock and the
threads), `OneWriter` (who mutates holds the lock), `ReadersExcluded`,
`CommandsClean` (a validated batch stays free of malformed commands) and
`CommandInHand` (who grows the arrays still has its `type` command in front).
Neither discipline property is inductive alone: each is about where
threads are, and only `OneWriter` ties that to the lock.  `ArraysAlwaysSound`
needs `ArraysInv` on top: outside the growth the arrays agree (`Settled`), and
inside it `Replacing` says which of the three are already the grown copy; the
name array is the last, so the command's end is where they agree again.
`NamesAlwaysFound` and `CacheAlwaysCurrent` add `SearchInv`, which is about the
lookups: what one has read under the lock is the policy's as long as it holds
the lock, and what it carries out of it is the policy's or an updater is still
to reset the cache.  `UpdatesReturn` is model-checked only.

## 8. The storage bring-up

Stage 94 puts marks around most calls of the UFS probe and of its asynchronous
scan and adds a live trace; stages 94b and 95 bridge what the device tree of the
vendor kernel and the 5.10 drivers disagree on.  In `StorageBringup`:

| model | code |
|---|---|
| `run[t].todo` | what is left of a probe (`ufs_qcom_probe` down to `ufshcd_init`) or of `ufshcd_async_scan`, as the marks it has still to pass |
| `Unmarked`, `Deferring` | calls between two marks that can fail; calls that defer for a provider: pins, DMA/IOMMU, clock defaults, power domains, the interrupt, clocks and supplies |
| `run[t].ret` | `err` on its way out; `Unwind` gives the marks of the error labels and callers |
| `trail` | the marks of the host's last probe and of the scan |
| `dd` | the driver core: `dev->driver`, bound devices, the two deferral lists, the trigger count (external) |
| `snap[c]`, `scans` | a running `a52_ufs_snapshot` with its two counting contexts; `a52_scan_id` |
| `round`, `timer` | `a52_delayed_round` and the delayed work |

*Bounds.*  Four providers: the resource controller, the clocks that need it, the
IOMMU, and the pin controller, which may have no driver at all; every call may
fail, marked or not; three disks against listings of two entries; one trigger from
elsewhere.  644 thousand states.

*Properties.*  `FailureNamed`: what the first bad result in the log says of a
failed probe or scan, past a bridged pinctrl deferral and an ignored device reset.
If the call has a mark, it names it.  Six calls have none: the clock defaults and
power domains the bus attaches before `PROBE_BEGIN`, the error-handling workqueue
and the request queues of `ufshcd_init`, the well-known units and devfreq.  Then
the first bad result is that of the enclosing return (`bus_probe_end`,
`init_fail`, `add_lus`), which these calls share in pairs: the log narrows the
failure down to `Suspects` and no further.
`BoundMeansReady` and `HostSettles` bound the bridge from both sides: it passes
over the deferral of the generic pins and over no other.  `ResetDoneOrMarked`: a
controller enabled with a device that was not reset says so.  `SnapshotsInOrder`,
`FourSnapshots`: the delayed work, its order and its labels.  `DisksListed`,
`DisksNeedDriver`: what a listing lets a reader conclude.

Not a property: the `defer=` field of a snapshot.  It prints what
`driver_deferred_probe_check_state` returns, which depends on how far the boot
is and not on the device.

*Proof.*  For any providers, disks and listing length.
- `SnapshotsOrdered` needs `InPhase`, which ties the timer, the round and the
  reports to the boot thread's place: nothing is scheduled until the late-init
  snapshot has ended, and from then on either the timer runs or the work's
  snapshot does, with `now + timer` never before the next label's time.
- The others rest on `WInv`: a device is on at most one list of the driver core,
  a device being probed is on none and has one prober, and a probe goes only
  through stages of its own program.
- `BoundIsReady` adds `PassedIsReady`: a probe that goes on and has not yet to
  ask for its providers has found them bound; nothing bound is ever unbound.
- `ResetIsDoneOrMarked` adds `ResetAhead`: whoever has the enabling ahead has
  the reset ahead too or left its mark.
- `ListingsAreTrue` adds that a scan is scheduled by a probe with nothing left
  that can fail (`ScanInv`), so that the host keeps its driver, and what a
  snapshot under way has listed (`Listings`).
- `FailureIsNamed` adds `BlameInv`: no bad mark before a call fails; once a marked
  call has failed the first bad mark is its own, and once an unmarked one has, no
  bad mark is there until that of the enclosing return, which is the next one.

## 9. The porting jobs

Workflows 53 to 68 port the vendor kernel's Lagoon drivers to GKI 5.10.  A job
checks GKI out clean, runs a chain of scripts, each of which copies downstream
files, adapts them and edits GKI's Makefiles, Kconfigs and drivers, writes the
difference as a patch, compiles its probes one after another and publishes a
report counted from a status file.

| model | code |
|---|---|
| `tree`, `intent` | the checkout, and what `git add -N` has told the index |
| a text | a sequence of parts `<<who wrote it, what it is>>`: only markers, anchors, definitions and features the scripts look for are told apart |
| `PortPhases`, `PortWorkflows` | the scripts' own lists of files, edits and probes, in their order |
| `job` | the step of the program, or the place in the workflow's shell |
| `walk` | the queue and the sets of the walks of scripts 56 and 66; the queue is a set, visited in any order |
| `missing`, `status`, `report` | `probe-plan.tsv`, the status file, the report's counts |
| `Kill` | a cancelled or timed-out job, also after `write_text` has truncated its file |
| `Checkout`, `Rerun` | the next pass, from a clean checkout or in the tree as it is |

`strays` and `torn` are histories, read by properties only.

*Bounds.*  All sixteen workflows, over a complete downstream tree and two that
the scripts must refuse; the trees hold every anchor and feature the scripts
look for, an include graph with a circle, a file GKI has as well, a binding
header to merge, one to copy, and names nobody has.  Two passes, the first
killed at any step: what a second pass does with what the first one left is the
question, and a third sees no other kind of tree.  152 thousand states.

*Properties.*  `Converged`: whatever was interrupted, the tree that is compiled
is `Outcome`, the tree of one clean pass.  It excludes what the code cannot
repair: a GKI file emptied by a kill, and (`strays`) a header an interrupted walk
copied, that was not yet in the index, and that no step of the scripts names to
it: the next walk takes it for GKI's own.  A header the scripts copy by name, as 53 copies
`gcc-lagoon.h` first and indexes it last, is copied again and is no stray.  The
comparison is file by file: an unrepairable file excuses itself, and a stray the
headers that only it brings in, never the rest of the tree.  `GkiKept`: what GKI
says in a file stays in it.  `PatchSound`: the patch is the whole difference from GKI, but for strays
that no script names to the index.
`RefusedOnlyForCause`: a rerun gives up for no other reason than an emptied file
of GKI's or an emptied stray.  An emptied GKI file is an excuse here, not a thing the scripts
repair: it takes a clean checkout.
`EveryProbeOnce`, `CountsAddUp`: the report.  `PassEnds`: the walks end.

*Proof.*  `EveryProbeOnce` alone is not inductive: it speaks of the end of a job,
and whether a row is missing is decided while the probes run.  `JobInv` says that
while they run the status file holds the rows of exactly those that have run, in
order; that workflows with a single probe, which are the ones that do not begin
the file anew, hold either no row or the one; and that reports are made only of
whole files.  Staging and kills leave the status file alone.  A rerun
inherits a file of any length, which the first shell step clears.
`CountsAlwaysAddUp` adds `CountInv`: every row is of a kind its workflow's report
counts, a row says that a source is missing exactly where the plan did, and a
plan names no probe its workflow does not report on.  The last is read off the
staging programs (`OwnPlan`).  That the counts of a partition add up to the whole
is `RowsAddUp`, an induction over a finite set by a counterexample of least
cardinality.

`PatchAlwaysSound` is proved of any GKI tree, any downstream tree and any number
of passes, and rests on two things.  The first is a fact about the sixteen
programs (`Programs`): every file a step makes is named to the index by some step
(`Indexed`), a walk comes after its seed and before the step that indexes what it
staged (`Walks`), and the last step but for whitespace checks writes the whole
difference (`Ends`); the inventories and workflow 67, which make no file, are the
exceptions (`Few`).  The programs are joined from scripts, and so are these facts.
The second is `WholeInv`.  `TreeInv`: every file of the tree is GKI's, in the
index, named to it by some step, or of a walk.  `StageInv`: at step k what the
steps before k name is in the index (`Behind`), no walk has staged anything before
its seed (`Fresh`), the local walk has placed what it has seen and has seen or
will see what that names (`LocalWalk`), so that once its queue is empty it has
placed the closure of the root, whatever order it took.  That is why the files of
an interrupted walk of local includes are found again by the next one; a walk of
headers looks only for what the tree lacks and passes over what an interrupted one
left there: those are the strays.  `FewInv` speaks of the workflows that make no file.  At the last diff
nothing is left but GKI's files, the index and strays (`AllKnown`).

## 10. The boot image's way to the device

| model | code |
|---|---|
| `img.body` | the bytes behind the header page, cut into cells |
| `At`, `Parsed`, `ParseRefused` | `parse_boot` |
| `NewImage`, `Pad`, `AddComponent` | the writer of scripts 38 and 76 |
| `AuditFails` | the invariants the script checks on its output parsed again |
| `file`, `zip` | `boot.img` with the bytes that reached it, and the package |
| `inst`, `written`, `partition` | the installer's shell, `dd`'s progress, what each chunk of the partition belongs to |

Digests are modelled as what they digest.

*Bounds.*  Parts that end one cell before, on and one behind a page boundary,
empty parts, a recovery part with and without gap pages before it, a source that
is exactly full, one whose length is no multiple of a page, a kernel
of exactly one larger page; ten sources or inputs the scripts refuse; four
devices, three of which the installer must refuse.  Two repacks, the second into the place of the first.
58 thousand states.

*Properties.*  `LoaderFindsParts` compares the output with `LoaderFinds`, which
counts whole pages as a boot loader does and uses neither `Align` nor the
header's offset.  `AuditPasses`: the script's own audit never turns down what the
script made.  `OnlyGrowthRefused`: the size limit.  `SuccessMeansWhole`: what the
installer's success says of the partition, over power cuts and second attempts.

*Proof.*  `AuditNeverFails` rests on `RepackAssumption` (sizes are numbers, the
source fits the partition) and on `ParserAgrees`: for every page size and any
parts, the starts the parser computes are the writer's (`StartsArePages`,
`AlignIsLeast`, `AlignBehindPages`).  `ComponentAdded` says that appending a part
moves none that is there; `RepackInv` carries that through the loop: the first
`added` parts lie where they belong and the next one starts where the output
ends.  `SliceFinds` turns this into what the audit reads back.  `SuccessIsWhole`
needs `FlashInv`: what is packaged has the partition's length, the installer
writes what it extracted, and the chunks below `written` are that image's.
`LoaderAlwaysFinds` and `OnlyGrowthIsRefused` compare two ways of counting: the
writer's byte offsets and the loader's whole pages (`PagesFor`).  `LoadInv`
carries the loader's view over the file and the package.

## 11. What is left

- What a stress worker does in an iteration, with the guest's resources: a worker
  whose mounts or forks fail skips the exercise and still exits 0.
- The fw_devlink exemption of stage 94b, the SELinux type attributes and roles.

Theorems still worth proving: `RefusedOnlyForCause` and `Converged`
(section 5 says what stands in the way), and that the whole path also implements
`BootRecorder` and each recovery `RecoveryExporter`, under the mapping that takes a
recovery to a device that is off.  What one would use that for is proved
directly: the zone, the log, the triplets and the exporter keep their promises on
the whole path.
