------------------------------ MODULE BootScript ------------------------------
(***************************************************************************)
(* What the boot thread (kernel_init, later PID 1) executes once the       *)
(* staging scripts have instrumented the 5.10 tree: the statements the     *)
(* kernel already had, as Run operations, and the breadcrumb calls the     *)
(* scripts insert around them, as Mark operations.                         *)
(*   stage 82  fs/pstore/ram.c, init/main.c: zone creation and initcalls   *)
(*   stage 92  init/main.c, kernel/panic.c: the post-initcall recorder     *)
(*   stage 93  kernel/exit.c: the PID 1 exit trace                         *)
(*   stage 83  init/main.c: the zone at the head of start_kernel()         *)
(* The script stage 83 wraps is downloaded at run time: of its marks only  *)
(* those are here that the repository looks for in the instrumented tree.  *)
(***************************************************************************)
EXTENDS Integers, Sequences, SequencesExt

CONSTANTS
  EarlyInitcalls, (* Run before do_basic_setup (do_pre_smp_initcalls).      *)
  Initcalls,      (* One sequence of initcalls per level of do_initcalls.   *)
  Finalisers,     (* The kernel_init() statements stage 92 brackets.        *)
  InitPaths,      (* Init candidates, in the order kernel_init() tries them.*)
  EarlyCreate,    (* TRUE: stage 83's placement; FALSE: stage 82's.         *)
  FlightRecorder  (* TRUE: stages 92 and 93 are applied as well.            *)

InitcallNames ==
  ToSet(EarlyInitcalls) \cup UNION {ToSet(Initcalls[l]) : l \in DOMAIN Initcalls}

(* The statements of the kernel that the program runs besides initcalls.   *)
Statements ==
  { "init_IRQ", "driver_init", "init_irq_proc", "do_ctors", "usermodehelper_enable",
    "kunit_run_all_tests", "console_on_rootfs", "init_eaccess",
    "prepare_namespace", "integrity_load_keys", "kernel_execve", "userspace",
    "do_exit" } \cup ToSet(Finalisers)

(* Lists are lists, and no initcall is one of the other statements.        *)
ASSUME ScriptAssumption ==
  /\ EarlyInitcalls \in Seq(ToSet(EarlyInitcalls))
  /\ Initcalls \in Seq(ToSet(Initcalls))
  /\ \A l \in DOMAIN Initcalls : Initcalls[l] \in Seq(ToSet(Initcalls[l]))
  /\ Finalisers \in Seq(ToSet(Finalisers))
  /\ InitcallNames \cap Statements = {}

(* One breadcrumb: its tag, what it is about, and which copy it is.        *)
Line(tag, of, copy) == [tag |-> tag, of |-> of, copy |-> copy]

Mark(line)  == [op |-> "mark", line |-> line]
Run(f)      == [op |-> "run",  f |-> f]
Create      == [op |-> "create"]
Register    == [op |-> "register"]
Goto(segs)  == [op |-> "goto", to |-> segs]

Note(tag, of) == <<Mark(Line(tag, of, 1))>>

(* Mutant of Triplet: one copy.                                            *)
Single(tag, of) == IF FlightRecorder THEN Note(tag, of) ELSE <<>>

(* triplet(): the same line three times, only in the flight recorder build *)
Triplet(tag, of) ==
  IF FlightRecorder THEN [c \in 1..3 |-> Mark(Line(tag, of, c))] ELSE <<>>

(* mark_statement(): a statement bracketed by two triplets.                *)
Around(f) == Triplet("before", f) \o <<Run(f)>> \o Triplet("after", f)

(* The list stage 92 walks over kernel_init().                             *)
Stage92Finalisers ==
  << "async_synchronize_full", "kprobe_free_init_mem", "ftrace_free_init_mem",
     "kgdb_free_init_mem", "free_initmem", "mark_readonly", "pti_finalize",
     "system_state_running", "numa_default_policy", "rcu_end_inkernel_boot",
     "do_sysctl_args" >>

(* Mutant of DoOneInitcall: BEGIN after the call.                          *)
DoOneInitcallLateBegin(f) == <<Run(f)>> \o Note("BEGIN", f) \o Note("END", f)

(* do_one_initcall(): BEGIN before fn(), END after it returns.             *)
DoOneInitcall(f) == Note("BEGIN", f) \o <<Run(f)>> \o Note("END", f)

DoLevel(fs) == FlattenSeq([i \in DOMAIN fs |-> DoOneInitcall(fs[i])])

DoInitcalls ==
  FlattenSeq([l \in DOMAIN Initcalls |-> Note("LEVEL", l) \o DoLevel(Initcalls[l])])

(* a52_persistent_diag_init(): the zone, READY, the console, CONSOLE.      *)
DiagInit ==
  <<Create>> \o Note("READY", "zone") \o <<Register>> \o Note("CONSOLE", "zone")

(* start_kernel() from mm_init() on, and rest_init().                      *)
StartKernel ==
  DiagInit \o Note("START", "mm_init")
  \o << Run("init_IRQ") >> \o Note("START", "init_IRQ")
  \o Note("REST", "rcu_scheduler_starting") \o Note("REST", "kernel_init")

BasicSetup ==
  << Run("driver_init") >>
  \o (IF EarlyCreate THEN <<>> ELSE DiagInit \o Note("AFTER", "driver_init"))
  \o Note("BEFORE", "init_irq_proc") \o << Run("init_irq_proc") >>
  \o Note("AFTER", "init_irq_proc")
  \o Note("BEFORE", "do_ctors") \o << Run("do_ctors") >> \o Note("AFTER", "do_ctors")
  \o << Run("usermodehelper_enable") >> \o Note("AFTER", "usermodehelper_enable")
  \o DoInitcalls \o Note("AFTER", "do_initcalls")

(***************************************************************************)
(* The segments of the boot thread's program, each ended by the branch it  *)
(* takes.  A segment named after an init path is run_init_process() on it. *)
(***************************************************************************)
FreeableSegment ==
  (IF EarlyCreate THEN StartKernel ELSE <<>>)
  \o Triplet("before", "kernel_init_freeable")
  \o DoLevel(EarlyInitcalls)
  \o Triplet("before", "do_basic_setup") \o BasicSetup
  \o Triplet("after", "do_basic_setup")
  \o Around("kunit_run_all_tests") \o Around("console_on_rootfs")
  \o Triplet("before", "init_eaccess") \o <<Run("init_eaccess")>>
  \o <<Goto({"no_ramdisk_init", "finalise"})>>

NoRamdiskInitSegment ==
  Triplet("failed", "init_eaccess") \o Around("prepare_namespace")
  \o <<Goto({"finalise"})>>

FinaliseSegment ==
  Around("integrity_load_keys") \o Triplet("after", "kernel_init_freeable")
  \o FlattenSeq([i \in DOMAIN Finalisers |-> Around(Finalisers[i])])
  \o <<Goto({InitPaths[1]})>>

(* kernel_execve() returns to run_init_process() whether or not it worked, *)
(* so "exec returned" is written before user mode is entered.              *)
ExecSegment(i) ==
  Triplet("exec_begin", InitPaths[i]) \o <<Run("kernel_execve")>>
  \o Triplet("exec_returned", InitPaths[i])
  \o <<Goto({"user", IF i = Len(InitPaths) THEN "panic" ELSE InitPaths[i + 1]})>>

(* PID 1 dies by exit_group() or a signal, or by a plain do_exit().  The   *)
(* first-stage init of this build is a single thread, so it is the last of *)
(* its group and do_exit() reaches the global-init panic.                  *)
UserSegment == <<Run("userspace"), Goto({"group_exit", "exit"})>>

GroupExitSegment == Triplet("GROUP", "pid1") \o <<Goto({"exit"})>>

ExitSegment ==
  Triplet("ENTRY", "pid1") \o <<Run("do_exit")>> \o Triplet("FINAL", "pid1")
  \o <<Goto({"panic"})>>

PanicSegment ==
  Triplet("irq_off", "panic") \o Triplet("reason", "panic") \o <<Goto({})>>

FixedSegments ==
  {"freeable", "no_ramdisk_init", "finalise", "user", "group_exit", "exit", "panic"}

Segments == FixedSegments \cup {InitPaths[i] : i \in DOMAIN InitPaths}

Program == [s \in Segments |->
  CASE s = "freeable"        -> FreeableSegment
    [] s = "no_ramdisk_init" -> NoRamdiskInitSegment
    [] s = "finalise"        -> FinaliseSegment
    [] s = "user"            -> UserSegment
    [] s = "group_exit"      -> GroupExitSegment
    [] s = "exit"            -> ExitSegment
    [] s = "panic"           -> PanicSegment
    [] OTHER -> ExecSegment(CHOOSE i \in DOMAIN InitPaths : InitPaths[i] = s)]

==============================================================================
