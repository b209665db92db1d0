----------------------------- MODULE StressGuest -----------------------------
(***************************************************************************)
(* The full-stack QEMU stress run: the guest (full_stack_stress.c as PID 1 *)
(* and one forked process per worker), the guest kernel as far as it can   *)
(* end the run, and the host script that starts QEMU under timeout(1) and  *)
(* turns the serial log and the exit status into a verdict.                *)
(*                                                                         *)
(* Abstraction: time is a few ticks, of which only the deadline, PID 1's   *)
(* alarm and the host's timeout matter; what a worker does to the kernel   *)
(* in an iteration is left out, but it may fail, be killed or hang in any  *)
(* of them; the serial log is a set of signatures, those the host greps    *)
(* for and those it only counts.                                           *)
(*                                                                         *)
(* signal() installs its handlers with SA_RESTART and nobody else reaps    *)
(* PID 1's children, so waitpid() is never interrupted and never fails.    *)
(* fork() passes the handlers and stop_requested on, and from then on each *)
(* process has its own; the alarm is PID 1's alone.                        *)
(*                                                                         *)
(* Two history variables: early holds the workers that ended by themselves *)
(* before the deadline, and signalled the processes that something sent a  *)
(* SIGTERM, SIGINT or SIGALRM.                                             *)
(***************************************************************************)
EXTENDS Integers, FiniteSets

CONSTANTS
  N,              (* Workers; the guest forks and reaps them in order.     *)
  Deadline,       (* When a worker's loop ends.                            *)
  AlarmAt,        (* deadline + 120: SIGALRM sets stop_requested in PID 1. *)
  HostTimeout     (* STRESS_SECONDS + 300: timeout(1) stops QEMU.          *)

ASSUME StressAssumption ==
  /\ N \in Nat \ {0}
  /\ Deadline \in Nat /\ AlarmAt \in Nat /\ HostTimeout \in Nat
  /\ 0 < Deadline /\ Deadline < AlarmAt /\ AlarmAt < HostTimeout

VARIABLES
  now,            (* monotonic_seconds(), bounded by HostTimeout.          *)
  pid1,           (* PID 1: what it is doing, and to which worker.         *)
  worker,         (* Per worker, its process.                              *)
  quits,          (* Workers whose own stop_requested is set.              *)
  failures,       (* PID 1's count.                                        *)
  stop,           (* stop_requested in PID 1.                              *)
  log,            (* The signatures on the serial console.                 *)
  qemu,           (* "running", or what has ended it.                      *)
  verdict,        (* The host script: "none", "pass" or "fail".            *)
  early,
  signalled

vars == <<now, pid1, worker, quits, failures, stop, log, qemu, verdict, early,
          signalled>>

Workers == 1 .. N
Pid1    == 0

Doing(what, index) == [what |-> what, index |-> index]

GuestUp == qemu = "running"

Init ==
  /\ now = 0
  /\ pid1 = Doing("fork", 1)
  /\ worker = [i \in Workers |-> "none"]
  /\ quits = {}
  /\ failures = 0
  /\ stop = FALSE
  /\ log = {}
  /\ qemu = "running"
  /\ verdict = "none"
  /\ early = {}
  /\ signalled = {}

(***************************************************************************)
(* PID 1.                                                                  *)
(***************************************************************************)
NextIndex(what, then) ==
  IF pid1.index = N THEN Doing(then, 1) ELSE Doing(what, pid1.index + 1)

(* A child copies stop_requested as it is at the fork.                     *)
ForkWorker ==
  /\ GuestUp /\ pid1.what = "fork"
  /\ worker' = [worker EXCEPT ![pid1.index] = "running"]
  /\ quits' = IF stop THEN quits \cup {pid1.index} ELSE quits
  /\ pid1' = NextIndex("fork", "wait")
  /\ UNCHANGED <<now, failures, stop, log, qemu, verdict, early, signalled>>

ForkFails ==
  /\ GuestUp /\ pid1.what = "fork"
  /\ worker' = [worker EXCEPT ![pid1.index] = "unforked"]
  /\ failures' = failures + 1
  /\ pid1' = NextIndex("fork", "wait")
  /\ UNCHANGED <<now, quits, stop, log, qemu, verdict, early, signalled>>

SkipUnforked ==
  /\ GuestUp /\ pid1.what = "wait" /\ worker[pid1.index] = "unforked"
  /\ pid1' = NextIndex("wait", "report")
  /\ UNCHANGED <<now, worker, quits, failures, stop, log, qemu, verdict, early, signalled>>

Ended == {"exit0", "exit1", "signalled"}

(* waitpid() blocks until this very worker has ended, whatever the others  *)
(* have done.                                                              *)
ReapWorker ==
  /\ GuestUp /\ pid1.what = "wait" /\ worker[pid1.index] \in Ended
  /\ IF worker[pid1.index] = "exit0"
     THEN UNCHANGED <<failures, log>>
     ELSE failures' = failures + 1 /\ log' = log \cup {"WORKER_FAIL"}
  /\ pid1' = NextIndex("wait", "report")
  /\ UNCHANGED <<now, worker, quits, stop, qemu, verdict, early, signalled>>

(* Mutant of Failures: a stop before the deadline is not counted.          *)
FailuresUnstopped == failures

Failures == IF stop /\ now < Deadline THEN failures + 1 ELSE failures

Report ==
  /\ GuestUp /\ pid1.what = "report"
  /\ failures' = Failures
  /\ log' = log \cup {IF Failures = 0 THEN "PASS" ELSE "STRESS_FAIL"}
  /\ pid1' = Doing("poweroff", 1)
  /\ UNCHANGED <<now, worker, quits, stop, qemu, verdict, early, signalled>>

(* reboot(POWER_OFF) ends QEMU; should it return, PID 1 pauses for ever.   *)
PowerOff ==
  /\ GuestUp /\ pid1.what = "poweroff"
  /\ \/ qemu' = "poweroff" /\ UNCHANGED pid1
     \/ pid1' = Doing("pause", 1) /\ UNCHANGED qemu
  /\ UNCHANGED <<now, worker, quits, failures, stop, log, verdict, early, signalled>>

Alarm ==
  /\ GuestUp /\ now >= AlarmAt /\ ~stop
  /\ stop' = TRUE
  /\ UNCHANGED <<now, pid1, worker, quits, failures, log, qemu, verdict, early, signalled>>

Signal ==
  /\ GuestUp /\ ~stop
  /\ stop' = TRUE /\ signalled' = signalled \cup {Pid1}
  /\ UNCHANGED <<now, pid1, worker, quits, failures, log, qemu, verdict, early>>

(***************************************************************************)
(* The workers.  The loop ends at the deadline, or at its next test of the *)
(* process's own stop_requested: copied at the fork, or set since by the   *)
(* inherited handlers.                                                     *)
(***************************************************************************)
SignalWorker(i) ==
  /\ GuestUp /\ worker[i] = "running" /\ i \notin quits
  /\ quits' = quits \cup {i} /\ signalled' = signalled \cup {i}
  /\ UNCHANGED <<now, pid1, worker, failures, stop, log, qemu, verdict, early>>

WorkerEnds(i, how) ==
  /\ GuestUp /\ worker[i] = "running"
  /\ worker' = [worker EXCEPT ![i] = how]
  /\ UNCHANGED <<now, pid1, quits, failures, stop, log, qemu, verdict, signalled>>

LoopEnds(i) ==
  /\ now >= Deadline \/ i \in quits
  /\ WorkerEnds(i, "exit0")
  /\ early' = IF now < Deadline THEN early \cup {i} ELSE early

LoopFails(i) == WorkerEnds(i, "exit1")     /\ UNCHANGED early
Killed(i)    == WorkerEnds(i, "signalled") /\ UNCHANGED early
Hangs(i)     == WorkerEnds(i, "hung")      /\ UNCHANGED early

(***************************************************************************)
(* The guest kernel and QEMU.  What the kernel complains of has one of the *)
(* signatures the host greps for or is a warning of another kind, which it *)
(* counts in the report.  oops=panic, hung_task_panic and softlockup_panic *)
(* lead to a panic, and panic=1 with -no-reboot from there to QEMU's end.  *)
(***************************************************************************)
Diagnostic ==
  /\ GuestUp
  /\ \E signature \in {"KERNEL_DIAGNOSTIC", "KERNEL_WARNING"} : log' = log \cup {signature}
  /\ UNCHANGED <<now, pid1, worker, quits, failures, stop, qemu, verdict, early, signalled>>

Panic ==
  /\ GuestUp
  /\ log' = log \cup {"KERNEL_DIAGNOSTIC"}
  /\ qemu' = "panic"
  /\ UNCHANGED <<now, pid1, worker, quits, failures, stop, verdict, early, signalled>>

QemuDies ==
  /\ GuestUp
  /\ qemu' = "error"
  /\ UNCHANGED <<now, pid1, worker, quits, failures, stop, log, verdict, early, signalled>>

Tick ==
  /\ GuestUp /\ now < HostTimeout
  /\ now' = now + 1
  /\ UNCHANGED <<pid1, worker, quits, failures, stop, log, qemu, verdict, early, signalled>>

(***************************************************************************)
(* The host.                                                               *)
(***************************************************************************)
(* Mutant of TimeoutKills: only a guest that has reported is stopped.      *)
TimeoutKillsReported ==
  /\ GuestUp /\ now = HostTimeout /\ log # {}
  /\ qemu' = "timeout"
  /\ UNCHANGED <<now, pid1, worker, quits, failures, stop, log, verdict, early, signalled>>

TimeoutKills ==
  /\ GuestUp /\ now = HostTimeout
  /\ qemu' = "timeout"
  /\ UNCHANGED <<now, pid1, worker, quits, failures, stop, log, verdict, early, signalled>>

FailurePattern == {"KERNEL_DIAGNOSTIC", "STRESS_FAIL", "WORKER_FAIL"}

(* qemu_rc: a panicked guest ends QEMU with 0, as power-off does.          *)
Status(end) ==
  CASE end \in {"poweroff", "panic"} -> 0 [] end = "timeout" -> 124 [] OTHER -> 1

Judge ==
  /\ ~GuestUp /\ verdict = "none"
  /\ verdict' = IF Status(qemu) = 0 /\ "PASS" \in log /\ log \cap FailurePattern = {}
                THEN "pass" ELSE "fail"
  /\ UNCHANGED <<now, pid1, worker, quits, failures, stop, log, qemu, early, signalled>>

Pid1Step == ForkWorker \/ ForkFails \/ SkipUnforked \/ ReapWorker \/ Report \/ PowerOff

WorkerStep(i) ==
  SignalWorker(i) \/ LoopEnds(i) \/ LoopFails(i) \/ Killed(i) \/ Hangs(i)

HostStep == TimeoutKills \/ Judge

Next ==
  \/ Pid1Step \/ Alarm \/ Signal
  \/ \E i \in Workers : WorkerStep(i)
  \/ Diagnostic \/ Panic \/ QemuDies
  \/ Tick \/ HostStep

Spec == Init /\ [][Next]_vars

(* Time passes and the host runs.  Nothing is assumed of the guest.        *)
HostFairSpec == Spec /\ WF_vars(Tick) /\ WF_vars(HostStep)

-------------------------------------------------------------------------------
(* The types of the guest's and of the host's state.                       *)
TypeOK ==
  /\ now \in 0 .. HostTimeout
  /\ pid1 \in [what : {"fork", "wait", "report", "poweroff", "pause"}, index : Workers]
  /\ worker \in [Workers -> {"none", "unforked", "running", "hung"} \cup Ended]
  /\ quits \subseteq Workers
  /\ failures \in 0 .. N + 1
  /\ stop \in BOOLEAN
  /\ log \subseteq FailurePattern \cup {"PASS", "KERNEL_WARNING"}
  /\ qemu \in {"running", "poweroff", "panic", "error", "timeout"}
  /\ verdict \in {"none", "pass", "fail"}
  /\ early \subseteq Workers
  /\ signalled \subseteq Workers \cup {Pid1}

(* A pass verdict is never given to a run in which a worker was not forked,*)
(* failed, was killed or hung, nor to one a panic ended, though its exit   *)
(* status is that of a power-off and the pass marker may already be out.   *)
PassMeansNoFailure ==
  verdict = "pass" => qemu = "poweroff" /\ \A i \in Workers : worker[i] = "exit0"

(* A worker that stopped before the deadline in a run that passed was sent *)
(* a signal itself, or forked after PID 1 was; and the pass marker comes   *)
(* before the deadline only when every single worker was sent one: a       *)
(* signal to PID 1 costs the run its pass, unless the workers keep PID 1   *)
(* waiting until the deadline is past.                                     *)
PassMeansFullRun ==
  /\ verdict = "pass" => \A i \in early : {i, Pid1} \cap signalled # {}
  /\ "PASS" \in log => now >= Deadline \/ Workers \subseteq signalled

(* What PID 1 has counted when it starts to report is what went wrong:     *)
(* every worker that did not end by itself, once.                          *)
FailuresCounted ==
  pid1.what = "report" =>
    failures = Cardinality({i \in Workers : worker[i] # "exit0"})

(* A verdict is about the whole run: none passes for less, and a report    *)
(* counts what went wrong.                                                 *)
VerdictTrue ==
  TypeOK /\ PassMeansNoFailure /\ PassMeansFullRun /\ FailuresCounted

(* A worker that hangs never yields a verdict by itself, but the host      *)
(* always reaches one.                                                     *)
HostDecides == <>(verdict # "none")

==============================================================================
