-------------------------- MODULE StressGuest_proofs --------------------------
(***************************************************************************)
(* For any number of workers and any deadline, alarm and timeout: the host *)
(* passes no run in which something went wrong, and PID 1 counts every     *)
(* worker that did not end by itself exactly once.                         *)
(*                                                                         *)
(* Neither is inductive.  The count has to be known while PID 1 is still   *)
(* forking and waiting: it is the number of the workers it could not fork  *)
(* and of those it has reaped and found failed.  That a run cut short has  *)
(* no pass marker rests on what ends a worker: one that ended by itself    *)
(* before the deadline was signalled or was forked after a stop, and PID 1 *)
(* never forgets a stop.                                                   *)
(***************************************************************************)
EXTENDS StressGuest, FiniteSetTheorems, TLAPS

Forked(i) == pid1.what # "fork" \/ i < pid1.index
Reaped(i) == \/ pid1.what \in {"report", "poweroff", "pause"}
             \/ pid1.what = "wait" /\ i < pid1.index

(* Workers are forked and reaped in order, and only ended ones are reaped. *)
InOrder ==
  \A i \in Workers :
    /\ worker[i] = "none" <=> ~Forked(i)
    /\ Reaped(i) => worker[i] \in Ended \cup {"unforked"}

Counted == {i \in Workers : worker[i] = "unforked" \/ (Reaped(i) /\ worker[i] # "exit0")}

CountedOnce == pid1.what \in {"fork", "wait", "report"} => failures = Cardinality(Counted)

StopKept ==
  /\ stop /\ Pid1 \notin signalled => now >= AlarmAt
  /\ \A i \in quits : stop \/ i \in signalled
  /\ \A i \in early : {i, Pid1} \cap signalled # {}
  /\ \A i \in Workers : worker[i] = "exit0" => now >= Deadline \/ i \in quits

PassEarned ==
  "PASS" \in log =>
    /\ pid1.what \in {"poweroff", "pause"}
    /\ \A i \in Workers : worker[i] = "exit0"
    /\ now >= Deadline \/ Workers \subseteq signalled

PanicLogged == qemu = "panic" => "KERNEL_DIAGNOSTIC" \in log

PassGiven ==
  verdict = "pass" =>
    qemu = "poweroff" /\ "PASS" \in log /\ log \cap FailurePattern = {}

GuestInv ==
  /\ TypeOK /\ InOrder /\ CountedOnce /\ StopKept
  /\ PassEarned /\ PanicLogged /\ PassGiven

LEMMA CountedFinite ==
  ASSUME NEW S \in SUBSET Workers
  PROVE  IsFiniteSet(S) /\ Cardinality(S) \in 0 .. N
<1>1. IsFiniteSet(Workers) /\ Cardinality(Workers) = N
  BY FS_Interval, StressAssumption DEF Workers
<1>2. IsFiniteSet(S) /\ Cardinality(S) <= Cardinality(Workers)
  BY <1>1, FS_Subset
<1>3. Cardinality(S) \in Nat
  BY <1>2, FS_CardinalityType
<1> QED BY <1>1, <1>2, <1>3

LEMMA OneMore ==
  ASSUME NEW S \in SUBSET Workers, NEW i \in Workers, i \notin S
  PROVE  Cardinality(S \cup {i}) = Cardinality(S) + 1
BY CountedFinite, FS_AddElement

LEMMA GuestInit == Init => GuestInv
<1> SUFFICES ASSUME Init PROVE GuestInv
  OBVIOUS
<1>1. 1 \in Workers /\ 0 \in 0 .. HostTimeout /\ 0 \in 0 .. N + 1
  BY StressAssumption DEF Workers
<1>2. TypeOK
  BY <1>1 DEF Init, TypeOK, Doing
<1>3. InOrder
  BY <1>1 DEF Init, InOrder, Doing, Forked, Reaped, Workers
<1>4. CountedOnce
  <2>1. Counted = {}
    BY DEF Init, Counted, Doing, Reaped
  <2> QED BY <2>1, FS_EmptySet DEF Init, CountedOnce
<1>5. StopKept /\ PassEarned /\ PanicLogged /\ PassGiven
  BY DEF Init, StopKept, PassEarned, PanicLogged, PassGiven
<1> QED BY <1>2, <1>3, <1>4, <1>5 DEF GuestInv

(* What PID 1's place becomes when it is done with a worker.               *)
LEMMA NextPlace ==
  ASSUME TypeOK, NEW what, NEW then
  PROVE  LET p == NextIndex(what, then) IN
           /\ pid1.index = N => p.what = then /\ p.index = 1
           /\ pid1.index # N => p.what = what /\ p.index = pid1.index + 1
           /\ p.index \in Workers
<1>1. pid1.index \in 1 .. N /\ N \in Nat \ {0}
  BY StressAssumption DEF TypeOK, Workers
<1> QED BY <1>1 DEF NextIndex, Doing, Workers

LEMMA ForkStep ==
  ASSUME GuestInv, ForkWorker \/ ForkFails
  PROVE  GuestInv'
<1> DEFINE k == pid1.index
           how == worker'[k]
<1>1. /\ pid1.what = "fork" /\ k \in Workers /\ N \in Nat \ {0} /\ k \in 1 .. N
  BY StressAssumption DEF ForkWorker, ForkFails, GuestInv, TypeOK, Workers
<1>2. /\ worker' = [worker EXCEPT ![k] = how] /\ how \in {"running", "unforked"}
      /\ failures' = IF how = "unforked" THEN failures + 1 ELSE failures
      /\ quits' = quits \/ (stop /\ quits' = quits \cup {k})
      /\ pid1' = NextIndex("fork", "wait")
      /\ UNCHANGED <<now, stop, log, qemu, verdict, early, signalled>>
  BY <1>1 DEF ForkWorker, ForkFails, GuestInv, TypeOK
<1>3. /\ k = N => pid1'.what = "wait" /\ pid1'.index = 1
      /\ k # N => pid1'.what = "fork" /\ pid1'.index = k + 1
      /\ pid1'.index \in Workers
  BY <1>2, NextPlace DEF GuestInv
<1>4. worker[k] = "none" /\ \A i \in Workers \ {k} : worker'[i] = worker[i]
  BY <1>1, <1>2 DEF GuestInv, InOrder, Forked, TypeOK
<1>5. \A i \in Workers : ~Reaped(i) /\ ~Reaped(i)'
  BY <1>1, <1>3 DEF Reaped, Workers
<1>6. InOrder'
  <2>1. \A i \in Workers : Forked(i)' <=> (i = k \/ Forked(i))
    BY <1>1, <1>3 DEF Forked, Workers
  <2> QED BY <1>2, <1>4, <1>5, <2>1 DEF GuestInv, InOrder
<1>7. failures \in 0 .. N /\ CountedOnce' /\ failures' \in 0 .. N
  <2>1. failures = Cardinality(Counted) /\ Counted \in SUBSET Workers /\ k \notin Counted
    BY <1>1, <1>4, <1>5 DEF GuestInv, CountedOnce, Counted
  <2>2. Counted' = IF how = "unforked" THEN Counted \cup {k} ELSE Counted
    BY <1>1, <1>2, <1>4, <1>5 DEF Counted
  <2>3. failures' = Cardinality(Counted') /\ Counted' \in SUBSET Workers
    BY <1>1, <1>2, <2>1, <2>2, OneMore
  <2> QED BY <2>1, <2>3, CountedFinite DEF CountedOnce
<1> HIDE DEF how
<1>8. TypeOK'
  <2>1. pid1' \in [what : {"fork", "wait", "report", "poweroff", "pause"}, index : Workers]
    BY <1>1, <1>2, <1>3 DEF NextIndex, Doing
  <2>2. worker' \in [Workers -> {"none", "unforked", "running", "hung"} \cup Ended]
    BY <1>1, <1>2 DEF GuestInv, TypeOK
  <2>3. quits' \subseteq Workers /\ failures' \in 0 .. N + 1
    BY <1>1, <1>2, <1>7 DEF GuestInv, TypeOK
  <2> QED BY <1>2, <2>1, <2>2, <2>3 DEF GuestInv, TypeOK
<1>9. StopKept'
  BY <1>1, <1>2, <1>4 DEF GuestInv, StopKept
<1>10. "PASS" \notin log
  BY <1>1 DEF GuestInv, PassEarned
<1>11. PassEarned' /\ PanicLogged' /\ PassGiven'
  BY <1>2, <1>10 DEF GuestInv, PassEarned, PanicLogged, PassGiven
<1> QED BY <1>6, <1>7, <1>8, <1>9, <1>11 DEF GuestInv

LEMMA WaitStep ==
  ASSUME GuestInv, SkipUnforked \/ ReapWorker
  PROVE  GuestInv'
<1> DEFINE k == pid1.index
<1>1. /\ pid1.what = "wait" /\ k \in Workers /\ N \in Nat \ {0} /\ k \in 1 .. N
      /\ worker[k] \in Ended \cup {"unforked"}
  BY StressAssumption DEF SkipUnforked, ReapWorker, GuestInv, TypeOK, Workers
<1>2. /\ failures' = IF worker[k] \in {"exit0", "unforked"} THEN failures ELSE failures + 1
      /\ log' = log \/ log' = log \cup {"WORKER_FAIL"}
      /\ pid1' = NextIndex("wait", "report")
      /\ UNCHANGED <<now, worker, quits, stop, qemu, verdict, early, signalled>>
  BY <1>1 DEF SkipUnforked, ReapWorker, Ended
<1>3. /\ k = N => pid1'.what = "report" /\ pid1'.index = 1
      /\ k # N => pid1'.what = "wait" /\ pid1'.index = k + 1
      /\ pid1'.index \in Workers
  BY <1>2, NextPlace DEF GuestInv
<1>4. \A i \in Workers : Reaped(i)' <=> (i = k \/ Reaped(i))
  BY <1>1, <1>3 DEF Reaped, Workers
<1>5. ~Reaped(k) /\ \A i \in Workers : Forked(i) /\ Forked(i)'
  BY <1>1, <1>3 DEF Forked, Reaped, Workers
<1>6. InOrder'
  BY <1>1, <1>2, <1>4, <1>5 DEF GuestInv, InOrder
<1>7. failures \in 0 .. N /\ CountedOnce' /\ failures' \in 0 .. N
  <2>1. /\ failures = Cardinality(Counted) /\ Counted \in SUBSET Workers
        /\ k \in Counted <=> worker[k] = "unforked"
    BY <1>1, <1>5 DEF GuestInv, CountedOnce, Counted
  <2>2. Counted' = IF worker[k] = "exit0" THEN Counted ELSE Counted \cup {k}
    <3>1. /\ Counted = {i \in Workers : worker[i] = "unforked" \/ (Reaped(i) /\ worker[i] # "exit0")}
          /\ Counted' = {i \in Workers : worker[i] = "unforked"
                                       \/ ((i = k \/ Reaped(i)) /\ worker[i] # "exit0")}
      BY <1>2, <1>4 DEF Counted
    <3> HIDE DEF Counted, k
    <3>2. CASE worker[k] = "exit0"
      BY <1>1, <3>1, <3>2
    <3>3. CASE worker[k] # "exit0"
      BY <1>1, <3>1, <3>3
    <3> QED BY <3>2, <3>3
  <2>3. failures' = Cardinality(Counted') /\ Counted' \in SUBSET Workers
    <3>1. CASE worker[k] = "unforked"
      <4>1. Counted' = Counted
        BY <2>1, <2>2, <3>1
      <4> QED BY <1>2, <2>1, <3>1, <4>1
    <3>2. CASE worker[k] = "exit0"
      BY <1>2, <2>1, <2>2, <3>2
    <3>3. CASE worker[k] \notin {"exit0", "unforked"}
      <4>1. Counted' = Counted \cup {k} /\ k \notin Counted /\ failures' = failures + 1
        BY <1>2, <2>1, <2>2, <3>3
      <4> HIDE DEF Counted, k
      <4>2. Cardinality(Counted \cup {k}) = Cardinality(Counted) + 1
        BY <1>1, <2>1, <4>1, OneMore
      <4> QED BY <1>1, <2>1, <4>1, <4>2
    <3> QED BY <3>1, <3>2, <3>3
  <2> QED BY <2>1, <2>3, CountedFinite DEF CountedOnce
<1>8. TypeOK'
  <2>1. pid1' \in [what : {"fork", "wait", "report", "poweroff", "pause"}, index : Workers]
    BY <1>1, <1>2, <1>3 DEF NextIndex, Doing
  <2>2. log' \subseteq FailurePattern \cup {"PASS", "KERNEL_WARNING"}
    BY <1>2 DEF GuestInv, TypeOK, FailurePattern
  <2>3. failures' \in 0 .. N + 1
    BY <1>1, <1>7
  <2> QED BY <1>2, <2>1, <2>2, <2>3 DEF GuestInv, TypeOK
<1>9. StopKept'
  BY <1>2 DEF GuestInv, StopKept
<1>10. "PASS" \notin log /\ "PASS" \notin log'
  BY <1>1, <1>2 DEF GuestInv, PassEarned
<1>11. PassEarned' /\ PanicLogged' /\ PassGiven'
  BY <1>2, <1>10 DEF GuestInv, PassEarned, PanicLogged, PassGiven
<1> QED BY <1>6, <1>7, <1>8, <1>9, <1>11 DEF GuestInv

(* A count of 0 and no stop before the deadline: every worker ended by     *)
(* itself, and one that did so before the deadline was signalled.          *)
LEMMA NoneCounted ==
  ASSUME GuestInv, pid1.what = "report", Failures = 0
  PROVE  /\ \A i \in Workers : worker[i] = "exit0"
         /\ now >= Deadline \/ Workers \subseteq signalled
<1>1. failures = Cardinality(Counted) /\ Counted \in SUBSET Workers
  BY DEF GuestInv, CountedOnce, Counted
<1>2. failures = 0 /\ ~(stop /\ now < Deadline)
  <2>1. failures \in 0 .. N
    BY <1>1, CountedFinite
  <2> QED BY <2>1, StressAssumption DEF Failures
<1>3. Counted = {}
  BY <1>1, <1>2, CountedFinite, FS_EmptySet
<1>4. \A i \in Workers : worker[i] = "exit0"
  BY <1>3 DEF Counted, Reaped
<1>5. ASSUME ~(now >= Deadline), NEW i \in Workers PROVE i \in signalled
  <2>1. ~stop
    BY <1>2, <1>5, StressAssumption DEF GuestInv, TypeOK
  <2>2. i \in quits
    BY <1>4, <1>5 DEF GuestInv, StopKept
  <2> QED BY <2>1, <2>2 DEF GuestInv, StopKept
<1> QED BY <1>4, <1>5

LEMMA ReportStep == ASSUME GuestInv, Report PROVE GuestInv'
<1>1. /\ pid1.what = "report" /\ failures' = Failures
      /\ log' = log \cup {IF Failures = 0 THEN "PASS" ELSE "STRESS_FAIL"}
      /\ pid1'.what = "poweroff" /\ pid1'.index = 1 /\ GuestUp
      /\ UNCHANGED <<now, worker, quits, stop, qemu, verdict, early, signalled>>
  BY DEF Report, Doing
<1>2. failures \in 0 .. N /\ 1 \in Workers
  <2>1. failures = Cardinality(Counted) /\ Counted \in SUBSET Workers
    BY <1>1 DEF GuestInv, CountedOnce, Counted
  <2> QED BY <2>1, CountedFinite, StressAssumption DEF Workers
<1>3. TypeOK'
  <2>1. failures' \in 0 .. N + 1
    BY <1>1, <1>2, StressAssumption DEF Failures
  <2>2. log' \subseteq FailurePattern \cup {"PASS", "KERNEL_WARNING"}
    BY <1>1 DEF GuestInv, TypeOK, FailurePattern
  <2>3. pid1' \in [what : {"fork", "wait", "report", "poweroff", "pause"}, index : Workers]
    BY <1>2 DEF Report, Doing
  <2> QED BY <1>1, <2>1, <2>2, <2>3 DEF GuestInv, TypeOK
<1>4. InOrder' /\ CountedOnce' /\ StopKept'
  BY <1>1 DEF GuestInv, InOrder, CountedOnce, StopKept, Forked, Reaped
<1>5. PassEarned'
  <2>1. "PASS" \in log' => Failures = 0
    BY <1>1 DEF GuestInv, PassEarned
  <2> QED BY <1>1, <2>1, NoneCounted DEF PassEarned
<1>6. PanicLogged' /\ PassGiven'
  BY <1>1 DEF GuestInv, PanicLogged, PassGiven, GuestUp
<1> QED BY <1>3, <1>4, <1>5, <1>6 DEF GuestInv

LEMMA PowerOffStep == ASSUME GuestInv, PowerOff PROVE GuestInv'
<1>1. /\ pid1.what = "poweroff" /\ pid1'.what \in {"poweroff", "pause"} /\ GuestUp
      /\ UNCHANGED <<now, worker, quits, failures, stop, log, verdict, early, signalled>>
  BY DEF PowerOff, Doing
<1>2. TypeOK'
  <2>1. 1 \in Workers
    BY StressAssumption DEF Workers
  <2>2. pid1' \in [what : {"fork", "wait", "report", "poweroff", "pause"}, index : Workers]
    BY <2>1 DEF PowerOff, Doing, GuestInv, TypeOK
  <2>3. qemu' \in {"running", "poweroff"}
    BY DEF PowerOff, GuestUp
  <2> QED BY <1>1, <2>2, <2>3 DEF GuestInv, TypeOK
<1>3. InOrder' /\ CountedOnce' /\ StopKept' /\ PassEarned'
  BY <1>1 DEF GuestInv, InOrder, CountedOnce, StopKept, PassEarned, Forked, Reaped
<1>4. PanicLogged' /\ PassGiven'
  BY <1>1 DEF PowerOff, GuestInv, PanicLogged, PassGiven, GuestUp
<1> QED BY <1>2, <1>3, <1>4 DEF GuestInv

(* A running worker becomes something else; nothing that was counted or    *)
(* reaped changes.                                                         *)
LEMMA WorkerEndsStep ==
  ASSUME GuestInv, NEW i \in Workers,
         LoopEnds(i) \/ LoopFails(i) \/ Killed(i) \/ Hangs(i)
  PROVE  GuestInv'
<1> DEFINE how == worker'[i]
<1>1. /\ worker[i] = "running" /\ GuestUp /\ how \in Ended \cup {"hung"}
      /\ worker' = [worker EXCEPT ![i] = how]
      /\ UNCHANGED <<now, pid1, quits, failures, stop, log, qemu, verdict, signalled>>
  BY DEF LoopEnds, LoopFails, Killed, Hangs, WorkerEnds, Ended, GuestInv, TypeOK
<1>2. how = "exit0" => now >= Deadline \/ i \in quits
  BY DEF LoopEnds, LoopFails, Killed, Hangs, WorkerEnds, GuestInv, TypeOK
<1>3. early' = early \/ (now < Deadline /\ i \in quits /\ early' = early \cup {i})
  <2>1. CASE LoopEnds(i)
    <3>1. now < Deadline => ~(now >= Deadline)
      BY StressAssumption DEF GuestInv, TypeOK
    <3> QED BY <2>1, <3>1 DEF LoopEnds
  <2>2. CASE LoopFails(i) \/ Killed(i) \/ Hangs(i)
    BY <2>2 DEF LoopFails, Killed, Hangs
  <2> QED BY <2>1, <2>2
<1> HIDE DEF how
<1>4. worker'[i] = how /\ \A j \in Workers \ {i} : worker'[j] = worker[j]
  BY <1>1 DEF GuestInv, TypeOK
<1>5. \A j \in Workers : Forked(j)' = Forked(j) /\ Reaped(j)' = Reaped(j)
  BY <1>1 DEF Forked, Reaped
<1>6. ~Reaped(i)
  BY <1>1 DEF GuestInv, InOrder, Ended
<1>7. TypeOK'
  <2>1. worker' \in [Workers -> {"none", "unforked", "running", "hung"} \cup Ended]
    BY <1>1 DEF GuestInv, TypeOK
  <2>2. early' \subseteq Workers
    BY <1>3 DEF GuestInv, TypeOK
  <2> QED BY <1>1, <2>1, <2>2 DEF GuestInv, TypeOK
<1>8. InOrder'
  BY <1>1, <1>4, <1>5, <1>6 DEF GuestInv, InOrder, Ended
<1>9. CountedOnce'
  <2>1. Counted' = Counted
    BY <1>1, <1>4, <1>5, <1>6 DEF Counted, Ended
  <2> QED BY <1>1, <2>1 DEF GuestInv, CountedOnce
<1>10. StopKept'
  <2>1. now < Deadline /\ i \in quits => {i, Pid1} \cap signalled # {}
    BY StressAssumption DEF GuestInv, StopKept, TypeOK
  <2>2. \A j \in early' : {j, Pid1} \cap signalled # {}
    BY <1>3, <2>1 DEF GuestInv, StopKept
  <2> QED BY <1>1, <1>2, <1>4, <2>2 DEF GuestInv, StopKept
<1>11. PassEarned' /\ PanicLogged' /\ PassGiven'
  BY <1>1 DEF GuestInv, PassEarned, PanicLogged, PassGiven, GuestUp
<1> QED BY <1>7, <1>8, <1>9, <1>10, <1>11 DEF GuestInv

(* Steps that leave PID 1's count and the workers alone.                   *)
LEMMA AsideStep ==
  ASSUME GuestInv, TypeOK', UNCHANGED <<pid1, worker, failures>>, StopKept',
         "PASS" \in log' => "PASS" \in log, now' >= now,
         signalled \subseteq signalled', PanicLogged', PassGiven'
  PROVE  GuestInv'
<1>1. InOrder' /\ CountedOnce'
  BY DEF GuestInv, InOrder, CountedOnce, Counted, Forked, Reaped
<1>2. PassEarned'
  BY StressAssumption DEF GuestInv, PassEarned, TypeOK
<1> QED BY <1>1, <1>2 DEF GuestInv

LEMMA SignalWorkerStep ==
  ASSUME GuestInv, NEW i \in Workers, SignalWorker(i)
  PROVE  GuestInv'
<1>1. /\ UNCHANGED <<now, pid1, worker, failures, stop, log, qemu, verdict, early>>
      /\ quits' = quits \cup {i} /\ signalled' = signalled \cup {i}
  BY DEF SignalWorker
<1>2. TypeOK'
  BY <1>1 DEF GuestInv, TypeOK
<1>3. StopKept'
  BY <1>1 DEF GuestInv, StopKept
<1>4. PanicLogged' /\ PassGiven'
  BY <1>1 DEF GuestInv, PanicLogged, PassGiven
<1>5. now' >= now
  BY <1>1, StressAssumption DEF GuestInv, TypeOK
<1> QED BY <1>1, <1>2, <1>3, <1>4, <1>5, AsideStep

LEMMA TimeStep == ASSUME GuestInv, Tick \/ Alarm \/ Signal PROVE GuestInv'
<1>1. /\ UNCHANGED <<pid1, worker, quits, failures, log, qemu, verdict, early>>
      /\ GuestUp
  BY DEF Tick, Alarm, Signal
<1>2. now \in Nat /\ now \in 0 .. HostTimeout /\ HostTimeout \in Nat /\ AlarmAt \in Nat
      /\ Deadline \in Nat
  BY StressAssumption DEF GuestInv, TypeOK
<1>3. CASE Tick
  <2>1. now' = now + 1 /\ now' \in 0 .. HostTimeout /\ UNCHANGED <<stop, signalled>>
    BY <1>2, <1>3 DEF Tick
  <2>2. TypeOK'
    BY <1>1, <2>1 DEF GuestInv, TypeOK
  <2>3. StopKept'
    BY <1>1, <1>2, <2>1 DEF GuestInv, StopKept
  <2>4. PanicLogged' /\ PassGiven'
    BY <1>1 DEF GuestInv, PanicLogged, PassGiven
  <2> QED BY <1>1, <1>2, <2>1, <2>2, <2>3, <2>4, AsideStep
<1>4. CASE Alarm \/ Signal
  <2>1. /\ now' = now /\ stop' = TRUE
        /\ \/ signalled' = signalled /\ now >= AlarmAt
           \/ signalled' = signalled \cup {Pid1}
    BY <1>4 DEF Alarm, Signal
  <2>2. TypeOK'
    BY <1>1, <2>1 DEF GuestInv, TypeOK
  <2>3. StopKept'
    BY <1>1, <2>1 DEF GuestInv, StopKept
  <2>4. PanicLogged' /\ PassGiven'
    BY <1>1 DEF GuestInv, PanicLogged, PassGiven
  <2> QED BY <1>1, <1>2, <2>1, <2>2, <2>3, <2>4, AsideStep
<1> QED BY <1>3, <1>4

LEMMA KernelStep ==
  ASSUME GuestInv, Diagnostic \/ Panic \/ QemuDies \/ TimeoutKills
  PROVE  GuestInv'
<1>1. /\ UNCHANGED <<now, pid1, worker, quits, failures, stop, verdict, early, signalled>>
      /\ \E complaint \in SUBSET {"KERNEL_DIAGNOSTIC", "KERNEL_WARNING"} :
           log' = log \cup complaint
      /\ qemu' \in {"running", "panic", "error", "timeout"} /\ GuestUp
  <2>1. CASE Diagnostic
    <3>1. PICK signature \in {"KERNEL_DIAGNOSTIC", "KERNEL_WARNING"} :
            log' = log \cup {signature}
      BY <2>1 DEF Diagnostic
    <3> QED BY <2>1, <3>1 DEF Diagnostic, GuestUp
  <2>2. CASE Panic
    BY <2>2 DEF Panic
  <2>3. CASE QemuDies \/ TimeoutKills
    <3>1. log' = log \cup {}
      BY <2>3 DEF QemuDies, TimeoutKills
    <3> QED BY <2>3, <3>1 DEF QemuDies, TimeoutKills
  <2> QED BY <2>1, <2>2, <2>3
<1>2. TypeOK'
  BY <1>1 DEF GuestInv, TypeOK, FailurePattern
<1>3. StopKept'
  BY <1>1 DEF GuestInv, StopKept
<1>4. PanicLogged' /\ PassGiven'
  <2>1. qemu' = "panic" => "KERNEL_DIAGNOSTIC" \in log'
    BY DEF Diagnostic, Panic, QemuDies, TimeoutKills, GuestUp
  <2>2. verdict' # "pass"
    BY <1>1 DEF GuestInv, PassGiven, GuestUp
  <2> QED BY <2>1, <2>2 DEF PanicLogged, PassGiven
<1>5. "PASS" \in log' => "PASS" \in log
  BY <1>1
<1>6. now' >= now
  BY <1>1, StressAssumption DEF GuestInv, TypeOK
<1> QED BY <1>1, <1>2, <1>3, <1>4, <1>5, <1>6, AsideStep

LEMMA JudgeStep == ASSUME GuestInv, Judge PROVE GuestInv'
<1>1. /\ UNCHANGED <<now, pid1, worker, quits, failures, stop, log, qemu, early, signalled>>
      /\ ~GuestUp /\ verdict' \in {"pass", "fail"}
      /\ verdict' = "pass" =>
           Status(qemu) = 0 /\ "PASS" \in log /\ log \cap FailurePattern = {}
  BY DEF Judge
<1>2. TypeOK'
  BY <1>1 DEF GuestInv, TypeOK
<1>3. StopKept'
  BY <1>1 DEF GuestInv, StopKept
<1>4. PanicLogged' /\ PassGiven'
  <2>1. PanicLogged'
    BY <1>1 DEF GuestInv, PanicLogged
  <2>2. Status(qemu) = 0 => qemu \in {"poweroff", "panic"}
    BY <1>1 DEF Status, GuestInv, TypeOK, GuestUp
  <2> QED BY <1>1, <2>1, <2>2 DEF GuestInv, PanicLogged, PassGiven, FailurePattern
<1>5. now' >= now
  BY <1>1, StressAssumption DEF GuestInv, TypeOK
<1> QED BY <1>1, <1>2, <1>3, <1>4, <1>5, AsideStep

LEMMA StillStep == ASSUME GuestInv, UNCHANGED vars PROVE GuestInv'
<1>1. TypeOK' /\ StopKept' /\ PanicLogged' /\ PassGiven'
  BY DEF vars, GuestInv, TypeOK, StopKept, PanicLogged, PassGiven
<1>2. now' >= now
  BY StressAssumption DEF vars, GuestInv, TypeOK
<1> QED BY <1>1, <1>2, AsideStep DEF vars

LEMMA GuestStep == GuestInv /\ [Next]_vars => GuestInv'
<1> SUFFICES ASSUME GuestInv, [Next]_vars PROVE GuestInv'
  OBVIOUS
<1>1. CASE Pid1Step
  BY <1>1, ForkStep, WaitStep, ReportStep, PowerOffStep DEF Pid1Step
<1>2. CASE \E i \in Workers : WorkerStep(i)
  BY <1>2, SignalWorkerStep, WorkerEndsStep DEF WorkerStep
<1>3. CASE Tick \/ Alarm \/ Signal
  BY <1>3, TimeStep
<1>4. CASE Diagnostic \/ Panic \/ QemuDies \/ HostStep
  BY <1>4, KernelStep, JudgeStep DEF HostStep
<1>5. CASE UNCHANGED vars
  BY <1>5, StillStep
<1> QED BY <1>1, <1>2, <1>3, <1>4, <1>5 DEF Next

LEMMA GuestVerdict == GuestInv => VerdictTrue
<1> SUFFICES ASSUME GuestInv PROVE VerdictTrue
  OBVIOUS
<1>1. PassMeansNoFailure
  BY DEF GuestInv, PassEarned, PassGiven, PassMeansNoFailure, FailurePattern
<1>2. PassMeansFullRun
  BY DEF GuestInv, PassEarned, StopKept, PassMeansFullRun
<1>3. FailuresCounted
  <2> SUFFICES ASSUME pid1.what = "report"
               PROVE  failures = Cardinality({i \in Workers : worker[i] # "exit0"})
    BY DEF FailuresCounted
  <2>1. Counted = {i \in Workers : worker[i] # "exit0"}
    BY DEF Counted, Reaped
  <2> QED BY <2>1 DEF GuestInv, CountedOnce
<1> QED BY <1>1, <1>2, <1>3 DEF VerdictTrue, GuestInv

(* The inductive invariant of the stress run.                              *)
THEOREM GuestInvariant == Spec => []GuestInv
BY GuestInit, GuestStep, PTL DEF Spec

(* However many workers there are and whatever happens to them, to PID 1,  *)
(* to the guest kernel and to QEMU: a pass verdict is given only to a run  *)
(* that powered itself off after every worker ended by itself; a worker in *)
(* it that ended before the deadline was sent a signal or was forked after *)
(* PID 1 was; and the count PID 1 reports is that of the workers that did  *)
(* not end by themselves.                                                  *)
THEOREM VerdictAlwaysTrue == Spec => []VerdictTrue
BY GuestVerdict, GuestInvariant, PTL

==============================================================================
