--------------------------- MODULE PortJob_proofs ---------------------------
(***************************************************************************)
(* The report and the patch of a port job, for every set of workflows,     *)
(* every downstream tree and any number of passes.                         *)
(*                                                                         *)
(* The report.  The invariant behind it follows the status file through    *)
(* the shell: while the probes run it holds the rows of those that have    *)
(* run, and the file of an earlier pass, which a rerun finds, is either    *)
(* begun anew or, in the workflows with one probe, whole.  The counts add  *)
(* up because every row is of a kind its report counts and says that a     *)
(* source is missing exactly where the plan did; a plan, read off the      *)
(* staging programs, is of the probes its workflow reports on.             *)
(*                                                                         *)
(* The patch.  Every file the steps make is named to the index before the  *)
(* last diff, and so is what a walk stages; the walk of local includes     *)
(* reaches the closure of the root in any order and after any kill.        *)
(***************************************************************************)
EXTENDS PortJob, SequenceTheorems, FiniteSetTheorems, WellFoundedInduction, TLAPS

Lists == {Finalize[w].probes : w \in DOMAIN Finalize}
Names == UNION {{probes[i] : i \in 1..Len(probes)} : probes \in Lists}
Outcomes == Planned \cup {"built", "failed", "skipped"}
Rows == Seq(Names \X Outcomes)

InOrder == \A i \in 1..Len(status) : status[i][1] = Probes[i]

JobOK ==
    job \in [w : Workflows,
             phase : {"stage", "compile", "probes", "finalize", "enforce", "done",
                      "refused", "rejected", "killed"},
             step : Nat]

JobInv ==
    /\ JobOK
    /\ status \in Rows
    /\ job.phase = "probes" =>
           /\ job.w \notin Whole
           /\ job.step \in 1..Len(Probes)
           /\ Len(status) = job.step - 1
           /\ InOrder
    /\ job.w \in Whole /\ status # <<>> => OneRowEach
    /\ job.phase \in {"finalize", "enforce", "done"} => OneRowEach
    /\ job.phase = "done" /\ job.w \in MustBuild => Built

Shape(r) == Len(r.probes) \in Nat \ {0} /\ r.counts \subseteq Outcomes

(* No probe list is empty.                                                 *)
LEMMA ProbeLists ==
    /\ Len(Probes53) = 3
    /\ Len(Clocks54) = 4
    /\ Len(Probes55) = 3
    /\ Len(Probes57Rpmh) = 6
    /\ Len(Probes57Core) = 6
    /\ Len(Probes58Bus) = 6
    /\ Len(Probes58Memory) = 6
    /\ Len(Probes59) = 4
    /\ Len(Probes60) = 6
    /\ Len(Probes61) = 4
    /\ Len(Targets62) = 2
    /\ Len(Probes64) = 9
<1>1. Len(Probes53) = 3  BY DEF Probes53
<1>2. Len(Clocks54) = 4  BY DEF Clocks54
<1>3. Len(Probes55) = 3  BY DEF Probes55
<1>4. Len(Probes57Rpmh) = 6  BY DEF Probes57Rpmh
<1>5. Len(Probes57Core) = 6  BY DEF Probes57Core
<1>6. Len(Probes58Bus) = 6  BY DEF Probes58Bus
<1>7. Len(Probes58Memory) = 6  BY DEF Probes58Memory
<1>8. Len(Probes59) = 4  BY DEF Probes59
<1>9. Len(Probes60) = 6  BY DEF Probes60
<1>10. Len(Probes61) = 4  BY DEF Probes61
<1>11. Len(Targets62) = 2  BY DEF Targets62
<1>12. Len(Probes64) = 9  BY DEF Probes64
<1> QED BY <1>1, <1>2, <1>3, <1>4, <1>5, <1>6, <1>7, <1>8, <1>9, <1>10, <1>11, <1>12

(* Every workflow reports on at least one probe, and those that write      *)
(* their status whole on one.                                              *)
LEMMA Reported ==
    \A w \in DOMAIN Finalize :
        Shape(Finalize[w]) /\ (w \in Whole => Len(Finalize[w].probes) = 1)
<1>1. \A w \in DOMAIN Finalize :
          \/ Finalize[w] \in {Finalize53, Finalize54, Finalize55, Finalize56} /\ w \notin Whole
          \/ Finalize[w] \in {Finalize57Rpmh, Finalize57Core, Finalize58Bus, Finalize58Memory}
             /\ w \notin Whole
          \/ Finalize[w] \in {Finalize59, Finalize60, Finalize61, Finalize62, Finalize64}
             /\ w \notin Whole
          \/ Finalize[w] = Finalize66
          \/ Finalize[w] = Report(<<"arm-smmu.o">>, {"compiled", "compile-failed"})
    BY DEF Finalize, Whole
<1>2. Shape(Finalize53) /\ Shape(Finalize54) /\ Shape(Finalize55) /\ Shape(Finalize56)
  <2>1. Unplanned \subseteq Outcomes
      BY DEF Unplanned, Outcomes, Planned
  <2>2. Shape(Finalize53) /\ Shape(Finalize54) /\ Shape(Finalize55)
    <3>1. /\ Finalize53.probes = Probes53 /\ Finalize53.counts = Unplanned
          /\ Finalize54.probes = Clocks54 /\ Finalize54.counts = Unplanned
          /\ Finalize55.probes = Probes55 /\ Finalize55.counts = Unplanned
        BY DEF Finalize53, Finalize54, Finalize55, Report
    <3> QED BY <2>1, <3>1, ProbeLists DEF Shape
  <2>3. Shape(Finalize56)
    <3>1. Len(Finalize56.probes) = 1
        BY DEF Finalize56, Report
    <3>2. Finalize56.counts = {"compiled", "failed", "skipped"}
        BY DEF Finalize56, Report
    <3> QED BY <3>1, <3>2 DEF Shape, Outcomes, Planned
  <2> QED BY <2>2, <2>3
<1>3. /\ Shape(Finalize57Rpmh) /\ Shape(Finalize57Core)
      /\ Shape(Finalize58Bus) /\ Shape(Finalize58Memory)
    BY ProbeLists DEF Finalize57Rpmh, Finalize57Core, Finalize58Bus, Finalize58Memory,
                      Report, Shape, Outcomes, Planned
<1>4. /\ Shape(Finalize59) /\ Shape(Finalize60) /\ Shape(Finalize61)
      /\ Shape(Finalize62) /\ Shape(Finalize64)
    BY ProbeLists DEF Finalize59, Finalize60, Finalize61, Finalize62, Finalize64, Report,
                      Shape, Outcomes, Planned
<1>5. Shape(Finalize66) /\ Len(Finalize66.probes) = 1
    BY DEF Finalize66, Report, Shape, Outcomes, Planned
<1>6. LET r == Report(<<"arm-smmu.o">>, {"compiled", "compile-failed"})
      IN Shape(r) /\ Len(r.probes) = 1
    BY DEF Report, Shape, Outcomes, Planned
<1> QED BY <1>1, <1>2, <1>3, <1>4, <1>5, <1>6

(* The running workflow reports on at least one probe.                     *)
LEMMA OwnReport ==
    ASSUME JobInv
    PROVE  /\ Len(Probes) \in Nat \ {0}
           /\ \A i \in 1..Len(Probes) : Probes[i] \in Names
           /\ Kinds \subseteq Outcomes
           /\ job.w \in Whole => Len(Probes) = 1
BY Reported, WorkflowsAssumption
   DEF JobInv, JobOK, Probes, Kinds, Shape, Names, Lists

(* No step of the staging touches the status file or the workflow, none    *)
(* but the plan touches the missing probes, and none leads further than    *)
(* the compile step.                                                       *)
Moves ==
    \/ Advance \/ Refuse \/ UNCHANGED job
    \/ job' = [job EXCEPT !.phase = "rejected"]

LEMMA StagingStep ==
    ASSUME JobOK, Stage
    PROVE  /\ status' = status
           /\ missing' = missing \/ PlanProbes
           /\ Moves
           /\ job.phase = "stage"
           /\ job' \in [w : {job.w}, phase : {"stage", "compile", "refused", "rejected"},
                        step : Nat]
<1> DEFINE Small == /\ status' = status /\ (missing' = missing \/ PlanProbes)
                    /\ job.phase = "stage" /\ Moves
<1> USE DEF At, StageVars, Moves
<1>1. NeedDownstream => Small
    BY DEF NeedDownstream
<1>2. NeedFile => Small
    BY DEF NeedFile
<1>3. CopyFile => Small
    BY DEF CopyFile
<1>4. AdaptFile => Small
    BY DEF AdaptFile
<1>5. WriteFile => Small
    BY DEF WriteFile
<1>6. EditFile => Small
    BY DEF EditFile
<1>7. SeedRoot => Small
    BY DEF SeedRoot
<1>8. LocalInclude => Small
    BY DEF LocalInclude
<1>9. LocalsDone => Small
    BY DEF LocalsDone
<1>10. Binding => Small
    BY DEF Binding, MergeBinding
<1>11. BindingsDone => Small
    BY DEF BindingsDone
<1>12. SeedHeaders => Small
    BY DEF SeedHeaders
<1>13. Header => Small
    BY DEF Header
<1>14. HeadersDone => Small
    BY DEF HeadersDone
<1>15. AddIntent => Small
    BY DEF AddIntent
<1>16. WriteDiff => Small
    BY DEF WriteDiff
<1>17. Normalize => Small
    BY DEF Normalize
<1>18. CheckWhitespace => Small
    BY DEF CheckWhitespace
<1>19. PlanProbes => Small
    BY DEF PlanProbes
<1>20. AuditConfig => Small
    BY DEF AuditConfig
<1>21. Small
    BY <1>1, <1>2, <1>3, <1>4, <1>5, <1>6, <1>7, <1>8, <1>9, <1>10, <1>11, <1>12,
       <1>13, <1>14, <1>15, <1>16, <1>17, <1>18, <1>19, <1>20
       DEF Stage
<1>22. ASSUME JobOK, job.phase = "stage", Moves
       PROVE  job' \in [w : {job.w}, phase : {"stage", "compile", "refused", "rejected"},
                        step : Nat]
    BY <1>22 DEF JobOK, Advance, Refuse
<1> QED BY <1>21, <1>22

-----------------------------------------------------------------------------
(* A job begins with no status file.                                       *)
LEMMA InitJob == Init => JobInv
BY WorkflowsAssumption
   DEF Init, JobInv, JobOK, Rows, OneRowEach

(* Staging changes neither, and ends before the phases JobInv speaks of.   *)
LEMMA StageKeeps == JobInv /\ Stage => JobInv'
<1> SUFFICES ASSUME JobInv, Stage PROVE JobInv'
    OBVIOUS
<1>1. JobOK
    BY DEF JobInv
<1>2. /\ status' = status /\ job.phase = "stage"
      /\ job' \in [w : {job.w}, phase : {"stage", "compile", "refused", "rejected"},
                   step : Nat]
    BY <1>1, StagingStep
<1>3. JobOK'
    BY <1>1, <1>2 DEF JobOK
<1>4. (job.w \in Whole /\ status # <<>> => OneRowEach)'
    BY <1>2 DEF JobInv, OneRowEach, Probes
<1> QED BY <1>2, <1>3, <1>4 DEF JobInv

(* The status file is begun anew.                                          *)
LEMMA OpenKeeps == JobInv /\ OpenStatus => JobInv'
<1> SUFFICES ASSUME JobInv, OpenStatus PROVE JobInv'
    OBVIOUS
<1>1. Len(Probes) \in Nat \ {0}
    BY OwnReport
<1>2. job' \in [w : {job.w}, phase : {"probes"}, step : {1}]
    BY DEF JobInv, JobOK, OpenStatus, Phase
<1>3. Probes' = Probes /\ status' = <<>> /\ job.w \notin Whole
    BY <1>2 DEF Probes, OpenStatus
<1>4. JobOK' /\ (status \in Rows)'
    BY <1>2, <1>3 DEF JobInv, JobOK, Rows
<1>5. Len(status') = 0 /\ InOrder'
    BY <1>3 DEF InOrder
<1> QED BY <1>1, <1>2, <1>3, <1>4, <1>5 DEF JobInv

(* The row a probe adds is its own, in its place.                          *)
LEMMA RunKeeps == JobInv /\ RunProbe => JobInv'
<1> SUFFICES ASSUME JobInv, RunProbe PROVE JobInv'
    OBVIOUS
<1>1. /\ Len(Probes) \in Nat \ {0} /\ Kinds \subseteq Outcomes
      /\ \A i \in 1..Len(Probes) : Probes[i] \in Names
    BY OwnReport
<1>2. /\ job.w \notin Whole /\ job.step \in 1..Len(Probes)
      /\ Len(status) = job.step - 1 /\ InOrder
      /\ status \in Rows /\ JobOK
    BY DEF JobInv, RunProbe
<1>3. PICK result \in Results(job.w, Probes[job.step], missing) :
          status' = Append(status, <<Probes[job.step], result>>)
    BY DEF RunProbe
<1>4. result \in Outcomes
    BY <1>1, <1>3 DEF Results, Outcomes, Planned, Kinds
<1>5. <<Probes[job.step], result>> \in Names \X Outcomes
    BY <1>1, <1>2, <1>4
<1>6. /\ status' \in Rows /\ Len(status') = job.step
      /\ \A i \in 1..job.step :
             status'[i] = IF i = job.step THEN <<Probes[job.step], result>> ELSE status[i]
    BY <1>2, <1>3, <1>5 DEF Rows
<1>7. \/ job.step < Len(Probes)
         /\ job' \in [w : {job.w}, phase : {"probes"}, step : {job.step + 1}]
      \/ job.step = Len(Probes)
         /\ job' \in [w : {job.w}, phase : {"finalize"}, step : {1}]
  <2>1. CASE job.step < Len(Probes)
    <3>1. job' = [job EXCEPT !.step = job.step + 1] /\ job.phase = "probes"
        BY <2>1 DEF RunProbe
    <3> QED BY <1>2, <2>1, <3>1 DEF JobOK
  <2>2. CASE job.step = Len(Probes)
    <3>1. job' = [job EXCEPT !.phase = "finalize", !.step = 1]
        BY <1>1, <2>2 DEF RunProbe, Phase
    <3> QED BY <1>2, <2>2, <3>1 DEF JobOK
  <2> QED BY <1>1, <1>2, <2>1, <2>2
<1>8. Probes' = Probes /\ job'.w = job.w
    BY <1>7 DEF Probes
<1>9. InOrder'
  <2>1. SUFFICES ASSUME NEW i \in 1..job.step PROVE status'[i][1] = Probes[i]
      BY <1>6, <1>8 DEF InOrder
  <2>2. CASE i = job.step
    <3>1. status'[i] = <<Probes[job.step], result>>
        BY <1>6, <2>2
    <3> QED BY <2>2, <3>1
  <2>3. CASE i # job.step
    <3>1. i \in 1..Len(status) /\ status'[i] = status[i]
        BY <1>2, <1>6, <2>3
    <3> QED BY <1>2, <3>1 DEF InOrder
  <2> QED BY <2>2, <2>3
<1>10. JobOK'
    BY <1>2, <1>7 DEF JobOK
<1>11. job'.phase = "finalize" => OneRowEach'
    BY <1>6, <1>7, <1>8, <1>9 DEF OneRowEach, InOrder
<1> QED BY <1>1, <1>2, <1>6, <1>7, <1>8, <1>9, <1>10, <1>11 DEF JobInv

(* A workflow with one probe writes its row and the others at once.        *)
LEMMA WholeKeeps == JobInv /\ RunWhole => JobInv'
<1> SUFFICES ASSUME JobInv, RunWhole PROVE JobInv'
    OBVIOUS
<1>1. /\ Len(Probes) = 1 /\ Kinds \subseteq Outcomes
      /\ \A i \in 1..Len(Probes) : Probes[i] \in Names
    BY OwnReport DEF RunWhole, JobInv, JobOK
<1>2. PICK result \in Results(job.w, Probes[1], missing) :
          status' = <<<<Probes[1], result>>>>
    BY DEF RunWhole
<1>3. <<Probes[1], result>> \in Names \X Outcomes
  <2>1. result \in Kinds
      BY <1>2 DEF RunWhole, Whole, Results, Kinds
  <2> QED BY <1>1, <2>1
<1>4. status' \in Rows
    BY <1>2, <1>3 DEF Rows
<1>5. JobOK /\ job' \in [w : {job.w}, phase : {"finalize"}, step : {1}]
    BY DEF RunWhole, Phase, JobInv, JobOK
<1>6. Probes' = Probes /\ job'.w = job.w /\ JobOK'
    BY <1>5 DEF Probes, JobOK
<1>7. OneRowEach'
    BY <1>1, <1>2, <1>6 DEF OneRowEach
<1> QED BY <1>4, <1>5, <1>6, <1>7 DEF JobInv

(* Where the shell stops, and where workflow 66 goes on with the status of *)
(* an earlier pass: that file is whole.                                    *)
LEMMA ConfigureKeeps == JobInv /\ ConfigureFails => JobInv'
<1> SUFFICES ASSUME JobInv, ConfigureFails PROVE JobInv'
    OBVIOUS
<1>1. status' = status /\ JobOK
    BY DEF ConfigureFails, JobInv
<1>2. \/ job' \in [w : {job.w}, phase : {"rejected"}, step : {1}]
      \/ /\ job' \in [w : {job.w}, phase : {"finalize"}, step : {1}]
         /\ job.w = "w66" /\ status # <<>>
    BY <1>1 DEF ConfigureFails, Phase, JobOK
<1>3. Probes' = Probes /\ job'.w = job.w /\ JobOK'
    BY <1>1, <1>2 DEF Probes, JobOK
<1>4. OneRowEach => OneRowEach'
    BY <1>1, <1>3 DEF OneRowEach
<1> QED BY <1>1, <1>2, <1>3, <1>4 DEF JobInv, Whole

(* finalize reads the status file and leaves it alone.                     *)
LEMMA PublishKeeps == JobInv /\ Publish => JobInv'
<1> SUFFICES ASSUME JobInv, Publish PROVE JobInv'
    OBVIOUS
<1>1. status' = status /\ JobOK /\ OneRowEach
    BY DEF Publish, ShellVars, JobInv
<1>2. job' \in [w : {job.w}, phase : {"enforce", "rejected"}, step : {1}]
    BY <1>1 DEF Publish, Phase, JobOK
<1>3. Probes' = Probes /\ job'.w = job.w /\ JobOK'
    BY <1>1, <1>2 DEF Probes, JobOK
<1>4. OneRowEach'
    BY <1>1, <1>3 DEF OneRowEach
<1> QED BY <1>1, <1>2, <1>3, <1>4 DEF JobInv

(* A job that must build is done only if everything was.                   *)
LEMMA EnforceKeeps == JobInv /\ Enforce => JobInv'
<1> SUFFICES ASSUME JobInv, Enforce PROVE JobInv'
    OBVIOUS
<1>1. status' = status /\ JobOK /\ OneRowEach
    BY DEF Enforce, ShellVars, JobInv
<1>2. \/ job' \in [w : {job.w}, phase : {"rejected"}, step : {1}]
      \/ /\ job' \in [w : {job.w}, phase : {"done"}, step : {1}]
         /\ job.w \in MustBuild => Built
    BY <1>1 DEF Enforce, Phase, JobOK
<1>3. Probes' = Probes /\ job'.w = job.w /\ JobOK'
    BY <1>1, <1>2 DEF Probes, JobOK
<1>4. OneRowEach' /\ (Built => Built')
    BY <1>1, <1>3 DEF OneRowEach, Built
<1> QED BY <1>1, <1>2, <1>3, <1>4 DEF JobInv

(* A kill leaves the status file as it is, and so does a rerun.            *)
LEMMA KillKeeps == JobInv /\ Kill => JobInv'
<1> SUFFICES ASSUME JobInv, Kill PROVE JobInv'
    OBVIOUS
<1>1. status' = status /\ JobOK /\ job' = [job EXCEPT !.phase = "killed"]
    BY DEF Kill, JobInv
<1>2. job' \in [w : {job.w}, phase : {"killed"}, step : Nat] /\ JobOK'
    BY <1>1 DEF JobOK
<1>3. OneRowEach => OneRowEach'
    BY <1>1, <1>2 DEF OneRowEach, Probes
<1> QED BY <1>1, <1>2, <1>3 DEF JobInv

(* The next pass finds the status file of the last one.                    *)
LEMMA NextPassKeeps == JobInv /\ (Checkout \/ Rerun) => JobInv'
<1> SUFFICES ASSUME JobInv, Checkout \/ Rerun PROVE JobInv'
    OBVIOUS
<1>1. (status' = status \/ status' = <<>>) /\ JobOK /\ NextPass
    BY DEF Checkout, Rerun, JobInv
<1>2. job' \in [w : {job.w}, phase : {"stage"}, step : {1}] /\ JobOK'
    BY <1>1 DEF NextPass, JobOK
<1>3. OneRowEach /\ status' = status => OneRowEach'
    BY <1>2 DEF OneRowEach, Probes
<1>4. status' \in Rows
  <2>1. <<>> \in Rows
      BY DEF Rows
  <2> QED BY <1>1, <2>1 DEF JobInv
<1>5. job.w \in Whole /\ status' # <<>> => OneRowEach'
    BY <1>1, <1>3 DEF JobInv
<1> QED BY <1>2, <1>4, <1>5 DEF JobInv

(* Every step keeps the invariant.                                         *)
LEMMA JobStep == JobInv /\ [Next]_vars => JobInv'
<1> SUFFICES ASSUME JobInv, [Next]_vars PROVE JobInv'
    OBVIOUS
<1>1. CASE Stage  BY <1>1, StageKeeps
<1>2. CASE Shell
    BY <1>2, OpenKeeps, RunKeeps, WholeKeeps, ConfigureKeeps, PublishKeeps, EnforceKeeps
       DEF Shell
<1>3. CASE Kill  BY <1>3, KillKeeps
<1>4. CASE Checkout \/ Rerun  BY <1>4, NextPassKeeps
<1>5. CASE UNCHANGED vars
  <2>1. job' = job /\ status' = status /\ Probes' = Probes
      BY <1>5 DEF vars, Probes
  <2> QED BY <2>1 DEF JobInv, JobOK, InOrder, OneRowEach, Built
<1> QED BY <1>1, <1>2, <1>3, <1>4, <1>5 DEF Next

(* Whatever the workflows, the downstream trees and the number of passes,  *)
(* and wherever a pass was killed: a report stands on one row for each     *)
(* probe, and a job that must build ends well only if everything was.      *)
THEOREM EveryProbeReported == Spec => []EveryProbeOnce
<1>1. JobInv => EveryProbeOnce
    BY DEF JobInv, EveryProbeOnce
<1> QED BY <1>1, InitJob, JobStep, PTL DEF Spec

-----------------------------------------------------------------------------
(***************************************************************************)
(* Counting the rows by kind.  A set of sets of least cardinality: the     *)
(* induction over data that the fold of the counts needs.                  *)
(***************************************************************************)
Less == {x \in Nat \X Nat : x[1] < x[2]}

LEMMA Smallest ==
    ASSUME NEW T \in SUBSET Nat, T # {}
    PROVE  \E x \in T : \A y \in T : x <= y
<1>1. Less = OpToRel(<, Nat)
    BY DEF Less, OpToRel
<1>2. IsWellFoundedOn(Less, Nat)
    BY <1>1, NatLessThanWellFounded
<1>3. PICK x \in T : \A y \in T : ~(<<y, x>> \in Less)
    BY <1>2, WFMin
<1>4. ASSUME NEW y \in T, y < x PROVE FALSE
  <2>1. <<y, x>> \in Nat \X Nat /\ <<y, x>>[1] < <<y, x>>[2]
      BY <1>4
  <2> QED BY <1>3, <2>1 DEF Less
<1> QED BY <1>4

LEMMA SmallestSet ==
    ASSUME NEW S, IsFiniteSet(S), NEW B \in SUBSET SUBSET S, B # {}
    PROVE  \E s \in B : \A t \in B : Cardinality(s) <= Cardinality(t)
<1> DEFINE T == {Cardinality(s) : s \in B}
<1>1. \A s \in B : Cardinality(s) \in Nat
    BY FS_Subset, FS_CardinalityType
<1>2. T \in SUBSET Nat /\ T # {}
    BY <1>1
<1>3. PICK n \in T : \A m \in T : n <= m
    BY <1>2, Smallest
<1> QED BY <1>3

(* The fold that adds up r over a set, as the library defines it.          *)
Sums(f, r, S) ==
    f = [s \in SUBSET S |->
            IF s = {} THEN 0
            ELSE r[CHOOSE x \in s : TRUE] + f[s \ {CHOOSE x \in s : TRUE}]]

LEMMA SumsOnce ==
    ASSUME NEW S, IsFiniteSet(S), NEW r, NEW f, NEW g, Sums(f, r, S), Sums(g, r, S)
    PROVE  f[S] = g[S]
<1> DEFINE B == {s \in SUBSET S : f[s] # g[s]}
<1> SUFFICES ASSUME B # {} PROVE FALSE
    OBVIOUS
<1>1. PICK s \in B : \A t \in B : Cardinality(s) <= Cardinality(t)
    BY SmallestSet
<1> DEFINE x == CHOOSE x \in s : TRUE
           t == s \ {x}
<1>2. /\ f[s] = IF s = {} THEN 0 ELSE r[x] + f[t]
      /\ g[s] = IF s = {} THEN 0 ELSE r[x] + g[t]
    BY DEF Sums
<1>3. s # {}
    BY <1>2
<1>4. x \in s
    BY <1>3
<1> HIDE DEF x
<1>5. IsFiniteSet(s) /\ Cardinality(s) \in Nat /\ Cardinality(t) = Cardinality(s) - 1
    BY <1>4, FS_Subset, FS_RemoveElement, FS_CardinalityType
<1>6. t \notin B
    BY <1>1, <1>5
<1>7. f[t] = g[t]
    BY <1>6
<1> QED BY <1>1, <1>2, <1>3, <1>7

(* Adding up the rows of each kind counts the rows of all of them.         *)
Total(r, S) == FoldSet(LAMBDA kind, n : r[kind] + n, 0, S)
RowsIn(rows, s) == {i \in DOMAIN rows : rows[i][2] \in s}

LEMMA RowsAddUp ==
    ASSUME NEW rows, NEW n \in Nat, DOMAIN rows = 1..n, NEW S, IsFiniteSet(S), NEW r,
           \A kind \in S : r[kind] = Cardinality({i \in DOMAIN rows : rows[i][2] = kind})
    PROVE  Total(r, S) = Cardinality(RowsIn(rows, S))
<1> DEFINE g == [s \in SUBSET S |-> Cardinality(RowsIn(rows, s))]
           f == CHOOSE f : Sums(f, r, S)
<1>1. \A s : IsFiniteSet(RowsIn(rows, s)) /\ Cardinality(RowsIn(rows, s)) \in Nat
  <2>1. IsFiniteSet(1..n)
      BY FS_Interval
  <2> QED BY <2>1, FS_Subset, FS_CardinalityType DEF RowsIn
<1>2. ASSUME NEW s \in SUBSET S, s # {}, NEW x \in s
      PROVE  Cardinality(RowsIn(rows, s)) = r[x] + Cardinality(RowsIn(rows, s \ {x}))
  <2>1. RowsIn(rows, s) = RowsIn(rows, {x}) \cup RowsIn(rows, s \ {x})
      BY DEF RowsIn
  <2>2. RowsIn(rows, {x}) \cap RowsIn(rows, s \ {x}) = {}
      BY DEF RowsIn
  <2>3. r[x] = Cardinality(RowsIn(rows, {x}))
    <3>1. {i \in DOMAIN rows : rows[i][2] = x} = RowsIn(rows, {x})
        BY DEF RowsIn
    <3> QED BY <3>1
  <2>4. Cardinality({}) = 0
      BY FS_EmptySet
  <2> PICK a, b : a = RowsIn(rows, {x}) /\ b = RowsIn(rows, s \ {x})
      OBVIOUS
  <2>5. Cardinality(a \cup b) = Cardinality(a) + Cardinality(b) - Cardinality(a \cap b)
      BY <1>1, FS_Union
  <2>6. Cardinality(a) \in Nat /\ Cardinality(b) \in Nat
      BY <1>1
  <2>7. Cardinality(a \cup b) = Cardinality(a) + Cardinality(b)
    <3>1. Cardinality(a \cap b) = 0
        BY <2>2, <2>4
    <3> QED BY <2>5, <2>6, <3>1
  <2>8. Cardinality(RowsIn(rows, s)) = Cardinality(a \cup b) /\ r[x] = Cardinality(a)
      BY <2>1, <2>3
  <2> QED BY <2>7, <2>8
<1>3. Sums(g, r, S)
  <2>1. ASSUME NEW s \in SUBSET S
        PROVE  g[s] = IF s = {} THEN 0
                      ELSE r[CHOOSE x \in s : TRUE] + g[s \ {CHOOSE x \in s : TRUE}]
    <3>1. CASE s = {}
      <4>1. RowsIn(rows, {}) = {}
          BY DEF RowsIn
      <4> QED BY <3>1, <4>1, FS_EmptySet
    <3>2. CASE s # {}
      <4> PICK x : x = CHOOSE y \in s : TRUE
          OBVIOUS
      <4>1. x \in s
          BY <3>2
      <4> QED BY <1>2, <3>2, <4>1
    <3> QED BY <3>1, <3>2
  <2>2. g = [s \in SUBSET S |-> g[s]]
      OBVIOUS
  <2> HIDE DEF g
  <2> QED BY <2>1, <2>2 DEF Sums
<1>4. Sums(f, r, S)
    BY <1>3
<1>5. Total(r, S) = (CHOOSE h : Sums(h, r, S))[S]
    BY Zenon DEF Total, FoldSet, MapThenFoldSet, Sums
<1>6. f[S] = g[S]
    BY <1>3, <1>4, SumsOnce
<1> QED BY <1>5, <1>6

-----------------------------------------------------------------------------
(***************************************************************************)
(* The plan.  A script that plans probes plans those its workflow reports  *)
(* on, and its report has the kinds of a planned one; the others plan none.*)
(***************************************************************************)
Listed(s) == s \in Seq(ToSet(s)) /\ Len(s) > 0

Quiet == {"need", "source", "copy", "adapt", "edit", "write", "intent", "diff",
          "normalize", "check", "audit"}

Makes(step) ==
    CASE step.op = "copy" -> {step.to}
      [] step.op \in {"write", "adapt"} -> {step.file}
      [] OTHER -> {}

Tame(step, F) == step.op \in Quiet /\ Makes(step) \subseteq F

Plain(s, F) == Listed(s) /\ \A i \in DOMAIN s : Tame(s[i], F)

(* u is s followed by t.                                                   *)
IsJoin(u, s, t) ==
    /\ Listed(u) /\ Len(s) \in Nat /\ Len(t) \in Nat
    /\ DOMAIN s = 1..Len(s) /\ DOMAIN t = 1..Len(t) /\ DOMAIN u = 1..(Len(s) + Len(t))
    /\ \A i \in DOMAIN s : i \in DOMAIN u /\ u[i] = s[i]
    /\ \A k \in DOMAIN t : Len(s) + k \in DOMAIN u /\ u[Len(s) + k] = t[k]
    /\ \A i \in DOMAIN u :
           \/ i \in DOMAIN s /\ u[i] = s[i]
           \/ \E k \in DOMAIN t : i = Len(s) + k /\ u[i] = t[k]

LEMMA Joined ==
    ASSUME NEW s, NEW t, Listed(s), Listed(t)
    PROVE  IsJoin(s \o t, s, t)
<1> DEFINE S == ToSet(s) \cup ToSet(t)
           u == s \o t
<1>1. s \in Seq(S) /\ t \in Seq(S)
    BY DEF Listed
<1>2. /\ u \in Seq(S) /\ Len(u) = Len(s) + Len(t)
      /\ \A i \in 1..Len(u) : u[i] = IF i <= Len(s) THEN s[i] ELSE t[i - Len(s)]
    BY <1>1, ConcatProperties
<1>3. /\ Len(s) \in Nat /\ Len(t) \in Nat /\ DOMAIN s = 1..Len(s) /\ DOMAIN t = 1..Len(t)
      /\ DOMAIN u = 1..(Len(s) + Len(t))
    BY <1>1, <1>2
<1> HIDE DEF u, S
<1>4. Listed(u)
  <2>1. \A i \in 1..Len(u) : u[i] \in ToSet(u)
      BY <1>2, <1>3 DEF ToSet
  <2>2. u \in Seq(ToSet(u))
      BY <1>2, <1>3, <2>1
  <2>3. Len(u) > 0
    <3>1. Len(s) > 0
        BY DEF Listed
    <3> QED BY <1>2, <1>3, <3>1
  <2> QED BY <2>2, <2>3 DEF Listed
<1>5. \A i \in 1..Len(s) : i \in DOMAIN u /\ u[i] = s[i]
    BY <1>2, <1>3
<1>6. ASSUME NEW i \in 1..Len(t) PROVE Len(s) + i \in DOMAIN u /\ u[Len(s) + i] = t[i]
  <2>1. Len(s) + i \in 1..Len(u) /\ ~(Len(s) + i <= Len(s)) /\ (Len(s) + i) - Len(s) = i
      BY <1>2, <1>3
  <2> QED BY <1>2, <1>3, <2>1
<1>7. ASSUME NEW i \in DOMAIN u, i \notin 1..Len(s)
      PROVE  \E k \in 1..Len(t) : i = Len(s) + k /\ u[i] = t[k]
  <2>1. i - Len(s) \in 1..Len(t) /\ i = Len(s) + (i - Len(s))
      BY <1>3, <1>7
  <2> QED BY <1>6, <2>1
<1> QED BY <1>3, <1>4, <1>5, <1>6, <1>7 DEF u, IsJoin

LEMMA JoinedPlain ==
    ASSUME NEW F, NEW s, NEW t, Plain(s, F), Plain(t, F)
    PROVE  Plain(s \o t, F)
<1> PICK u : u = s \o t
    OBVIOUS
<1>1. IsJoin(u, s, t)
    BY Joined DEF Plain
<1> QED BY <1>1 DEF Plain, IsJoin

LEMMA ListPlain ==
    ASSUME NEW F, NEW s, NEW n \in Nat, n > 0, s = [i \in 1..n |-> s[i]],
           \A i \in 1..n : Tame(s[i], F)
    PROVE  Plain(s, F)
<1>1. DOMAIN s = 1..n /\ \A i \in 1..n : s[i] \in ToSet(s)
    BY DEF ToSet
<1>2. s \in Seq(ToSet(s)) /\ Len(s) = n
    BY <1>1
<1> QED BY <1>1, <1>2 DEF Plain, Listed

LEMMA Plain1 ==
    ASSUME NEW F, NEW a, Tame(a, F)
    PROVE  Plain(<<a>>, F)
<1>1. DOMAIN <<a>> = 1..1 /\ <<a>>[1] = a
    OBVIOUS
<1>2. <<a>> \in Seq({a}) /\ ToSet(<<a>>) = {a}
    BY DEF ToSet
<1>3. Len(<<a>>) > 0
    OBVIOUS
<1> QED BY <1>1, <1>2, <1>3 DEF Plain, Listed

LEMMA Plain2 ==
    ASSUME NEW F, NEW a1, NEW a2,
           \A a \in {a1, a2} : Tame(a, F)
    PROVE  Plain(<<a1, a2>>, F)
<1> PICK s : s = <<a1, a2>>
    OBVIOUS
<1>1. s = [i \in 1..2 |-> s[i]]
    OBVIOUS
<1>2. \A i \in 1..2 : s[i] \in {a1, a2}
    OBVIOUS
<1>3. 2 \in Nat /\ 2 > 0 /\ \A i \in 1..2 : Tame(s[i], F)
    BY <1>2
<1> QED BY <1>1, <1>3, ListPlain, Zenon

LEMMA Plain3 ==
    ASSUME NEW F, NEW a1, NEW a2, NEW a3,
           \A a \in {a1, a2, a3} : Tame(a, F)
    PROVE  Plain(<<a1, a2, a3>>, F)
<1> PICK s : s = <<a1, a2, a3>>
    OBVIOUS
<1>1. s = [i \in 1..3 |-> s[i]]
    OBVIOUS
<1>2. \A i \in 1..3 : s[i] \in {a1, a2, a3}
    OBVIOUS
<1>3. 3 \in Nat /\ 3 > 0 /\ \A i \in 1..3 : Tame(s[i], F)
    BY <1>2
<1> QED BY <1>1, <1>3, ListPlain, Zenon

LEMMA Plain4 ==
    ASSUME NEW F, NEW a1, NEW a2, NEW a3, NEW a4,
           \A a \in {a1, a2, a3, a4} : Tame(a, F)
    PROVE  Plain(<<a1, a2, a3, a4>>, F)
<1> PICK s : s = <<a1, a2, a3, a4>>
    OBVIOUS
<1>1. s = [i \in 1..4 |-> s[i]]
    OBVIOUS
<1>2. \A i \in 1..4 : s[i] \in {a1, a2, a3, a4}
    OBVIOUS
<1>3. 4 \in Nat /\ 4 > 0 /\ \A i \in 1..4 : Tame(s[i], F)
    BY <1>2
<1> QED BY <1>1, <1>3, ListPlain, Zenon

LEMMA Plain11 ==
    ASSUME NEW F, NEW a1, NEW a2, NEW a3, NEW a4, NEW a5, NEW a6,
           NEW a7, NEW a8, NEW a9, NEW a10, NEW a11,
           \A a \in {a1, a2, a3, a4, a5, a6, a7, a8, a9, a10, a11} : Tame(a, F)
    PROVE  Plain(<<a1, a2, a3, a4, a5, a6, a7, a8, a9, a10, a11>>, F)
<1> PICK s : s = <<a1, a2, a3, a4, a5, a6, a7, a8, a9, a10, a11>>
    OBVIOUS
<1>1. s = [i \in 1..11 |-> s[i]]
    OBVIOUS
<1>2. \A i \in 1..11 : s[i] \in {a1, a2, a3, a4, a5, a6, a7, a8, a9, a10, a11}
    OBVIOUS
<1>3. 11 \in Nat /\ 11 > 0 /\ \A i \in 1..11 : Tame(s[i], F)
    BY <1>2
<1> QED BY <1>1, <1>3, ListPlain, Zenon

LEMMA Plain16 ==
    ASSUME NEW F, NEW a1, NEW a2, NEW a3, NEW a4, NEW a5, NEW a6,
           NEW a7, NEW a8, NEW a9, NEW a10, NEW a11, NEW a12,
           NEW a13, NEW a14, NEW a15, NEW a16,
           \A a \in {a1, a2, a3, a4, a5, a6, a7, a8, a9, a10, a11, a12, a13, a14, a15, a16} : Tame(a, F)
    PROVE  Plain(<<a1, a2, a3, a4, a5, a6, a7, a8, a9, a10, a11, a12, a13, a14, a15, a16>>, F)
<1> PICK s : s = <<a1, a2, a3, a4, a5, a6, a7, a8, a9, a10, a11, a12, a13, a14, a15, a16>>
    OBVIOUS
<1>1. s = [i \in 1..16 |-> s[i]]
    OBVIOUS
<1>2. \A i \in 1..16 : s[i] \in {a1, a2, a3, a4, a5, a6, a7, a8, a9, a10, a11, a12, a13, a14, a15, a16}
    OBVIOUS
<1>3. 16 \in Nat /\ 16 > 0 /\ \A i \in 1..16 : Tame(s[i], F)
    BY <1>2
<1> QED BY <1>1, <1>3, ListPlain, Zenon

Seeds == {"seed_root", "seed_headers"}
Walking == Seeds \cup {"local_include", "binding", "header"}

Indexed(s) ==
    \A i \in DOMAIN s : \A path \in Makes(s[i]) : \E j \in DOMAIN s : path \in Indexes(s[j])

Calm(s) == Listed(s) /\ \A i \in DOMAIN s : s[i].op \notin Walking \cup {"intent_walked"}

(* A step that walks comes after its seed and before the walk is indexed.  *)
InTurn(s, i) ==
    /\ s[i].op \in Walking => \E j \in DOMAIN s : j > i /\ s[j].op = "intent_walked"
    /\ s[i].op = "intent_walked" => \A j \in DOMAIN s : j > i => s[j].op \notin Walking
    /\ s[i].op \in Seeds => \A j \in DOMAIN s : j < i => s[j].op \notin Walking
    /\ s[i].op = "local_include" => i > 1 /\ s[i - 1].op = "seed_root"
    /\ s[i].op = "header" => i > 1 /\ s[i - 1].op = "seed_headers"

Walks(s) == Listed(s) /\ \A i \in DOMAIN s : InTurn(s, i)

(* The last step that is not a whitespace check writes the whole patch.    *)
FullDiff(s, n) ==
    /\ s[n].op = "diff" /\ s[n].only = {}
    /\ \A i \in DOMAIN s : i > n => s[i].op = "check"

Ends(s) == \E n \in DOMAIN s : FullDiff(s, n)

Headless(s) == \A i \in DOMAIN s : s[i].op # "seed_headers"

LEMMA JoinedIndexed ==
    ASSUME NEW s, NEW t, Listed(s), Listed(t), Indexed(s), Indexed(t)
    PROVE  Indexed(s \o t)
<1> PICK u : u = s \o t
    OBVIOUS
<1>0. IsJoin(u, s, t)
    BY Joined
<1> SUFFICES ASSUME NEW i \in DOMAIN u, NEW path \in Makes(u[i])
             PROVE  \E j \in DOMAIN u : path \in Indexes(u[j])
    BY DEF Indexed
<1>1. CASE i \in DOMAIN s /\ u[i] = s[i]
  <2>1. PICK j \in DOMAIN s : path \in Indexes(s[j])
      BY <1>1 DEF Indexed
  <2> QED BY <1>0, <2>1 DEF IsJoin
<1>2. CASE \E k \in DOMAIN t : u[i] = t[k]
  <2>1. PICK k \in DOMAIN t : u[i] = t[k]
      BY <1>2
  <2>2. PICK j \in DOMAIN t : path \in Indexes(t[j])
      BY <2>1 DEF Indexed
  <2> QED BY <1>0, <2>2 DEF IsJoin
<1> QED BY <1>0, <1>1, <1>2 DEF IsJoin

LEMMA JoinedCalm ==
    ASSUME NEW s, NEW t, Calm(s), Calm(t)
    PROVE  Calm(s \o t)
<1> PICK u : u = s \o t
    OBVIOUS
<1>1. IsJoin(u, s, t)
    BY Joined DEF Calm
<1>2. \A i \in DOMAIN u : u[i].op \notin Walking \cup {"intent_walked"}
    BY <1>1 DEF Calm, IsJoin
<1> QED BY <1>1, <1>2 DEF Calm, IsJoin

LEMMA WalksThenCalm ==
    ASSUME NEW s, NEW t, Walks(s), Calm(t)
    PROVE  Walks(s \o t)
<1> PICK u : u = s \o t
    OBVIOUS
<1>1. IsJoin(u, s, t)
    BY Joined DEF Calm, Walks
<1>2. \A i \in DOMAIN s : i \in DOMAIN u /\ u[i] = s[i] /\ (i > 1 => i - 1 \in DOMAIN s)
    BY <1>1 DEF IsJoin
<1>3. ASSUME NEW i \in DOMAIN u
      PROVE  i \in DOMAIN s \/ u[i].op \notin Walking \cup {"intent_walked"}
    BY <1>1 DEF IsJoin, Calm
<1>4. "local_include" \in Walking /\ "header" \in Walking /\ Seeds \subseteq Walking
    BY DEF Walking
<1>5. ASSUME NEW i \in DOMAIN u PROVE InTurn(u, i)
  <2>1. CASE i \in DOMAIN s
    <3>1. InTurn(s, i)
        BY <2>1 DEF Walks
    <3> QED BY <1>2, <1>3, <2>1, <3>1 DEF InTurn
  <2>2. CASE u[i].op \notin Walking \cup {"intent_walked"}
      BY <1>4, <2>2 DEF InTurn
  <2> QED BY <1>3, <2>1, <2>2
<1> QED BY <1>1, <1>5 DEF Walks, IsJoin

LEMMA CalmThenWalks ==
    ASSUME NEW s, NEW t, Calm(s), Walks(t)
    PROVE  Walks(s \o t)
<1> PICK u : u = s \o t
    OBVIOUS
<1>1. IsJoin(u, s, t)
    BY Joined DEF Calm, Walks
<1>2. ASSUME NEW i \in DOMAIN u
      PROVE  \/ u[i].op \notin Walking \cup {"intent_walked"}
             \/ \E k \in DOMAIN t : i = Len(s) + k /\ u[i] = t[k]
    BY <1>1 DEF IsJoin, Calm
<1>3. \A k \in DOMAIN t : Len(s) + k \in DOMAIN u /\ u[Len(s) + k] = t[k]
    BY <1>1 DEF IsJoin
<1>4. "local_include" \in Walking /\ "header" \in Walking /\ Seeds \subseteq Walking
    BY DEF Walking
<1>5. ASSUME NEW k \in DOMAIN t, NEW j \in DOMAIN t
      PROVE  /\ Len(s) + j > Len(s) + k <=> j > k
             /\ Len(s) + j < Len(s) + k <=> j < k
    BY <1>1 DEF IsJoin
<1>6. ASSUME NEW k \in DOMAIN t, k > 1
      PROVE  Len(s) + k > 1 /\ k - 1 \in DOMAIN t /\ (Len(s) + k) - 1 = Len(s) + (k - 1)
    BY <1>1, <1>6 DEF IsJoin
<1>7. ASSUME NEW k \in DOMAIN t PROVE InTurn(u, Len(s) + k)
  <2> PICK i : i = Len(s) + k
      OBVIOUS
  <2>0. i \in DOMAIN u /\ u[i] = t[k] /\ InTurn(t, k)
      BY <1>3 DEF Walks
  <2>1. ASSUME u[i].op \in Walking
        PROVE  \E j \in DOMAIN u : j > i /\ u[j].op = "intent_walked"
    <3>1. PICK j \in DOMAIN t : j > k /\ t[j].op = "intent_walked"
        BY <2>0, <2>1 DEF InTurn
    <3>2. Len(s) + j \in DOMAIN u /\ Len(s) + j > i /\ u[Len(s) + j].op = "intent_walked"
        BY <1>3, <1>5, <3>1
    <3> QED BY <3>2
  <2>2. ASSUME u[i].op = "intent_walked", NEW j \in DOMAIN u, j > i, u[j].op \in Walking
        PROVE  FALSE
    <3>1. PICK l \in DOMAIN t : j = Len(s) + l /\ u[j] = t[l]
        BY <1>2, <2>2
    <3>2. l > k
        BY <1>5, <2>2, <3>1
    <3> QED BY <2>0, <2>2, <3>1, <3>2 DEF InTurn
  <2>3. ASSUME u[i].op \in Seeds, NEW j \in DOMAIN u, j < i, u[j].op \in Walking
        PROVE  FALSE
    <3>1. PICK l \in DOMAIN t : j = Len(s) + l /\ u[j] = t[l]
        BY <1>2, <2>3
    <3>2. l < k
        BY <1>5, <2>3, <3>1
    <3> QED BY <2>0, <2>3, <3>1, <3>2 DEF InTurn
  <2>4. u[i].op = "local_include" => i > 1 /\ u[i - 1].op = "seed_root"
      BY <1>3, <1>6, <2>0 DEF InTurn
  <2>5. u[i].op = "header" => i > 1 /\ u[i - 1].op = "seed_headers"
      BY <1>3, <1>6, <2>0 DEF InTurn
  <2>6. InTurn(u, i)
      BY <2>1, <2>2, <2>3, <2>4, <2>5 DEF InTurn
  <2> QED BY <2>6
<1>8. ASSUME NEW i \in DOMAIN u, u[i].op \notin Walking \cup {"intent_walked"}
      PROVE  InTurn(u, i)
    BY <1>4, <1>8 DEF InTurn
<1>9. \A i \in DOMAIN u : InTurn(u, i)
    BY <1>2, <1>7, <1>8
<1> QED BY <1>1, <1>9 DEF Walks, IsJoin

LEMMA JoinedEnds ==
    ASSUME NEW s, NEW t, Listed(s), Listed(t), Ends(t)
    PROVE  Ends(s \o t)
<1> PICK u : u = s \o t
    OBVIOUS
<1>1. IsJoin(u, s, t)
    BY Joined
<1>2. PICK n \in DOMAIN t : FullDiff(t, n)
    BY DEF Ends
<1>3. Len(s) + n \in DOMAIN u /\ u[Len(s) + n] = t[n]
    BY <1>1 DEF IsJoin
<1>4. ASSUME NEW i \in DOMAIN u, i > Len(s) + n PROVE u[i].op = "check"
  <2>1. i \notin DOMAIN s
      BY <1>1, <1>4 DEF IsJoin
  <2>2. PICK k \in DOMAIN t : i = Len(s) + k /\ u[i] = t[k]
      BY <1>1, <2>1 DEF IsJoin
  <2>3. k > n
      BY <1>1, <1>4, <2>2 DEF IsJoin
  <2> QED BY <1>2, <2>2, <2>3 DEF FullDiff
<1>5. FullDiff(u, Len(s) + n)
    BY <1>2, <1>3, <1>4 DEF FullDiff
<1> QED BY <1>3, <1>5 DEF Ends

LEMMA JoinedHeadless ==
    ASSUME NEW s, NEW t, Listed(s), Listed(t), Headless(s), Headless(t)
    PROVE  Headless(s \o t)
<1> PICK u : u = s \o t
    OBVIOUS
<1>1. IsJoin(u, s, t)
    BY Joined
<1> QED BY <1>1 DEF IsJoin, Headless
(* A script ends by naming F to the index and writing the patch.           *)
Closes(s, F) ==
    /\ DOMAIN s = 1..Len(s) /\ Len(s) > 1
    /\ s[Len(s) - 1].op = "intent" /\ F \subseteq s[Len(s) - 1].files
    /\ s[Len(s)].op = "diff" /\ s[Len(s)].only = {}

LEMMA JoinedCloses ==
    ASSUME NEW F, NEW s, NEW t, Listed(s), Listed(t), Closes(t, F)
    PROVE  Closes(s \o t, F)
<1> PICK u : u = s \o t
    OBVIOUS
<1>1. IsJoin(u, s, t) /\ Len(u) = Len(s) + Len(t) /\ Len(s) + Len(t) > 1
  <2>1. IsJoin(u, s, t)
      BY Joined
  <2>2. Len(u) = Len(s) + Len(t)
      BY <2>1 DEF IsJoin, Listed
  <2> QED BY <2>1, <2>2 DEF Closes, IsJoin
<1>2. Len(t) \in DOMAIN t /\ Len(t) - 1 \in DOMAIN t /\ Len(u) - 1 = Len(s) + (Len(t) - 1)
    BY <1>1 DEF Closes, IsJoin
<1>3. u[Len(u)] = t[Len(t)] /\ u[Len(u) - 1] = t[Len(t) - 1]
    BY <1>1, <1>2 DEF IsJoin
<1>4. DOMAIN u = 1..Len(u)
    BY <1>1 DEF IsJoin
<1> QED BY <1>1, <1>3, <1>4 DEF Closes

LEMMA PlainCloses ==
    ASSUME NEW F, NEW s, Plain(s, F), Closes(s, F)
    PROVE  Calm(s) /\ Indexed(s) /\ Ends(s) /\ Headless(s)
<1>1. DOMAIN s = 1..Len(s) /\ Len(s) \in Nat /\ Len(s) > 1
    BY DEF Plain, Listed, Closes
<1>2. Calm(s) /\ Headless(s)
    BY DEF Plain, Calm, Headless, Tame, Quiet, Walking, Seeds
<1>3. Indexed(s)
  <2>1. Len(s) - 1 \in DOMAIN s /\ F \subseteq Indexes(s[Len(s) - 1])
      BY <1>1 DEF Closes, Indexes
  <2> QED BY <2>1 DEF Indexed, Plain, Tame
<1>4. FullDiff(s, Len(s)) /\ Len(s) \in DOMAIN s
    BY <1>1 DEF Closes, FullDiff
<1> QED BY <1>2, <1>3, <1>4 DEF Ends

LEMMA StepOps ==
    ASSUME NEW F
    PROVE  /\ \A p, m : Tame(Need(p, m), F)
           /\ \A p : Tame(NeedSource(p), F) /\ Tame(Intent(p), F)
           /\ \A p, q : Tame(Edit(p, q), F) /\ Tame(Rewrite(p, q), F) /\ Tame(Obj(p, q), F)
           /\ \A e : Tame(Diff(e), F)
           /\ \A p, q : p \in F => Tame(Copy(p), F) /\ Tame(Adapt(p, q), F)
BY DEF Need, NeedSource, Copy, CopyTo, Intent, Adapt, Edit, Rewrite, Obj, Diff, Tame, Quiet,
       Makes

LEMMA Script53 ==
    Plain(Program53, ToSet(Staged53)) /\ Closes(Program53, ToSet(Staged53))
<1>1. Plain(Copies(SubSeq(Staged53, 1, 7)), ToSet(Staged53))
  <2>1. Len(Staged53) = 8 /\ Staged53 \in Seq(ToSet(Staged53))
    <3>1. Len(Staged53) = 8
        BY DEF Staged53
    <3>2. Staged53 = [i \in 1..8 |-> Staged53[i]]
        BY DEF Staged53
    <3>3. \A i \in 1..8 : Staged53[i] \in ToSet(Staged53)
        BY <3>2 DEF ToSet
    <3>4. Staged53 \in Seq(ToSet(Staged53))
        BY <3>2, <3>3
    <3> QED BY <3>1, <3>4
  <2>2. DOMAIN SubSeq(Staged53, 1, 7) = 1..7
      BY <2>1
  <2>3. \A i \in 1..7 : Tame(Copies(SubSeq(Staged53, 1, 7))[i], ToSet(Staged53))
    <3> SUFFICES ASSUME NEW i \in 1..7
                 PROVE  Tame(Copies(SubSeq(Staged53, 1, 7))[i], ToSet(Staged53))
        OBVIOUS
    <3>1. SubSeq(Staged53, 1, 7)[i] = Staged53[i] /\ Staged53[i] \in ToSet(Staged53)
        BY <2>1 DEF ToSet
    <3>2. Copies(SubSeq(Staged53, 1, 7))[i] = Copy(Staged53[i])
        BY <2>2, <3>1 DEF Copies
    <3> QED BY <3>1, <3>2, StepOps
  <2>4. Copies(SubSeq(Staged53, 1, 7)) = [i \in 1..7 |-> Copies(SubSeq(Staged53, 1, 7))[i]]
      BY <2>2 DEF Copies
  <2>5. 7 \in Nat /\ 7 > 0
      OBVIOUS
  <2> QED BY <2>3, <2>4, <2>5, ListPlain, Zenon
<1> DEFINE last == <<Adapt("clk/gcc-lagoon.c", AdaptGcc),
         Copy("pinctrl/pinctrl-lagoon.c"),
         Adapt("pinctrl/pinctrl-lagoon.c", AdaptPinctrl),
         NeedSource("soc/llcc-lagoon.c"), IntegrateLlcc,
         Edit(ClkKconfig, <<AppendOnce("SDM_GCC_LAGOON", <<"53", "SDM_GCC_LAGOON">>)>>),
         Obj("53", "gcc-lagoon.o"),
         Edit("pinctrl/Kconfig",
              <<InsertBeforeLast("endif", "PINCTRL_LAGOON", <<"53", "PINCTRL_LAGOON">>)>>),
         Edit("pinctrl/Makefile",
              <<AppendOnce("pinctrl-lagoon.o", <<"53", "pinctrl-lagoon.o">>)>>),
         Intent(ToSet(Staged53)),
         Diff(FALSE)>>
<1>2. Plain(last, ToSet(Staged53))
  <2> DEFINE F == ToSet(Staged53)
  <2>1. "clk/gcc-lagoon.c" \in F /\ "pinctrl/pinctrl-lagoon.c" \in F
    <3>1. Staged53[7] = "clk/gcc-lagoon.c" /\ Staged53[8] = "pinctrl/pinctrl-lagoon.c"
          /\ DOMAIN Staged53 = 1..8
        BY DEF Staged53
    <3> QED BY <3>1 DEF ToSet
  <2>2. /\ \A how : Tame(Adapt("clk/gcc-lagoon.c", how), F)
        /\ \A how : Tame(Adapt("pinctrl/pinctrl-lagoon.c", how), F)
        /\ Tame(Copy("pinctrl/pinctrl-lagoon.c"), F)
        /\ \A path : Tame(NeedSource(path), F) /\ Tame(Intent(path), F)
        /\ \A path, e : Tame(Edit(path, e), F) /\ Tame(Obj(path, e), F)
        /\ Tame(IntegrateLlcc, F) /\ Tame(Diff(FALSE), F)
      BY <2>1, StepOps DEF IntegrateLlcc
  <2> HIDE DEF F
  <2>3. Plain(last, F)
      BY <2>2, Plain11
  <2> QED BY <2>3 DEF F
<1>3. Program53 = Copies(SubSeq(Staged53, 1, 7)) \o last
    BY DEF Program53
<1>4. Closes(last, ToSet(Staged53))
    BY DEF Closes, Intent, Diff
<1> HIDE DEF last
<1> QED BY <1>1, <1>2, <1>3, <1>4, JoinedPlain, JoinedCloses DEF Plain

(* The library flattens four sequences one after the other.                *)
LEMMA FourPlain ==
    ASSUME NEW F, NEW a, NEW b, NEW c, NEW d,
           Plain(a, F), Plain(b, F), Plain(c, F), Plain(d, F)
    PROVE  Plain(FlattenSeq(<<a, b, c, d>>), F)
<1> PICK ss : ss = <<a, b, c, d>>
    OBVIOUS
<1> DEFINE Flat(f) == f = [i \in 1..Len(ss) |-> IF i = 1 THEN ss[i] ELSE f[i - 1] \o ss[i]]
           flat == CHOOSE f : Flat(f)
           known == <<a, a \o b, (a \o b) \o c, ((a \o b) \o c) \o d>>
<1>1. Len(ss) = 4 /\ ss[1] = a /\ ss[2] = b /\ ss[3] = c /\ ss[4] = d
    OBVIOUS
<1>2. Flat(known)
  <2>1. known = [i \in 1..4 |-> known[i]]
      OBVIOUS
  <2>2. /\ known[1] = ss[1] /\ known[2] = known[1] \o ss[2]
        /\ known[3] = known[2] \o ss[3] /\ known[4] = known[3] \o ss[4]
      BY <1>1
  <2> HIDE DEF known
  <2>3. ASSUME NEW i \in 1..4
        PROVE  known[i] = IF i = 1 THEN ss[i] ELSE known[i - 1] \o ss[i]
    <3>1. CASE i = 1
        BY <2>2, <3>1
    <3>2. CASE i = 2
      <4>1. i - 1 = 1 /\ i # 1
          BY <3>2
      <4> QED BY <2>2, <3>2, <4>1, Zenon
    <3>3. CASE i = 3
      <4>1. i - 1 = 2 /\ i # 1
          BY <3>3
      <4> QED BY <2>2, <3>3, <4>1, Zenon
    <3>4. CASE i = 4
      <4>1. i - 1 = 3 /\ i # 1
          BY <3>4
      <4> QED BY <2>2, <3>4, <4>1, Zenon
    <3> QED BY <3>1, <3>2, <3>3, <3>4
  <2> QED BY <1>1, <2>1, <2>3
<1>3. Flat(flat)
    BY <1>2
<1>4. FlattenSeq(ss) = (CHOOSE f : Flat(f))[Len(ss)]
  <2>1. Len(ss) # 0
      BY <1>1
  <2> QED BY <2>1, Zenon DEF FlattenSeq
<1> HIDE DEF flat
<1>5. \A i \in 1..4 : flat[i] = IF i = 1 THEN ss[i] ELSE flat[i - 1] \o ss[i]
    BY <1>1, <1>3
<1> HIDE DEF Flat
<1>6. flat[1] = a /\ flat[2] = a \o b /\ flat[3] = (a \o b) \o c
      /\ flat[4] = ((a \o b) \o c) \o d
  <2>1. flat[1] = a
      BY <1>1, <1>5
  <2>2. flat[2] = flat[1] \o b
      BY <1>1, <1>5
  <2>3. flat[3] = flat[2] \o c
      BY <1>1, <1>5
  <2>4. flat[4] = flat[3] \o d
      BY <1>1, <1>5
  <2> QED BY <2>1, <2>2, <2>3, <2>4
<1>7. Plain(flat[4], F)
    BY <1>6, JoinedPlain
<1> QED BY <1>1, <1>4, <1>7 DEF flat

Files54 == {Source54[clock] : clock \in DOMAIN Source54}

LEMMA Script54 == Plain(Program54, Files54) /\ Closes(Program54, Files54)
<1> DEFINE head == <<Need("clk/gcc-lagoon.c", AnyText), Need("soc/llcc-qcom.c", "lagoon_cfg")>>
           last == <<Edit(ClkKconfig, <<AppendOnce("CAM_CC_LAGOON", <<"54", "CAM_CC_LAGOON">>)>>),
                     Intent({Source54[clock] : clock \in DOMAIN Source54}),
                     Diff(FALSE)>>
           clocks == FlattenSeq([i \in DOMAIN Clocks54 |-> PhaseTwo(Clocks54[i])])
<1>1. Plain(head, Files54)
  <2>1. \A step \in {Need("clk/gcc-lagoon.c", AnyText), Need("soc/llcc-qcom.c", "lagoon_cfg")} :
            Tame(step, Files54)
      BY StepOps
  <2> QED BY <2>1, Plain2
<1>2. Plain(ClockApi, Files54)
  <2>1. \A step \in {Need("clk/clk-alpha-pll.h", AnyText), Need("clk/clk-alpha-pll.c", AnyText),
                     Need("clk/common.h", AnyText), Need("clk/common.c", AnyText)} :
            Tame(step, Files54)
      BY StepOps
  <2> QED BY <2>1, Plain4 DEF ClockApi
<1>3. Plain(BackportAgera, Files54)
  <2>1. \A path, e : Tame(Edit(path, e), Files54) /\ Tame(Rewrite(path, e), Files54)
      BY StepOps
  <2> QED BY <2>1, Plain2 DEF BackportAgera
<1>4. Plain(clocks, Files54)
  <2>1. ASSUME NEW clock, Source54[clock] \in Files54 PROVE Plain(PhaseTwo(clock), Files54)
    <3>1. /\ Tame(Copy(Source54[clock]), Files54)
          /\ Tame(Adapt(Source54[clock], AdaptClock), Files54)
          /\ \A e, f : Tame(Obj(e, f), Files54)
        BY <2>1, StepOps
    <3> QED BY <3>1, Plain3 DEF PhaseTwo
  <2>2. DOMAIN Clocks54 = 1..4 /\ \A i \in 1..4 : Source54[Clocks54[i]] \in Files54
      BY DEF Clocks54, Source54, Files54
  <2>3. [i \in DOMAIN Clocks54 |-> PhaseTwo(Clocks54[i])]
          = <<PhaseTwo(Clocks54[1]), PhaseTwo(Clocks54[2]),
              PhaseTwo(Clocks54[3]), PhaseTwo(Clocks54[4])>>
      BY <2>2
  <2>4. \A i \in 1..4 : Plain(PhaseTwo(Clocks54[i]), Files54)
      BY <2>1, <2>2
  <2> QED BY <2>3, <2>4, FourPlain
<1>5. Plain(last, Files54)
  <2>1. \A path, e : /\ Tame(Edit(path, e), Files54) /\ Tame(Intent(path), Files54)
                    /\ Tame(Diff(FALSE), Files54)
      BY StepOps
  <2> QED BY <2>1, Plain3
<1>6. Program54 = head \o ClockApi \o BackportAgera \o ClockApi \o clocks \o last
    BY DEF Program54
<1>7. Closes(last, Files54)
    BY DEF Closes, Intent, Diff, Files54
<1> HIDE DEF head, last, clocks
<1> DEFINE front == head \o ClockApi \o BackportAgera \o ClockApi \o clocks
<1>8. Plain(front, Files54)
    BY <1>1, <1>2, <1>3, <1>4, JoinedPlain
<1>9. Program54 = front \o last
    BY <1>6
<1> HIDE DEF front
<1> QED BY <1>5, <1>7, <1>8, <1>9, JoinedPlain, JoinedCloses DEF Plain

LEMMA Script55 == Plain(Program55, Paths55) /\ Closes(Program55, Paths55)
<1> DEFINE head == <<Need("clk/gcc-lagoon.c", AnyText)>>
           needs == [i \in DOMAIN Clocks54 |-> Need(Source54[Clocks54[i]], AnyText)]
           last ==
      <<Copy("clk/npucc-lagoon.c"),
         Adapt("clk/npucc-lagoon.c", StripNpu),
         Adapt("clk/npucc-lagoon.c", PreserveCrc),
         Copy("clk/clk-debug.c"), Adapt("clk/clk-debug.c", AdaptDebugCore),
         Copy("clk/debugcc-lagoon.c"), Adapt("clk/debugcc-lagoon.c", AdaptDebugcc),
         Copy("clk/clk-debug.h"), Adapt("clk/clk-debug.h", AdaptDebugHeader),
         Copy("dt-bindings/qcom,npucc-lagoon.h"),
         Obj("55", "npucc-lagoon.o"), Obj("55", "clk-debug.o"),
         Obj("55", "debugcc-lagoon.o"),
         Edit(ClkKconfig, <<AppendOnce("NPU_CC_LAGOON", <<"55", "NPU_CC_LAGOON">>)>>),
         Intent(Paths55),
         Diff(FALSE)>>
<1>1. Plain(head, Paths55)
    BY StepOps, Plain1
<1>2. Plain(needs, Paths55)
  <2>1. DOMAIN Clocks54 = 1..4
      BY DEF Clocks54
  <2>2. needs = [i \in 1..4 |-> needs[i]] /\ \A i \in 1..4 : Tame(needs[i], Paths55)
      BY <2>1, StepOps
  <2>3. 4 \in Nat /\ 4 > 0
      OBVIOUS
  <2> QED BY <2>2, <2>3, ListPlain, Zenon
<1>3. Plain(last, Paths55)
  <2>1. \A path \in Paths55 : /\ Tame(Copy(path), Paths55)
                               /\ \A how : Tame(Adapt(path, how), Paths55)
      BY StepOps
  <2>2. \A path, e : /\ Tame(Edit(path, e), Paths55) /\ Tame(Obj(path, e), Paths55)
                    /\ Tame(Intent(path), Paths55) /\ Tame(Diff(FALSE), Paths55)
      BY StepOps
  <2>3. \A path \in {"clk/npucc-lagoon.c", "clk/clk-debug.c", "clk/debugcc-lagoon.c",
                     "clk/clk-debug.h", "dt-bindings/qcom,npucc-lagoon.h"} :
            path \in Paths55
      BY DEF Paths55
  <2> QED BY <2>1, <2>2, <2>3, Plain16
<1>4. Program55 = head \o needs \o last
    BY DEF Program55
<1>5. Closes(last, Paths55)
  <2>1. /\ DOMAIN last = 1..16 /\ Len(last) = 16
        /\ last[15] = Intent(Paths55) /\ last[16] = Diff(FALSE)
      OBVIOUS
  <2> HIDE DEF last
  <2> QED BY <2>1 DEF Closes, Intent, Diff
<1> HIDE DEF head, needs, last
<1>6. Plain(head \o needs, Paths55) /\ Program55 = (head \o needs) \o last
    BY <1>1, <1>2, <1>4, JoinedPlain
<1> QED BY <1>3, <1>5, <1>6, JoinedPlain, JoinedCloses DEF Plain

(* The workflows whose rows say what the plan asks of their probes.        *)
Asked == {"w53", "w54", "w55", "w57r", "w57c", "w58b", "w58m", "w59", "w60", "w61", "w64"}

PlansOwn(s, r) ==
    /\ Listed(s)
    /\ \A i \in DOMAIN s :
           s[i].op = "plan" => r.counts = Planned /\ s[i].probes \subseteq ToSet(r.probes)

LEMMA PlanOnly ==
    ASSUME NEW probes
    PROVE  PlansOwn(Plan(probes), Report(probes, Planned))
<1> DEFINE step == [op |-> "plan", probes |-> ToSet(probes)]
<1>1. Plan(probes) = <<step>> /\ step.probes = ToSet(probes)
    BY DEF Plan
<1>2. Report(probes, Planned).counts = Planned /\ Report(probes, Planned).probes = probes
    BY DEF Report
<1> HIDE DEF step
<1>3. DOMAIN <<step>> = {1} /\ <<step>>[1] = step
    OBVIOUS
<1>4. <<step>> \in Seq({step}) /\ ToSet(<<step>>) = {step} /\ Len(<<step>>) > 0
    BY DEF ToSet
<1> QED BY <1>1, <1>2, <1>3, <1>4 DEF PlansOwn, Listed

LEMMA Plan59 == PlansOwn(Program59, Finalize59)
<1> DEFINE step == [op |-> "plan", probes |-> ToSet(Probes59)]
           last == <<Intent(ToSet(Staged59) \cup {"interconnect/Makefile", "interconnect/Kconfig"}),
                     Diff(FALSE)>>
<1>1. Plan(Probes59)[1] = step
    BY DEF Plan
<1>2. Finalize59.counts = Planned /\ Finalize59.probes = Probes59
    BY DEF Finalize59, Report
<1>3. step.probes = ToSet(Probes59)
    OBVIOUS
<1> HIDE DEF step
<1> PICK s : s = Program59
    OBVIOUS
<1>4. DOMAIN s = 1..9 /\ s = [i \in 1..9 |-> s[i]]
    BY DEF Program59
<1>5. /\ s[1].op # "plan" /\ s[2].op # "plan" /\ s[3].op # "plan" /\ s[4].op # "plan"
      /\ s[5].op # "plan" /\ s[6].op # "plan" /\ s[7] = step /\ s[8].op # "plan"
      /\ s[9].op # "plan"
    BY <1>1 DEF Program59, Copy, CopyTo, Adapt, Edit, Intent, Diff
<1>6. \A i \in 1..9 : s[i].op = "plan" => s[i] = step
  <2>1. \A i \in 1..9 : i = 1 \/ i = 2 \/ i = 3 \/ i = 4 \/ i = 5 \/ i = 6 \/ i = 7 \/ i = 8 \/ i = 9
      OBVIOUS
  <2> QED BY <1>5, <2>1
<1>7. Listed(s)
  <2>1. \A i \in 1..9 : s[i] \in ToSet(s)
      BY <1>4 DEF ToSet
  <2> QED BY <1>4, <2>1 DEF Listed
<1> QED BY <1>2, <1>3, <1>4, <1>6, <1>7 DEF PlansOwn

LEMMA OwnPlan == \A w \in Asked : PlansOwn(Staging[w], Finalize[w])
<1>1. ASSUME NEW s, NEW r, NEW F, Plain(s, F) PROVE PlansOwn(s, r)
    BY <1>1 DEF Plain, PlansOwn, Tame, Quiet
<1> DEFINE F == ToSet(Staged53) \cup Files54 \cup Paths55
<1>2. /\ Plain(Program53, F) /\ Plain(Program53 \o Program54, F)
      /\ Plain(Program53 \o Program54 \o Program55, F)
  <2>1. Plain(Program53, F) /\ Plain(Program54, F) /\ Plain(Program55, F)
      BY Script53, Script54, Script55 DEF Plain, Tame
  <2> QED BY <2>1, JoinedPlain
<1>3. /\ Staging["w53"] = Program53 /\ Staging["w54"] = Program53 \o Program54
      /\ Staging["w55"] = Program53 \o Program54 \o Program55
      /\ Staging["w59"] = Program59 /\ Finalize["w59"] = Finalize59
    BY DEF Staging, Finalize
<1>4. /\ Staging["w57r"] = Plan(Probes57Rpmh) /\ Staging["w57c"] = Plan(Probes57Core)
      /\ Staging["w58b"] = Plan(Probes58Bus) /\ Staging["w58m"] = Plan(Probes58Memory)
      /\ Staging["w60"] = Plan(Probes60) /\ Staging["w61"] = Plan(Probes61)
      /\ Staging["w64"] = Plan(Probes64)
    BY DEF Staging, Inventory57Rpmh, Inventory57Core, Inventory58Bus, Inventory58Memory,
           Inventory60, Inventory61, Inventory64
<1>5. /\ Finalize["w57r"] = Report(Probes57Rpmh, Planned)
      /\ Finalize["w57c"] = Report(Probes57Core, Planned)
      /\ Finalize["w58b"] = Report(Probes58Bus, Planned)
      /\ Finalize["w58m"] = Report(Probes58Memory, Planned)
      /\ Finalize["w60"] = Report(Probes60, Planned)
      /\ Finalize["w61"] = Report(Probes61, Planned)
      /\ Finalize["w64"] = Report(Probes64, Planned)
    BY DEF Finalize, Finalize57Rpmh, Finalize57Core, Finalize58Bus, Finalize58Memory,
           Finalize60, Finalize61, Finalize64
<1> QED BY <1>1, <1>2, <1>3, <1>4, <1>5, PlanOnly, Plan59 DEF Asked

(* No probe list names a probe twice.                                      *)
Distinct(s) == DOMAIN s = 1..Len(s) /\ \A i, j \in 1..Len(s) : s[i] = s[j] => i = j

LEMMA OwnKinds ==
    \A w \in DOMAIN Finalize :
        IF w \in Asked
        THEN /\ Finalize[w].counts \in {Planned, Unplanned}
             /\ Distinct(Finalize[w].probes)
        ELSE /\ "source-missing" \notin Finalize[w].counts
             /\ \A probe, lacking : Results(w, probe, lacking) = Finalize[w].counts
<1>1. /\ Distinct(Probes53) /\ Distinct(Clocks54) /\ Distinct(Probes55)
      /\ Distinct(Probes57Rpmh) /\ Distinct(Probes57Core)
      /\ Distinct(Probes58Bus) /\ Distinct(Probes58Memory)
      /\ Distinct(Probes59) /\ Distinct(Probes60) /\ Distinct(Probes61) /\ Distinct(Probes64)
  <2>1. Distinct(Probes53) /\ Distinct(Clocks54) /\ Distinct(Probes55)
      BY DEF Distinct, Probes53, Clocks54, Probes55
  <2>2. Distinct(Probes57Rpmh) /\ Distinct(Probes57Core)
      BY DEF Distinct, Probes57Rpmh, Probes57Core
  <2>3. Distinct(Probes58Bus) /\ Distinct(Probes58Memory)
      BY DEF Distinct, Probes58Bus, Probes58Memory
  <2>4. Distinct(Probes59) /\ Distinct(Probes60) /\ Distinct(Probes61)
      BY DEF Distinct, Probes59, Probes60, Probes61
  <2>5. Distinct(Probes64)
      BY DEF Distinct, Probes64
  <2> QED BY <2>1, <2>2, <2>3, <2>4, <2>5
<1>2. \A w \in DOMAIN Finalize :
        IF w \in Asked
        THEN \/ Finalize[w] \in {Finalize53, Finalize54, Finalize55}
             \/ Finalize[w] \in {Finalize57Rpmh, Finalize57Core, Finalize58Bus, Finalize58Memory}
             \/ Finalize[w] \in {Finalize59, Finalize60, Finalize61, Finalize64}
        ELSE \/ w = "w56" /\ Finalize[w] = Finalize56
             \/ w \in {"w62", "w66", "w67", "w68"}
                /\ Finalize[w] \in {Finalize62, Finalize66,
                     Report(<<"arm-smmu.o">>, {"compiled", "compile-failed"})}
    BY DEF Finalize, Asked
<1>3. \A r \in {Finalize53, Finalize54, Finalize55} :
          r.counts = Unplanned /\ Distinct(r.probes)
    BY <1>1 DEF Finalize53, Finalize54, Finalize55, Report
<1>4. \A r \in {Finalize57Rpmh, Finalize57Core, Finalize58Bus, Finalize58Memory,
                Finalize59, Finalize60, Finalize61, Finalize64} :
          r.counts = Planned /\ Distinct(r.probes)
    BY <1>1 DEF Finalize57Rpmh, Finalize57Core, Finalize58Bus, Finalize58Memory,
                Finalize59, Finalize60, Finalize61, Finalize64, Report
<1>5. \A r \in {Finalize56, Finalize62, Finalize66,
                Report(<<"arm-smmu.o">>, {"compiled", "compile-failed"})} :
          "source-missing" \notin r.counts
    BY DEF Finalize56, Finalize62, Finalize66, Report
<1>6. Finalize56.counts = {"compiled", "failed", "skipped"}
    BY DEF Finalize56, Report
<1>7. \A w, probe, lacking :
          /\ w \in {"w62", "w66", "w67", "w68"} => Results(w, probe, lacking) = Finalize[w].counts
          /\ w = "w56" => Results(w, probe, lacking) = {"compiled", "failed", "skipped"}
    BY DEF Results
<1>8. ASSUME NEW w \in DOMAIN Finalize, w \in Asked
      PROVE  Finalize[w].counts \in {Planned, Unplanned} /\ Distinct(Finalize[w].probes)
    BY <1>2, <1>3, <1>4, <1>8
<1>9. ASSUME NEW w \in DOMAIN Finalize, w \notin Asked
      PROVE  /\ "source-missing" \notin Finalize[w].counts
             /\ \A probe, lacking : Results(w, probe, lacking) = Finalize[w].counts
  <2> PICK r : r = Finalize[w]
      OBVIOUS
  <2>1. CASE w = "w56" /\ r = Finalize56
      BY <1>5, <1>6, <1>7, <2>1
  <2>2. CASE /\ w \in {"w62", "w66", "w67", "w68"}
             /\ r \in {Finalize62, Finalize66,
                       Report(<<"arm-smmu.o">>, {"compiled", "compile-failed"})}
    <3>1. "source-missing" \notin r.counts
        BY <1>5, <2>2
    <3>2. \A probe, lacking : Results(w, probe, lacking) = Finalize[w].counts
        BY <1>7, <2>2
    <3> QED BY <3>1, <3>2
  <2> QED BY <1>2, <1>9, <2>1, <2>2
<1> QED BY <1>8, <1>9

(***************************************************************************)
(* Every row is of a kind that the report counts; what the plan found      *)
(* missing are probes of the workflow; the rows that say so are theirs.    *)
(***************************************************************************)
KindsInv == \A i \in DOMAIN status : status[i][2] \in Kinds

StepInv == job.w \in Asked /\ job.phase = "stage" => job.step \in 1..Len(Steps)

PlanInv ==
    job.w \in Asked /\ missing # {} => Kinds = Planned /\ missing \subseteq ToSet(Probes)

MissingInv ==
    /\ job.phase \in {"probes", "finalize", "enforce", "done"}
    /\ "source-missing" \in Kinds
    => \A i \in DOMAIN status :
           status[i][2] = "source-missing" <=> status[i][1] \in missing

ReportInv == job.phase \in {"enforce", "done"} => report = CountsOf(status)

CountInv == KindsInv /\ StepInv /\ PlanInv /\ MissingInv /\ ReportInv

LEMMA OwnCount ==
    ASSUME JobInv
    PROVE  /\ "source-missing" \in Kinds => job.w \in Asked
           /\ job.w \in Asked => /\ Kinds \in {Planned, Unplanned}
                                 /\ Distinct(Probes)
                                 /\ PlansOwn(Steps, Finalize[job.w])
           /\ job.w \notin Asked =>
                  \A probe, lacking : Results(job.w, probe, lacking) = Kinds
<1>1. job.w \in DOMAIN Finalize
    BY WorkflowsAssumption DEF JobInv, JobOK
<1> QED BY <1>1, OwnKinds, OwnPlan DEF Probes, Kinds, Steps

LEMMA SameWork ==
    ASSUME job'.w = job.w
    PROVE  Probes' = Probes /\ Kinds' = Kinds /\ Steps' = Steps
BY DEF Probes, Kinds, Steps

(* A result is of a kind counted, and says that a source is missing only   *)
(* of a probe whose source the plan did not find.                          *)
LEMMA RowCount ==
    ASSUME JobInv, CountInv, NEW probe, NEW result \in Results(job.w, probe, missing)
    PROVE  /\ result \in Kinds
           /\ "source-missing" \in Kinds => (result = "source-missing" <=> probe \in missing)
<1>1. CASE job.w \notin Asked
    BY <1>1, OwnCount
<1>2. CASE job.w \in Asked
  <2>1. Kinds \in {Planned, Unplanned}
      BY <1>2, OwnCount
  <2>2. result \in IF probe \in missing THEN {"source-missing"}
                   ELSE {"compiled", "compile-failed", "config-blocked"}
      BY <1>2 DEF Results, Asked
  <2>3. CASE probe \in missing
    <3>1. Kinds = Planned
        BY <1>2, <2>3 DEF CountInv, PlanInv
    <3> QED BY <2>2, <2>3, <3>1 DEF Planned
  <2>4. CASE probe \notin missing
      BY <2>1, <2>2, <2>4 DEF Planned, Unplanned
  <2> QED BY <2>3, <2>4
<1> QED BY <1>1, <1>2

LEMMA InitCount == Init => CountInv
<1> SUFFICES ASSUME Init PROVE CountInv
    OBVIOUS
<1>1. JobInv
    BY InitJob
<1>2. status = <<>> /\ missing = {} /\ job.phase = "stage" /\ job.step = 1
    BY DEF Init
<1>3. StepInv
  <2>1. SUFFICES ASSUME job.w \in Asked PROVE job.step \in 1..Len(Steps)
      BY DEF StepInv
  <2>2. Listed(Steps)
      BY <1>1, <2>1, OwnCount DEF PlansOwn
  <2>3. Len(Steps) \in Nat /\ Len(Steps) > 0
      BY <2>2 DEF Listed
  <2> QED BY <1>2, <2>3
<1>4. KindsInv
    BY <1>2 DEF KindsInv
<1> QED BY <1>2, <1>3, <1>4 DEF CountInv, PlanInv, MissingInv, ReportInv

LEMMA StageCount == JobInv /\ CountInv /\ Stage => CountInv'
<1> SUFFICES ASSUME JobInv, CountInv, Stage PROVE CountInv'
    OBVIOUS
<1>1. /\ status' = status /\ (missing' = missing \/ PlanProbes) /\ Moves
      /\ job.phase = "stage" /\ JobOK
      /\ job' \in [w : {job.w}, phase : {"stage", "compile", "refused", "rejected"},
                   step : Nat]
    BY StagingStep DEF JobInv
<1>2. Probes' = Probes /\ Kinds' = Kinds /\ Steps' = Steps
    BY <1>1, SameWork
<1>3. KindsInv'
    BY <1>1, <1>2 DEF CountInv, KindsInv
<1>4. StepInv'
  <2>1. SUFFICES ASSUME job'.w \in Asked, job'.phase = "stage"
                 PROVE  job'.step \in 1..Len(Steps)
      BY <1>2 DEF StepInv
  <2>2. job.step \in 1..Len(Steps)
      BY <1>1, <2>1 DEF CountInv, StepInv
  <2>3. Len(Steps) \in Nat
      BY <1>1, <2>1, OwnCount DEF PlansOwn, Listed
  <2>4. CASE Advance
    <3>1. job.step < Len(Steps) /\ job' = [job EXCEPT !.step = job.step + 1]
        BY <1>1, <2>1, <2>4 DEF Advance, JobOK
    <3>2. job'.step = job.step + 1
        BY <1>1, <3>1 DEF JobOK
    <3> QED BY <2>2, <2>3, <3>1, <3>2
  <2>5. CASE Refuse \/ job' = [job EXCEPT !.phase = "rejected"]
      BY <1>1, <2>1, <2>5 DEF Refuse, JobOK
  <2>6. CASE UNCHANGED job
      BY <2>2, <2>6
  <2> QED BY <1>1, <2>4, <2>5, <2>6 DEF Moves
<1>5. PlanInv'
  <2>1. SUFFICES ASSUME job.w \in Asked, missing' # {}
                 PROVE  Kinds = Planned /\ missing' \subseteq ToSet(Probes)
      BY <1>1, <1>2 DEF PlanInv
  <2>2. CASE missing' = missing
      BY <2>1, <2>2 DEF CountInv, PlanInv
  <2>3. CASE PlanProbes
    <3>1. Now.op = "plan" /\ missing' \subseteq Now.probes
        BY <2>3 DEF PlanProbes, At
    <3>2. job.step \in DOMAIN Steps /\ Now = Steps[job.step]
      <4>1. job.step \in 1..Len(Steps)
          BY <1>1, <2>1 DEF CountInv, StepInv
      <4>2. Listed(Steps)
          BY <2>1, OwnCount DEF PlansOwn
      <4> QED BY <4>1, <4>2 DEF Now, Listed
    <3>3. Kinds = Planned /\ Now.probes \subseteq ToSet(Probes)
        BY <2>1, <3>1, <3>2, OwnCount DEF PlansOwn, Kinds, Probes
    <3> QED BY <3>1, <3>3
  <2> QED BY <1>1, <2>2, <2>3
<1> QED BY <1>1, <1>3, <1>4, <1>5 DEF CountInv, MissingInv, ReportInv

(* The shell's steps but the probes' leave missing and the rows alone.     *)
LEMMA RunCount == JobInv /\ CountInv /\ RunProbe => CountInv'
<1> SUFFICES ASSUME JobInv, CountInv, RunProbe PROVE CountInv'
    OBVIOUS
<1>1. /\ JobOK /\ status \in Rows /\ job.phase = "probes"
      /\ job.step \in 1..Len(Probes) /\ Len(status) = job.step - 1
    BY DEF JobInv, RunProbe
<1>2. PICK result \in Results(job.w, Probes[job.step], missing) :
          status' = Append(status, <<Probes[job.step], result>>)
    BY DEF RunProbe
<1>3. missing' = missing /\ job'.w = job.w /\ job'.phase \in {"probes", "finalize"}
  <2>1. job' = [job EXCEPT !.step = job.step + 1]
        \/ job' = [job EXCEPT !.phase = "finalize", !.step = 1]
      BY DEF RunProbe, Phase
  <2> QED BY <1>1, <2>1 DEF RunProbe, ShellVars, JobOK
<1>4. Probes' = Probes /\ Kinds' = Kinds /\ Steps' = Steps
    BY <1>3, SameWork
<1>5. /\ result \in Kinds
      /\ "source-missing" \in Kinds =>
             (result = "source-missing" <=> Probes[job.step] \in missing)
    BY <1>2, RowCount
<1>6. \A i \in DOMAIN status' :
          \/ i \in DOMAIN status /\ status'[i] = status[i]
          \/ status'[i] = <<Probes[job.step], result>>
    BY <1>1, <1>2 DEF Rows
<1> PICK row : row = <<Probes[job.step], result>>
    OBVIOUS
<1>7. row[1] = Probes[job.step] /\ row[2] = result
    OBVIOUS
<1>8. KindsInv'
    BY <1>4, <1>5, <1>6, <1>7 DEF CountInv, KindsInv
<1>9. MissingInv'
  <2>1. SUFFICES ASSUME "source-missing" \in Kinds, NEW i \in DOMAIN status'
                 PROVE  status'[i][2] = "source-missing" <=> status'[i][1] \in missing
      BY <1>3, <1>4 DEF MissingInv
  <2>2. CASE i \in DOMAIN status /\ status'[i] = status[i]
      BY <1>1, <2>1, <2>2 DEF CountInv, MissingInv
  <2>3. CASE status'[i] = row
      BY <1>5, <1>7, <2>1, <2>3
  <2> QED BY <1>6, <2>2, <2>3
<1>10. StepInv' /\ PlanInv' /\ ReportInv'
    BY <1>3, <1>4 DEF CountInv, StepInv, PlanInv, ReportInv
<1> QED BY <1>8, <1>9, <1>10 DEF CountInv

LEMMA WholeCount == JobInv /\ CountInv /\ RunWhole => CountInv'
<1> SUFFICES ASSUME JobInv, CountInv, RunWhole PROVE CountInv'
    OBVIOUS
<1>1. PICK result \in Results(job.w, Probes[1], missing) :
          status' = <<<<Probes[1], result>>>>
    BY DEF RunWhole
<1>2. missing' = missing /\ job'.w = job.w /\ job'.phase = "finalize"
  <2>1. job' = [job EXCEPT !.phase = "finalize", !.step = 1]
      BY DEF RunWhole, Phase
  <2> QED BY <2>1 DEF RunWhole, ShellVars, JobInv, JobOK
<1>3. Probes' = Probes /\ Kinds' = Kinds /\ Steps' = Steps
    BY <1>2, SameWork
<1>4. result \in Kinds /\ job.w \notin Asked
    BY <1>1, RowCount DEF RunWhole, Whole, Asked
<1>5. KindsInv'
  <2> PICK row : row = <<Probes[1], result>>
      OBVIOUS
  <2>1. row[2] = result /\ status' = <<row>>
      BY <1>1
  <2> QED BY <1>3, <1>4, <2>1 DEF KindsInv
<1>6. MissingInv'
    BY <1>3, <1>4, OwnCount DEF MissingInv
<1> QED BY <1>2, <1>3, <1>4, <1>5, <1>6 DEF CountInv, StepInv, PlanInv, ReportInv

(* The shell's other steps and a kill leave the plan alone, and the rows   *)
(* too, or begin them anew.                                                *)
LEMMA OthersCount ==
    JobInv /\ CountInv /\ (OpenStatus \/ ConfigureFails \/ Enforce \/ Kill) => CountInv'
<1> SUFFICES ASSUME JobInv, CountInv, OpenStatus \/ ConfigureFails \/ Enforce \/ Kill
             PROVE  CountInv'
    OBVIOUS
<1>1. JobOK
    BY DEF JobInv
<1>2. /\ missing' = missing /\ report' = report /\ job'.w = job.w
      /\ status' = status \/ status' = <<>>
      /\ \/ job'.phase \in {"rejected", "killed"}
         \/ job'.phase = "probes" /\ status' = <<>>
         \/ job'.phase = "finalize" /\ job.w = "w66" /\ status' = status
         \/ job'.phase = "done" /\ job.phase = "enforce" /\ status' = status
  <2>1. CASE OpenStatus
    <3>1. job' = [job EXCEPT !.phase = "probes", !.step = 1]
        BY <2>1 DEF OpenStatus, Phase
    <3> QED BY <1>1, <2>1, <3>1 DEF OpenStatus, ShellVars, JobOK
  <2>2. CASE ConfigureFails
    <3>1. \/ job' = [job EXCEPT !.phase = "rejected", !.step = 1]
          \/ job' = [job EXCEPT !.phase = "finalize", !.step = 1] /\ job.w = "w66"
        BY <2>2 DEF ConfigureFails, Phase
    <3> QED BY <1>1, <2>2, <3>1 DEF ConfigureFails, ShellVars, JobOK
  <2>3. CASE Enforce
    <3>1. \/ job' = [job EXCEPT !.phase = "rejected", !.step = 1]
          \/ job' = [job EXCEPT !.phase = "done", !.step = 1]
        BY <2>3 DEF Enforce, Phase
    <3> QED BY <1>1, <2>3, <3>1 DEF Enforce, ShellVars, JobOK
  <2>4. CASE Kill
      BY <1>1, <2>4 DEF Kill, JobOK
  <2> QED BY <2>1, <2>2, <2>3, <2>4
<1>3. Probes' = Probes /\ Kinds' = Kinds /\ Steps' = Steps
    BY <1>2, SameWork
<1>4. KindsInv' /\ StepInv' /\ PlanInv'
  <2>1. KindsInv'
      BY <1>2, <1>3 DEF CountInv, KindsInv
  <2> QED BY <1>2, <1>3, <2>1 DEF CountInv, StepInv, PlanInv
<1>5. MissingInv'
  <2>1. CASE job'.phase \in {"rejected", "killed"}
      BY <2>1 DEF MissingInv
  <2>2. CASE status' = <<>>
      BY <2>2 DEF MissingInv
  <2>3. CASE job.w = "w66"
    <3>1. "source-missing" \notin Kinds
        BY <2>3, OwnCount DEF Asked
    <3> QED BY <1>3, <3>1 DEF MissingInv
  <2>4. CASE job'.phase = "done" /\ job.phase = "enforce" /\ status' = status
      BY <1>2, <1>3, <2>4 DEF CountInv, MissingInv
  <2> QED BY <1>2, <2>1, <2>2, <2>3, <2>4
<1>6. ReportInv'
    BY <1>2, <1>3 DEF CountInv, ReportInv, CountsOf
<1> QED BY <1>4, <1>5, <1>6 DEF CountInv

(* The report is counted from the status file.                             *)
LEMMA PublishCount == JobInv /\ CountInv /\ Publish => CountInv'
<1> SUFFICES ASSUME JobInv, CountInv, Publish PROVE CountInv'
    OBVIOUS
<1>1. /\ missing' = missing /\ status' = status /\ job.phase = "finalize" /\ JobOK
      /\ \/ job' = [job EXCEPT !.phase = "enforce", !.step = 1] /\ report' = CountsOf(status)
         \/ job' = [job EXCEPT !.phase = "rejected", !.step = 1]
    BY DEF Publish, Phase, ShellVars, JobInv
<1>2. /\ job'.w = job.w
      /\ \/ job'.phase = "enforce" /\ report' = CountsOf(status)
         \/ job'.phase = "rejected"
    BY <1>1 DEF JobOK
<1>3. Probes' = Probes /\ Kinds' = Kinds /\ Steps' = Steps
    BY <1>2, SameWork
<1>4. KindsInv' /\ StepInv' /\ PlanInv' /\ MissingInv'
    BY <1>1, <1>2, <1>3 DEF CountInv, KindsInv, StepInv, PlanInv, MissingInv
<1>5. ReportInv'
    BY <1>1, <1>2, <1>3 DEF ReportInv, CountsOf
<1> QED BY <1>4, <1>5 DEF CountInv

LEMMA NextPassCount == JobInv /\ CountInv /\ (Checkout \/ Rerun) => CountInv'
<1> SUFFICES ASSUME JobInv, CountInv, Checkout \/ Rerun PROVE CountInv'
    OBVIOUS
<1>1. (status' = status \/ status' = <<>>) /\ NextPass /\ JobOK
    BY DEF Checkout, Rerun, JobInv
<1>2. /\ missing' = {} /\ job'.w = job.w /\ job'.phase = "stage" /\ job'.step = 1
    BY <1>1 DEF NextPass, JobOK
<1>3. Probes' = Probes /\ Kinds' = Kinds /\ Steps' = Steps
    BY <1>2, SameWork
<1>4. KindsInv'
    BY <1>1, <1>3 DEF CountInv, KindsInv
<1>5. StepInv'
  <2>1. SUFFICES ASSUME job.w \in Asked PROVE 1 \in 1..Len(Steps)
      BY <1>2, <1>3 DEF StepInv
  <2>2. Listed(Steps)
      BY <2>1, OwnCount DEF PlansOwn
  <2>3. Len(Steps) \in Nat /\ Len(Steps) > 0
      BY <2>2 DEF Listed
  <2> QED BY <2>3
<1> QED BY <1>2, <1>4, <1>5 DEF CountInv, PlanInv, MissingInv, ReportInv

LEMMA CountStep == JobInv /\ CountInv /\ [Next]_vars => CountInv'
<1> SUFFICES ASSUME JobInv, CountInv, [Next]_vars PROVE CountInv'
    OBVIOUS
<1>1. CASE Stage  BY <1>1, StageCount
<1>2. CASE Shell
    BY <1>2, RunCount, WholeCount, OthersCount, PublishCount DEF Shell
<1>3. CASE Kill  BY <1>3, OthersCount
<1>4. CASE Checkout \/ Rerun  BY <1>4, NextPassCount
<1>5. CASE UNCHANGED vars
  <2>1. job' = job /\ status' = status /\ missing' = missing /\ report' = report
      BY <1>5 DEF vars
  <2>2. Probes' = Probes /\ Kinds' = Kinds /\ Steps' = Steps
      BY <2>1, SameWork
  <2> QED BY <2>1, <2>2
          DEF CountInv, KindsInv, StepInv, PlanInv, MissingInv, ReportInv, CountsOf
<1> QED BY <1>1, <1>2, <1>3, <1>4, <1>5 DEF Next

LEMMA KindsFinite == JobInv => IsFiniteSet(Kinds)
<1>1. ASSUME NEW x, NEW y PROVE IsFiniteSet({x, y})
  <2>1. IsFiniteSet({x}) /\ IsFiniteSet({y})
      BY FS_Singleton
  <2>2. IsFiniteSet({x} \cup {y})
      BY <2>1, FS_Union
  <2>3. {x, y} = {x} \cup {y}
      OBVIOUS
  <2> QED BY <2>2, <2>3
<1>2. Outcomes = {"built", "failed"} \cup {"skipped", "compiled"}
                 \cup {"compile-failed", "config-blocked"} \cup {"source-missing", "source-missing"}
    BY DEF Outcomes, Planned
<1>3. IsFiniteSet(Outcomes)
    BY <1>1, <1>2, FS_Union
<1> QED BY <1>3, OwnReport, FS_Subset

(* The rows of missing sources are as many as the probes that miss theirs: *)
(* no list names a probe twice.                                            *)
LEMMA MissingCounted ==
    ASSUME NEW rows, NEW probes, NEW n \in Nat, DOMAIN rows = 1..n, Len(probes) = n, Distinct(probes), NEW lost, lost \subseteq ToSet(probes),
           \A i \in 1..n : rows[i][1] = probes[i],
           \A i \in 1..n : rows[i][2] = "source-missing" <=> rows[i][1] \in lost
    PROVE  Cardinality({i \in DOMAIN rows : rows[i][2] = "source-missing"}) = Cardinality(lost)
<1> PICK at : at = {i \in DOMAIN rows : rows[i][2] = "source-missing"}
    OBVIOUS
<1>1. IsFiniteSet(at)
  <2>1. IsFiniteSet(1..n)
      BY FS_Interval
  <2> QED BY <2>1, FS_Subset
<1>2. at = {i \in 1..n : probes[i] \in lost}
    OBVIOUS
<1>3. \A p \in lost : \E i \in at : probes[i] = p
    BY <1>2 DEF ToSet
<1> PICK f : f = [i \in at |-> probes[i]]
    OBVIOUS
<1>4. f \in Bijection(at, lost)
  <2>1. f \in [at -> lost]
      BY <1>2
  <2>2. \A i, j \in at : f[i] = f[j] => i = j
      BY <1>2 DEF Distinct
  <2>3. \A p \in lost : \E i \in at : f[i] = p
      BY <1>3
  <2>4. DOMAIN f = at
      OBVIOUS
  <2> QED BY <2>1, <2>2, <2>3, <2>4 DEF Bijection, Injection, Surjection, IsInjective
<1>5. ExistsBijection(at, lost)
    BY <1>4 DEF ExistsBijection
<1> QED BY <1>1, <1>5, FS_Bijection

LEMMA CountsRight == JobInv /\ CountInv => CountsAddUp
<1> SUFFICES ASSUME JobInv, CountInv, job.phase \in {"enforce", "done"}
             PROVE  /\ FoldSet(LAMBDA kind, n : report[kind] + n, 0, Kinds) = Len(Probes)
                    /\ "source-missing" \in Kinds =>
                           report["source-missing"] = Cardinality(missing)
    BY DEF CountsAddUp
<1> SUFFICES /\ Total(report, Kinds) = Len(Probes)
             /\ "source-missing" \in Kinds => report["source-missing"] = Cardinality(missing)
    BY DEF Total
<1>1. status \in Rows /\ OneRowEach /\ report = CountsOf(status)
    BY DEF JobInv, CountInv, ReportInv
<1>2. Len(Probes) \in Nat
    BY OwnReport
<1>3. DOMAIN status = 1..Len(Probes) /\ \A i \in 1..Len(Probes) : status[i][1] = Probes[i]
    BY <1>1 DEF OneRowEach, Rows
<1>4. \A kind \in Kinds :
          report[kind] = Cardinality({i \in DOMAIN status : status[i][2] = kind})
    BY <1>1 DEF CountsOf
<1>5. Total(report, Kinds) = Cardinality(RowsIn(status, Kinds))
    BY <1>2, <1>3, <1>4, KindsFinite, RowsAddUp
<1>6. RowsIn(status, Kinds) = 1..Len(Probes)
    BY <1>3 DEF RowsIn, CountInv, KindsInv
<1>7. Cardinality(1..Len(Probes)) = Len(Probes)
    BY <1>2, FS_Interval
<1>8. ASSUME "source-missing" \in Kinds
      PROVE  report["source-missing"] = Cardinality(missing)
  <2>1. Distinct(Probes)
      BY <1>8, OwnCount
  <2>2. missing \subseteq ToSet(Probes)
      BY <1>8, OwnCount DEF CountInv, PlanInv
  <2>3. \A i \in 1..Len(Probes) : status[i][2] = "source-missing" <=> status[i][1] \in missing
      BY <1>3, <1>8 DEF CountInv, MissingInv
  <2>4. Cardinality({i \in DOMAIN status : status[i][2] = "source-missing"})
          = Cardinality(missing)
      BY <1>2, <1>3, <2>1, <2>2, <2>3, MissingCounted
  <2> QED BY <1>4, <1>8, <2>4
<1> QED BY <1>5, <1>6, <1>7, <1>8

(* Whatever the workflows, the downstream trees, and the passes: the       *)
(* counts a job publishes add up to its probes, and as many are counted    *)
(* without a source as the plan found to lack one.                         *)
THEOREM CountsAlwaysAddUp == Spec => []CountsAddUp
<1>1. JobInv /\ CountInv /\ [Next]_vars => (JobInv /\ CountInv)'
    BY JobStep, CountStep
<1> QED BY <1>1, InitJob, InitCount, CountsRight, PTL DEF Spec

-----------------------------------------------------------------------------
(***************************************************************************)
(* The patch.  First the programs: in each of them every file a step makes *)
(* is named to the index by some step, a walk comes after its seed and     *)
(* before the step that indexes what it staged, and the last step but for  *)
(* whitespace checks writes the whole difference.                          *)
(***************************************************************************)
(* A short sequence, with the operations of its steps in order.            *)
LEMMA ListedTuple ==
    ASSUME NEW s, NEW n \in Nat, n > 0, s = [i \in 1..n |-> s[i]]
    PROVE  Listed(s) /\ DOMAIN s = 1..n /\ Len(s) = n
<1>1. \A i \in 1..n : s[i] \in ToSet(s)
    BY DEF ToSet
<1> QED BY <1>1 DEF Listed

LEMMA Script56 ==
    Walks(Program56) /\ Indexed(Program56) /\ Ends(Program56) /\ Headless(Program56)
<1> PICK s : s = Program56
    OBVIOUS
<1>1. s = [i \in 1..6 |-> s[i]]
    BY DEF Program56
<1>2. Listed(s) /\ DOMAIN s = 1..6
  <2>1. 6 \in Nat /\ 6 > 0
      OBVIOUS
  <2> QED BY <1>1, <2>1, ListedTuple, Zenon
<1>3. /\ s[1].op = "seed_root" /\ s[2].op = "local_include" /\ s[3].op = "write"
      /\ s[4].op = "binding" /\ s[5].op = "intent_walked" /\ s[6].op = "diff"
      /\ s[3].file = Wrapper /\ s[5].files = {RootCopy, Wrapper} /\ s[6].only = {}
    BY DEF Program56, Do, Write, IntentWalked, Diff
<1>4. \A i \in 1..6 : i = 1 \/ i = 2 \/ i = 3 \/ i = 4 \/ i = 5 \/ i = 6
    OBVIOUS
<1>5. \A i \in DOMAIN s : s[i].op # "header" /\ s[i].op # "seed_headers"
    BY <1>2, <1>3, <1>4
<1>6. ASSUME NEW i \in DOMAIN s PROVE InTurn(s, i)
  <2>1. s[i].op \in Walking => \E j \in DOMAIN s : j > i /\ s[j].op = "intent_walked"
    <3>1. s[i].op \in Walking => i < 5
        BY <1>2, <1>3, <1>4 DEF Walking, Seeds
    <3> QED BY <1>2, <1>3, <3>1
  <2>2. s[i].op = "intent_walked" => \A j \in DOMAIN s : j > i => s[j].op \notin Walking
      BY <1>2, <1>3, <1>4 DEF Walking, Seeds
  <2>3. s[i].op \in Seeds => \A j \in DOMAIN s : j < i => s[j].op \notin Walking
      BY <1>2, <1>3, <1>4 DEF Seeds
  <2>4. s[i].op = "local_include" => i > 1 /\ s[i - 1].op = "seed_root"
      BY <1>2, <1>3, <1>4
  <2> QED BY <1>5, <2>1, <2>2, <2>3, <2>4 DEF InTurn
<1>7. Indexed(s)
  <2>1. Wrapper \in Indexes(s[5])
      BY <1>3 DEF Indexes
  <2>2. \A i \in DOMAIN s : Makes(s[i]) \subseteq {Wrapper}
      BY <1>2, <1>3, <1>4 DEF Makes
  <2> QED BY <1>2, <2>1, <2>2 DEF Indexed
<1>8. Ends(s)
  <2>1. FullDiff(s, 6) /\ 6 \in DOMAIN s
      BY <1>2, <1>3 DEF FullDiff
  <2> QED BY <2>1 DEF Ends
<1> QED BY <1>2, <1>5, <1>6, <1>7, <1>8 DEF Walks, Headless

LEMMA Script59 ==
    Calm(Program59) /\ Indexed(Program59) /\ Ends(Program59) /\ Headless(Program59)
<1> DEFINE files == ToSet(Staged59) \cup {"interconnect/Makefile", "interconnect/Kconfig"}
<1> PICK s : s = Program59
    OBVIOUS
<1>1. s = [i \in 1..9 |-> s[i]]
    BY DEF Program59
<1>2. Listed(s) /\ DOMAIN s = 1..9
  <2>1. 9 \in Nat /\ 9 > 0
      OBVIOUS
  <2> QED BY <1>1, <2>1, ListedTuple, Zenon
<1>3. /\ s[1].op = "copy" /\ s[1].to = Staged59[1]
      /\ s[2].op = "adapt" /\ s[2].file = Staged59[1]
      /\ s[3].op = "copy" /\ s[3].to = Staged59[2]
      /\ s[4].op = "copy" /\ s[4].to = Staged59[3]
      /\ s[5].op = "edit" /\ s[6].op = "edit"
    BY DEF Program59, Copy, CopyTo, Adapt, Edit
<1>4. /\ s[7].op = "plan" /\ s[8].op = "intent" /\ s[8].files = files
      /\ s[9].op = "diff" /\ s[9].only = {}
    BY DEF Program59, Plan, Intent, Diff
<1>5. \A i \in 1..9 : i = 1 \/ i = 2 \/ i = 3 \/ i = 4 \/ i = 5 \/ i = 6 \/ i = 7 \/ i = 8 \/ i = 9
    OBVIOUS
<1>6. Staged59[1] \in files /\ Staged59[2] \in files /\ Staged59[3] \in files
  <2>1. Staged59 = [i \in 1..3 |-> Staged59[i]]
      BY DEF Staged59
  <2>2. DOMAIN Staged59 = 1..3
      BY <2>1
  <2> QED BY <2>2 DEF ToSet
<1> HIDE DEF files
<1>7. \A i \in DOMAIN s : s[i].op \in {"copy", "adapt", "edit", "plan", "intent", "diff"}
    BY <1>2, <1>3, <1>4, <1>5
<1>8. Calm(s) /\ Headless(s)
    BY <1>2, <1>7 DEF Calm, Headless, Walking, Seeds
<1>9. Indexed(s)
  <2>1. 8 \in DOMAIN s /\ files \subseteq Indexes(s[8])
      BY <1>2, <1>4 DEF Indexes
  <2>2. \A i \in DOMAIN s : Makes(s[i]) \subseteq files
    <3>1. Makes(s[1]) \subseteq files /\ Makes(s[2]) \subseteq files
          /\ Makes(s[3]) \subseteq files /\ Makes(s[4]) \subseteq files
        BY <1>3, <1>6 DEF Makes
    <3>2. \A i \in 5..9 : Makes(s[i]) = {}
        BY <1>3, <1>4, <1>5 DEF Makes
    <3> QED BY <1>2, <1>5, <3>1, <3>2
  <2> QED BY <2>1, <2>2 DEF Indexed
<1>10. Ends(s)
  <2>1. FullDiff(s, 9) /\ 9 \in DOMAIN s
      BY <1>2, <1>4 DEF FullDiff
  <2> QED BY <2>1 DEF Ends
<1> QED BY <1>8, <1>9, <1>10

LEMMA Script66 ==
    /\ DOMAIN Program66 = 1..12 /\ Program66[7] = Do("seed_headers")
    /\ Program66[1] = CopyStripped(Downstream66[1], Driver66)
    /\ Program66[2] = Adapt(Driver66, AdaptDownstream)
    /\ Program66[3] = CopyStripped(Downstream66[2], Sources66[2])
    /\ Program66[4] = CopyStripped(Downstream66[3], Sources66[3])
    /\ Program66[5] = CopyStripped(Downstream66[4], Sources66[4])
    /\ Program66[6] = Write(Compat66, <<"66", "no-op-hooks">>)
    /\ \A i \in DOMAIN Program66 : Program66[i].op = "seed_headers" => i = 7
    /\ Walks(Program66) /\ Indexed(Program66) /\ Ends(Program66)
<1> DEFINE files == ToSet(Sources66) \cup {Compat66, Makefile66}
<1> PICK s : s = Program66
    OBVIOUS
<1>1. s = [i \in 1..12 |-> s[i]]
    BY DEF Program66
<1>2. Listed(s) /\ DOMAIN s = 1..12
  <2>1. 12 \in Nat /\ 12 > 0
      OBVIOUS
  <2> QED BY <1>1, <2>1, ListedTuple, Zenon
<1>3. /\ s[1] = CopyStripped(Downstream66[1], Driver66)
      /\ s[2] = Adapt(Driver66, AdaptDownstream)
      /\ s[3] = CopyStripped(Downstream66[2], Sources66[2])
      /\ s[4] = CopyStripped(Downstream66[3], Sources66[3])
      /\ s[5] = CopyStripped(Downstream66[4], Sources66[4])
      /\ s[6] = Write(Compat66, <<"66", "no-op-hooks">>)
      /\ s[7] = Do("seed_headers") /\ s[8] = Do("header")
      /\ s[9] = Write(Makefile66, <<"66", "arm-smmu-downstream.o">>)
      /\ s[11] = IntentWalked(files) /\ s[12] = Diff(TRUE)
    BY DEF Program66, CompatHeader
<1>4. s[10].op = "edit"
    BY DEF Program66, Edit
<1>5. /\ s[1].op = "copy" /\ s[1].to = Driver66 /\ s[2].op = "adapt" /\ s[2].file = Driver66
      /\ s[3].op = "copy" /\ s[3].to = Sources66[2] /\ s[4].op = "copy" /\ s[4].to = Sources66[3]
      /\ s[5].op = "copy" /\ s[5].to = Sources66[4] /\ s[6].op = "write" /\ s[6].file = Compat66
    BY <1>3 DEF CopyStripped, Adapt, Write
<1>6. /\ s[7].op = "seed_headers" /\ s[8].op = "header"
      /\ s[9].op = "write" /\ s[9].file = Makefile66
      /\ s[11].op = "intent_walked" /\ s[11].files = files
      /\ s[12].op = "diff" /\ s[12].only = {}
    BY <1>3 DEF Do, Write, IntentWalked, Diff
<1>7. \A i \in 1..12 : i = 1 \/ i = 2 \/ i = 3 \/ i = 4 \/ i = 5 \/ i = 6
                       \/ i = 7 \/ i = 8 \/ i = 9 \/ i = 10 \/ i = 11 \/ i = 12
    OBVIOUS
<1>8. /\ Driver66 \in files /\ Sources66[2] \in files /\ Sources66[3] \in files
      /\ Sources66[4] \in files /\ Compat66 \in files /\ Makefile66 \in files
    BY DEF Sources66, ToSet
<1> HIDE DEF files
<1>9. /\ \A i \in DOMAIN s : s[i].op \in Walking => i = 7 \/ i = 8
      /\ \A i \in DOMAIN s : s[i].op \in Seeds => i = 7
      /\ \A i \in DOMAIN s : s[i].op = "seed_headers" => i = 7
      /\ \A i \in DOMAIN s : s[i].op = "header" => i = 8
      /\ \A i \in DOMAIN s : s[i].op = "intent_walked" => i = 11
      /\ \A i \in DOMAIN s : s[i].op # "local_include"
    BY <1>2, <1>4, <1>5, <1>6, <1>7 DEF Walking, Seeds
<1>10. ASSUME NEW i \in DOMAIN s PROVE InTurn(s, i)
    BY <1>2, <1>6, <1>9 DEF InTurn
<1>11. Indexed(s)
  <2>1. 11 \in DOMAIN s /\ files \subseteq Indexes(s[11])
      BY <1>2, <1>6 DEF Indexes
  <2>2. \A i \in DOMAIN s : Makes(s[i]) \subseteq files
    <3>1. \A i \in 1..6 : Makes(s[i]) \subseteq files
        BY <1>5, <1>7, <1>8 DEF Makes
    <3>2. \A i \in 7..12 : Makes(s[i]) \subseteq files
        BY <1>4, <1>6, <1>7, <1>8 DEF Makes
    <3> QED BY <1>2, <3>1, <3>2
  <2> QED BY <2>1, <2>2 DEF Indexed
<1>12. Ends(s)
  <2>1. FullDiff(s, 12) /\ 12 \in DOMAIN s
      BY <1>2, <1>6 DEF FullDiff
  <2> QED BY <2>1 DEF Ends
<1> QED BY <1>2, <1>3, <1>9, <1>10, <1>11, <1>12 DEF Walks

LEMMA ThenChecks ==
    ASSUME NEW s, NEW t, Listed(s), Listed(t), Ends(s), \A i \in DOMAIN t : t[i].op = "check"
    PROVE  Ends(s \o t)
<1> PICK u : u = s \o t
    OBVIOUS
<1>1. IsJoin(u, s, t)
    BY Joined
<1>2. PICK n \in DOMAIN s : FullDiff(s, n)
    BY DEF Ends
<1>3. n \in DOMAIN u /\ FullDiff(u, n)
    BY <1>1, <1>2 DEF IsJoin, FullDiff
<1> QED BY <1>3 DEF Ends

LEMMA ScriptCheck ==
    /\ Calm(Check) /\ Indexed(Check) /\ Headless(Check)
    /\ \A i \in DOMAIN Check : Check[i].op = "check"
<1> PICK s : s = Check
    OBVIOUS
<1>1. s = [i \in 1..1 |-> s[i]] /\ s[1].op = "check"
    BY DEF Check, Do
<1>2. Listed(s) /\ DOMAIN s = 1..1
  <2>1. 1 \in Nat /\ 1 > 0
      OBVIOUS
  <2> QED BY <1>1, <2>1, ListedTuple, Zenon
<1> QED BY <1>1, <1>2 DEF Calm, Indexed, Headless, Makes, Walking, Seeds

LEMMA OneStep ==
    ASSUME NEW step
    PROVE  Listed(<<step>>) /\ DOMAIN <<step>> = {1} /\ <<step>>[1] = step
<1>1. DOMAIN <<step>> = {1} /\ <<step>>[1] = step
    OBVIOUS
<1>2. <<step>> \in Seq({step}) /\ ToSet(<<step>>) = {step} /\ Len(<<step>>) > 0
    BY <1>1 DEF ToSet
<1> QED BY <1>1, <1>2 DEF Listed

LEMMA DiffStep ==
    ASSUME NEW step, step.op = "diff", step.only = {}
    PROVE  /\ Calm(<<step>>) /\ Indexed(<<step>>) /\ Headless(<<step>>) /\ Ends(<<step>>)
<1> DEFINE s == <<step>>
<1>1. Listed(s) /\ DOMAIN s = {1} /\ s[1] = step
    BY OneStep
<1> HIDE DEF s
<1>2. 1 \in DOMAIN s /\ \A i \in DOMAIN s : s[i].op = "diff" /\ ~(i > 1)
    BY <1>1
<1>3. Calm(s) /\ Headless(s) /\ Indexed(s)
    BY <1>1, <1>2 DEF Calm, Indexed, Headless, Makes, Walking, Seeds
<1>4. FullDiff(s, 1)
    BY <1>1, <1>2 DEF FullDiff
<1> QED BY <1>2, <1>3, <1>4 DEF s, Ends

LEMMA ScriptDiff ==
    LET s == <<Diff(FALSE)>> IN Calm(s) /\ Indexed(s) /\ Headless(s) /\ Ends(s)
<1>1. Diff(FALSE).op = "diff" /\ Diff(FALSE).only = {}
    BY DEF Diff
<1> QED BY <1>1, DiffStep

LEMMA ScriptAudit ==
    Calm(Audit62) /\ Indexed(Audit62) /\ Headless(Audit62) /\ Ends(Audit62)
<1> PICK s : s = Audit62
    OBVIOUS
<1>1. /\ s = [i \in 1..2 |-> s[i]] /\ s[1].op = "audit"
      /\ s[2].op = "diff" /\ s[2].only = {}
    BY DEF Diff, Do, Audit62
<1>2. Listed(s) /\ DOMAIN s = 1..2
  <2>1. 2 \in Nat /\ 2 > 0
      OBVIOUS
  <2> QED BY <1>1, <2>1, ListedTuple, Zenon
<1>3. FullDiff(s, 2) /\ \A i \in 1..2 : i = 1 \/ i = 2
    BY <1>1, <1>2 DEF FullDiff
<1> QED BY <1>1, <1>2, <1>3 DEF Calm, Indexed, Headless, Makes, Walking, Seeds, Ends

(* Script 67 edits two files of GKI's and makes none.                      *)
LEMMA Script67 ==
    /\ Calm(Program67) /\ Indexed(Program67) /\ Headless(Program67)
    /\ \A i \in DOMAIN Program67 :
           \/ Program67[i].op = "need"
           \/ Program67[i].op = "edit" /\ Program67[i].file \in {SmmuC, ImplC}
           \/ Program67[i].op = "diff" /\ Program67[i].only = {SmmuC, ImplC}
    /\ \E i \in DOMAIN Program67 :
           Program67[i].op = "diff" /\ \A j \in DOMAIN Program67 : j <= i
<1> PICK s : s = Program67
    OBVIOUS
<1>1. s = [i \in 1..5 |-> s[i]]
    BY DEF Program67
<1>2. Listed(s) /\ DOMAIN s = 1..5
  <2>1. 5 \in Nat /\ 5 > 0
      OBVIOUS
  <2> QED BY <1>1, <2>1, ListedTuple, Zenon
<1>3. /\ s[1] = Need(SmmuC, AnyText) /\ s[2] = Need(ImplC, AnyText)
      /\ \E e : s[3] = Edit(SmmuC, e)
      /\ \E e : s[4] = Edit(ImplC, e)
      /\ s[5] = DiffOf({SmmuC, ImplC})
    BY DEF Program67, Replace
<1>4. \A p, m : Need(p, m).op = "need"
    BY DEF Need
<1>5. \A p, e : Edit(p, e).op = "edit" /\ Edit(p, e).file = p
    BY DEF Edit
<1>6. \A p : DiffOf(p).op = "diff" /\ DiffOf(p).only = p
    BY DEF DiffOf
<1>7. /\ s[1].op = "need" /\ s[2].op = "need"
      /\ s[3].op = "edit" /\ s[3].file = SmmuC /\ s[4].op = "edit" /\ s[4].file = ImplC
      /\ s[5].op = "diff" /\ s[5].only = {SmmuC, ImplC}
    BY <1>3, <1>4, <1>5, <1>6
<1>8. \A i \in 1..5 : i = 1 \/ i = 2 \/ i = 3 \/ i = 4 \/ i = 5
    OBVIOUS
<1>9. \A i \in DOMAIN s : s[i].op \in {"need", "edit", "diff"}
    BY <1>2, <1>7, <1>8
<1>10. Calm(s) /\ Indexed(s) /\ Headless(s)
    BY <1>2, <1>9 DEF Calm, Indexed, Headless, Makes, Walking, Seeds
<1>11. 5 \in DOMAIN s /\ \A j \in DOMAIN s : j <= 5
    BY <1>2
<1> QED BY <1>2, <1>7, <1>8, <1>10, <1>11

LEMMA Script68 == Calm(Program68) /\ Indexed(Program68) /\ Headless(Program68)
<1> PICK s : s = Program68
    OBVIOUS
<1>1. s = [i \in 1..10 |-> s[i]]
    BY DEF Program68
<1>2. Listed(s) /\ DOMAIN s = 1..10
  <2>1. 10 \in Nat /\ 10 > 0
      OBVIOUS
  <2> QED BY <1>1, <2>1, ListedTuple, Zenon
<1>3. /\ s[1] = Need(SmmuC, AnyText) /\ s[2] = Need(SmmuH, AnyText)
      /\ \E m : s[3] = Need(SmmuC, m)
      /\ \E e : s[4] = Edit(SmmuH, e)
      /\ \E e : s[5] = Edit(SmmuC, e)
      /\ \E e : s[6] = Edit(SmmuC, e)
      /\ \E e : s[7] = Edit(SmmuC, e)
      /\ \E e : s[8] = Edit(SmmuC, e)
      /\ s[9] = Do("normalize") /\ s[10] = DiffOf({SmmuC, SmmuH})
    BY DEF Program68, Replace
<1>4. \A p, m : Need(p, m).op = "need"
    BY DEF Need
<1>5. \A p, e : Edit(p, e).op = "edit"
    BY DEF Edit
<1>6. \A p : DiffOf(p).op = "diff"
    BY DEF DiffOf
<1>7. \A op : Do(op).op = op
    BY DEF Do
<1>8. /\ s[1].op = "need" /\ s[2].op = "need" /\ s[3].op = "need"
      /\ s[4].op = "edit" /\ s[5].op = "edit" /\ s[6].op = "edit"
      /\ s[7].op = "edit" /\ s[8].op = "edit" /\ s[9].op = "normalize" /\ s[10].op = "diff"
    BY <1>3, <1>4, <1>5, <1>6, <1>7
<1>9. \A i \in 1..10 : i = 1 \/ i = 2 \/ i = 3 \/ i = 4 \/ i = 5
                       \/ i = 6 \/ i = 7 \/ i = 8 \/ i = 9 \/ i = 10
    OBVIOUS
<1>10. \A i \in DOMAIN s : s[i].op \in {"need", "edit", "diff", "normalize"}
    BY <1>2, <1>8, <1>9
<1> QED BY <1>2, <1>10 DEF Calm, Indexed, Headless, Makes, Walking, Seeds

Sound(s) == Walks(s) /\ Indexed(s)

LEMMA CalmWalks == ASSUME NEW s, Calm(s) PROVE Walks(s)
BY DEF Calm, Walks, InTurn, Walking, Seeds

(* Workflows whose last patch, if any, is of two files of GKI's.           *)
Inventories == {"w57r", "w57c", "w58b", "w58m", "w60", "w61", "w64"}
Few == Inventories \cup {"w67"}

LEMMA OwnInventory ==
    ASSUME NEW w \in Inventories
    PROVE  /\ Listed(Staging[w]) /\ DOMAIN Staging[w] = {1} /\ Staging[w][1].op = "plan"
<1>1. \E probes : Staging[w] = Plan(probes)
    BY DEF Staging, Inventories, Inventory57Rpmh, Inventory57Core, Inventory58Bus,
           Inventory58Memory, Inventory60, Inventory61, Inventory64
<1>2. PICK probes : Staging[w] = Plan(probes)
    BY <1>1
<1>3. PICK step : Staging[w] = <<step>> /\ step.op = "plan"
    BY <1>2 DEF Plan
<1> QED BY <1>3, OneStep

LEMMA InventorySound ==
    ASSUME NEW w \in Inventories
    PROVE  Sound(Staging[w]) /\ Headless(Staging[w])
<1>1. Calm(Staging[w]) /\ Headless(Staging[w]) /\ Indexed(Staging[w])
    BY OwnInventory DEF Calm, Headless, Indexed, Makes, Walking, Seeds
<1> QED BY <1>1, CalmWalks DEF Sound

LEMMA Own67 ==
    LET s == Staging["w67"]
    IN  /\ Sound(s) /\ Headless(s)
        /\ \A i \in DOMAIN s :
               \/ s[i].op \in {"need", "check"}
               \/ s[i].op = "edit" /\ s[i].file \in {SmmuC, ImplC}
               \/ s[i].op = "diff" /\ s[i].only = {SmmuC, ImplC}
        /\ \E n \in DOMAIN s :
               s[n].op = "diff" /\ \A i \in DOMAIN s : i > n => s[i].op = "check"
<1> PICK s : s = Staging["w67"]
    OBVIOUS
<1>0. s = Program67 \o Check
    BY DEF Staging
<1>1. Listed(Program67) /\ Listed(Check)
    BY Script67, ScriptCheck DEF Calm
<1>2. IsJoin(s, Program67, Check)
    BY <1>0, <1>1, Joined
<1>3. Sound(s) /\ Headless(s)
    BY <1>0, <1>1, Script67, ScriptCheck, CalmWalks, JoinedCalm, JoinedIndexed, JoinedHeadless DEF Sound
<1>4. ASSUME NEW i \in DOMAIN s
      PROVE  \/ s[i].op \in {"need", "check"}
             \/ s[i].op = "edit" /\ s[i].file \in {SmmuC, ImplC}
             \/ s[i].op = "diff" /\ s[i].only = {SmmuC, ImplC}
    BY <1>2, Script67, ScriptCheck DEF IsJoin
<1>5. PICK n \in DOMAIN Program67 :
          Program67[n].op = "diff" /\ \A j \in DOMAIN Program67 : j <= n
    BY Script67
<1>6. n \in DOMAIN s /\ s[n].op = "diff" /\ \A i \in DOMAIN s : i > n => s[i].op = "check"
  <2>1. \A i \in DOMAIN Program67 : ~(i > n)
      BY <1>2, <1>5 DEF IsJoin
  <2> QED BY <1>2, <1>5, <2>1, ScriptCheck DEF IsJoin
<1> QED BY <1>3, <1>4, <1>6

LEMMA Own66 ==
    LET s == Staging["w66"]
    IN  /\ Sound(s) /\ Ends(s) /\ 1..7 \subseteq DOMAIN s
        /\ s[7] = Do("seed_headers")
        /\ s[1] = CopyStripped(Downstream66[1], Driver66)
        /\ s[2] = Adapt(Driver66, AdaptDownstream)
        /\ s[3] = CopyStripped(Downstream66[2], Sources66[2])
        /\ s[4] = CopyStripped(Downstream66[3], Sources66[3])
        /\ s[5] = CopyStripped(Downstream66[4], Sources66[4])
        /\ s[6] = Write(Compat66, <<"66", "no-op-hooks">>)
        /\ \A i \in DOMAIN s : s[i].op = "seed_headers" => i = 7
<1> PICK s : s = Staging["w66"]
    OBVIOUS
<1>0. s = Program66 \o Check
    BY DEF Staging
<1>1. Listed(Program66) /\ Listed(Check)
    BY Script66, ScriptCheck DEF Calm, Walks
<1>2. IsJoin(s, Program66, Check)
    BY <1>0, <1>1, Joined
<1>3. Sound(s) /\ Ends(s)
    BY <1>0, <1>1, Script66, ScriptCheck, WalksThenCalm, JoinedIndexed, ThenChecks DEF Sound
<1>4. \A i \in 1..7 : i \in DOMAIN s /\ s[i] = Program66[i]
  <2>1. \A i \in 1..7 : i \in DOMAIN Program66
    <3>1. DOMAIN Program66 = 1..12
        BY Script66
    <3> QED BY <3>1
  <2> QED BY <1>2, <2>1 DEF IsJoin
<1>5. \A i \in DOMAIN s : s[i].op = "seed_headers" => i = 7
    BY <1>2, Script66, ScriptCheck DEF IsJoin
<1>6. /\ s[1] = Program66[1] /\ s[2] = Program66[2] /\ s[3] = Program66[3]
      /\ s[4] = Program66[4] /\ s[5] = Program66[5] /\ s[6] = Program66[6]
      /\ s[7] = Program66[7]
    BY <1>4
<1> QED BY <1>3, <1>4, <1>5, <1>6, Script66

LEMMA Programs ==
    ASSUME NEW w \in DOMAIN Staging
    PROVE  /\ Sound(Staging[w])
           /\ w # "w66" => Headless(Staging[w])
           /\ w \notin Few => Ends(Staging[w])
<1> DEFINE Good(s) == Sound(s) /\ Ends(s) /\ Headless(s)
<1>1. \A s \in {Program53, Program54, Program55, Program59, Audit62, <<Diff(FALSE)>>} :
          Calm(s) /\ Indexed(s) /\ Ends(s) /\ Headless(s) /\ Listed(s)
    BY Script53, Script54, Script55, PlainCloses, Script59, ScriptAudit, ScriptDiff DEF Calm
<1>2. \A s \in {Program67, Program68, Check} :
          Calm(s) /\ Indexed(s) /\ Headless(s) /\ Listed(s)
    BY Script67, Script68, ScriptCheck DEF Calm
<1>3. Good(Program56) /\ Listed(Program56)
    BY Script56 DEF Sound, Walks
<1>4. ASSUME NEW s, NEW t, Calm(s), Indexed(s), Headless(s), Calm(t), Indexed(t), Headless(t)
      PROVE  /\ Calm(s \o t) /\ Indexed(s \o t) /\ Headless(s \o t) /\ Listed(s \o t)
             /\ Ends(t) => Ends(s \o t)
    BY <1>4, JoinedCalm, JoinedIndexed, JoinedHeadless, JoinedEnds DEF Calm
<1>5. ASSUME NEW s, NEW t, Calm(s), Indexed(s), Headless(s), Good(t) PROVE Good(s \o t)
    BY <1>5, CalmThenWalks, JoinedIndexed, JoinedHeadless, JoinedEnds DEF Calm, Sound, Walks
<1>6. ASSUME NEW s, NEW t, Sound(s), Headless(s), Calm(t), Indexed(t), Headless(t)
      PROVE  Sound(s \o t) /\ Headless(s \o t) /\ (Ends(t) => Ends(s \o t))
    BY <1>6, WalksThenCalm, JoinedIndexed, JoinedHeadless, JoinedEnds DEF Calm, Sound, Walks
<1>7. ASSUME NEW s, Calm(s), Indexed(s), Headless(s), Ends(s) PROVE Good(s)
    BY <1>7, CalmWalks DEF Sound
<1> DEFINE two == Program53 \o Program54
           three == two \o Program55
           four == three \o Program56
<1>8. Calm(two) /\ Indexed(two) /\ Headless(two) /\ Ends(two)
    BY <1>1, <1>4
<1>9. Calm(three) /\ Indexed(three) /\ Headless(three) /\ Ends(three)
    BY <1>1, <1>4, <1>8
<1>10. Good(four)
    BY <1>3, <1>5, <1>9
<1>11. Good(four \o Program59)
    BY <1>1, <1>6, <1>10
<1>12. Lagoon = four \o Program59
    BY DEF Lagoon
<1>13. Good(Lagoon \o Audit62)
    BY <1>1, <1>6, <1>11, <1>12
<1>14. Good((((Lagoon \o Program67) \o Program68) \o Check) \o <<Diff(FALSE)>>)
  <2>1. Sound(Lagoon \o Program67) /\ Headless(Lagoon \o Program67)
      BY <1>2, <1>6, <1>11, <1>12
  <2>2. Sound((Lagoon \o Program67) \o Program68) /\ Headless((Lagoon \o Program67) \o Program68)
      BY <1>2, <1>6, <2>1
  <2>3. Sound(((Lagoon \o Program67) \o Program68) \o Check)
        /\ Headless(((Lagoon \o Program67) \o Program68) \o Check)
      BY <1>2, <1>6, <2>2
  <2> QED BY <1>1, <1>6, <2>3
<1>15. /\ Staging["w53"] = Program53 /\ Staging["w54"] = two
       /\ Staging["w55"] = three /\ Staging["w56"] = four
       /\ Staging["w59"] = Program59 /\ Staging["w62"] = Lagoon \o Audit62
       /\ Staging["w68"] = (((Lagoon \o Program67) \o Program68) \o Check) \o <<Diff(FALSE)>>
    BY DEF Staging
<1>16. w \in Few \cup {"w53", "w54", "w55", "w56", "w59", "w62", "w66", "w68"}
    BY DEF Staging, Few, Inventories
<1> HIDE DEF two, three, four
<1>17. CASE w = "w53" \/ w = "w59"
    BY <1>1, <1>7, <1>15, <1>17
<1>18. CASE w = "w54" \/ w = "w55"
    BY <1>7, <1>8, <1>9, <1>15, <1>18
<1>19. CASE w \in {"w56", "w62", "w68"}
    BY <1>10, <1>13, <1>14, <1>15, <1>19
<1>20. CASE w \in Inventories
    BY <1>20, InventorySound DEF Few
<1>21. CASE w = "w67"
    BY <1>21, Own67 DEF Few
<1>22. CASE w = "w66"
    BY <1>22, Own66
<1> QED BY <1>16, <1>17, <1>18, <1>19, <1>20, <1>21, <1>22 DEF Few

(***************************************************************************)
(* The files a walk of local includes reaches from the root.               *)
(***************************************************************************)
Closed(C) == Root \in C /\ \A p \in C \cap DOMAIN src : Named(src[p], "local") \subseteq C

Nameable == {Root} \cup UNION {Named(src[p], "local") : p \in DOMAIN src}

Closure == {p \in Nameable : \A C \in SUBSET Nameable : Closed(C) => p \in C}

Placed == {Place56(p) : p \in Closure \cap DOMAIN src}

LEMMA ClosureClosed == Closed(Closure)
<1>1. Root \in Closure
    BY DEF Closed, Closure, Nameable
<1>2. ASSUME NEW p \in Closure \cap DOMAIN src, NEW q \in Named(src[p], "local")
      PROVE  q \in Closure
  <2>1. q \in Nameable
      BY DEF Nameable
  <2>2. ASSUME NEW C \in SUBSET Nameable, Closed(C) PROVE q \in C
    <3>1. p \in C
        BY <2>2 DEF Closure
    <3> QED BY <2>2, <3>1 DEF Closed
  <2> QED BY <2>1, <2>2 DEF Closure
<1> QED BY <1>1, <1>2 DEF Closed

LEMMA ClosureLeast ==
    ASSUME NEW C, Closed(C)
    PROVE  Closure \subseteq C
<1> DEFINE D == C \cap Nameable
<1>1. Root \in D
    BY DEF Closed, Nameable
<1>2. ASSUME NEW p \in D \cap DOMAIN src, NEW q \in Named(src[p], "local") PROVE q \in D
    BY DEF Closed, Nameable
<1>3. D \in SUBSET Nameable /\ Closed(D)
    BY <1>1, <1>2 DEF Closed
<1> QED BY <1>3 DEF Closure

(***************************************************************************)
(* The invariant of the patch.                                             *)
(***************************************************************************)
LocalFiles == IF \E i \in DOMAIN Steps : Steps[i].op = "local_include" THEN Placed ELSE {}

(* Every file is GKI's, or named to the index, or will be, or is of a walk *)
(* that will come by it again, or is a stray the next walk leaves alone.   *)
TreeInv ==
    /\ DOMAIN Gki \subseteq DOMAIN tree
    /\ intent \subseteq DOMAIN tree
    /\ torn \subseteq DOMAIN tree
    /\ strays \cap DOMAIN Gki = {}
    /\ DOMAIN tree \subseteq DOMAIN Gki \cup intent \cup AllIntent \cup LocalFiles \cup HeadersNamed

Known == DOMAIN Gki \cup intent \cup AllIntent \cup LocalFiles \cup strays \cup walk.staged

(* Indexed so far, before step k.                                          *)
Behind(k) ==
    \A i \in DOMAIN Steps : i < k =>
        /\ Indexes(Steps[i]) \subseteq intent
        /\ Steps[i].op = "intent_walked" => walk.staged \subseteq intent
        /\ Steps[i].op = "local_include" => Placed \subseteq walk.staged

(* No walk before its seed, and none in a workflow that does not walk.     *)
Fresh(k) ==
    /\ \A i \in DOMAIN Steps : i >= k /\ Steps[i].op \in Seeds => walk.staged = {}
    /\ (\A i \in DOMAIN Steps : Steps[i].op \notin Walking) => walk.staged = {}

WalkFields == {"queue", "seen", "staged", "angle", "lost"}

(* The walk of local includes has placed what it has seen, and has seen or *)
(* will see what that names.                                               *)
LocalWalk ==
    /\ Root \in walk.seen \cup walk.queue
    /\ walk.seen \cup walk.queue \subseteq Closure
    /\ \A p \in walk.seen \cap DOMAIN src :
           /\ Place56(p) \in walk.staged
           /\ Named(src[p], "local") \subseteq walk.seen \cup walk.queue

(* The sources of the downstream driver, as the steps before k left them.  *)
Copied(i) ==
    /\ Downstream66[i] \in DOMAIN src /\ Sources66[i] \in DOMAIN tree
    /\ tree[Sources66[i]] = Stripped(src[Downstream66[i]])

Ported ==
    /\ Downstream66[1] \in DOMAIN src /\ Sources66[1] \in DOMAIN tree
    /\ tree[Sources66[1]] = Adapted(Stripped(src[Downstream66[1]]), AdaptDownstream)

Sources(k) ==
    /\ k = 2 => Copied(1)
    /\ k > 2 => Ported
    /\ k > 3 => Copied(2)
    /\ k > 4 => Copied(3)
    /\ k > 5 => Copied(4)

StageAt(k) ==
    /\ DOMAIN walk = WalkFields
    /\ DOMAIN tree \subseteq Known
    /\ walk.angle \subseteq HeadersNamed
    /\ Behind(k)
    /\ Fresh(k)
    /\ k \in DOMAIN Steps /\ Steps[k].op = "local_include" => LocalWalk
    /\ k \in DOMAIN Steps /\ Steps[k].op = "header" => walk.queue \subseteq HeadersNamed
    /\ job.w = "w66" /\ k \in 1..7 => Sources(k)

StageInv == job.phase = "stage" => job.step \in DOMAIN Steps /\ StageAt(job.step)

(* What the patch must be.                                                 *)
Wanted == [path \in Changed(tree) \ (strays \ intent) |-> tree[path]]

PatchAt(k) == (\A i \in DOMAIN Steps : i >= k => Steps[i].op = "check") => patch = Wanted

PatchInv ==
    /\ job.phase = "stage" => PatchAt(job.step)
    /\ job.phase = "compile" => patch = Wanted

(* The workflows that make no file.                                        *)
FewInv ==
    job.w \in Few =>
        /\ DOMAIN tree = DOMAIN Gki /\ intent = {}
        /\ Changed(tree) \subseteq {SmmuC, ImplC}
        /\ job.w \in Inventories => Changed(tree) = {} /\ patch = <<>>

WholeInv == TreeInv /\ StageInv /\ PatchInv /\ FewInv

(* Which steps a staging action takes.                                     *)
Walker == SeedRoot \/ LocalInclude \/ LocalsDone \/ Binding \/ BindingsDone
          \/ SeedHeaders \/ Header \/ HeadersDone

Ops == {"source", "need", "copy", "adapt", "write", "edit", "diff", "normalize", "check",
        "plan", "audit"}

LEMMA ByOp ==
    ASSUME Stage
    PROVE  /\ job.phase = "stage"
           /\ Now.op \in Ops \/ Walker \/ AddIntent
           /\ Walker => Now.op \in Walking
           /\ AddIntent => Now.op \in {"intent", "intent_walked"}
           /\ Now.op = "copy" => CopyFile
           /\ Now.op = "adapt" => AdaptFile
           /\ Now.op = "write" => WriteFile
           /\ Now.op = "edit" => EditFile
           /\ Now.op = "diff" => WriteDiff
<1>1. NeedDownstream => At("source")  BY DEF NeedDownstream
<1>2. NeedFile => At("need")  BY DEF NeedFile
<1>3. CopyFile => At("copy")  BY DEF CopyFile
<1>4. AdaptFile => At("adapt")  BY DEF AdaptFile
<1>5. WriteFile => At("write")  BY DEF WriteFile
<1>6. EditFile => At("edit")  BY DEF EditFile
<1>7. SeedRoot => At("seed_root")  BY DEF SeedRoot
<1>8. LocalInclude => At("local_include")  BY DEF LocalInclude
<1>9. LocalsDone => At("local_include")  BY DEF LocalsDone
<1>10. Binding => At("binding")  BY DEF Binding
<1>11. BindingsDone => At("binding")  BY DEF BindingsDone
<1>12. SeedHeaders => At("seed_headers")  BY DEF SeedHeaders
<1>13. Header => At("header")  BY DEF Header
<1>14. HeadersDone => At("header")  BY DEF HeadersDone
<1>15. AddIntent => At("intent") \/ At("intent_walked")  BY DEF AddIntent
<1>16. WriteDiff => At("diff")  BY DEF WriteDiff
<1>17. Normalize => At("normalize")  BY DEF Normalize
<1>18. CheckWhitespace => At("check")  BY DEF CheckWhitespace
<1>19. PlanProbes => At("plan")  BY DEF PlanProbes
<1>20. AuditConfig => At("audit")  BY DEF AuditConfig
<1> QED
    BY <1>1, <1>2, <1>3, <1>4, <1>5, <1>6, <1>7, <1>8, <1>9, <1>10, <1>11, <1>12, <1>13,
       <1>14, <1>15, <1>16, <1>17, <1>18, <1>19, <1>20
       DEF Stage, At, Walker, Walking, Seeds, Ops

LEMMA StageFrame ==
    ASSUME Stage
    PROVE  /\ src' = src /\ strays' = strays /\ torn' = torn /\ passes' = passes
           /\ patch' = patch \/ Now.op = "diff"
<1> DEFINE Same == /\ src' = src /\ strays' = strays /\ torn' = torn /\ passes' = passes
                   /\ patch' = patch \/ Now.op = "diff"
<1> USE DEF StageVars
<1>1. NeedDownstream \/ NeedFile \/ CopyFile \/ AdaptFile => Same
    BY DEF NeedDownstream, NeedFile, CopyFile, AdaptFile
<1>2. WriteFile \/ EditFile \/ SeedRoot \/ LocalInclude => Same
    BY DEF WriteFile, EditFile, SeedRoot, LocalInclude
<1>3. LocalsDone \/ Binding \/ BindingsDone \/ SeedHeaders => Same
    BY DEF LocalsDone, Binding, BindingsDone, SeedHeaders
<1>4. Header \/ HeadersDone \/ AddIntent \/ WriteDiff => Same
    BY DEF Header, HeadersDone, AddIntent, WriteDiff, At
<1>5. Normalize \/ CheckWhitespace \/ PlanProbes \/ AuditConfig => Same
    BY DEF Normalize, CheckWhitespace, PlanProbes, AuditConfig
<1> QED BY <1>1, <1>2, <1>3, <1>4, <1>5 DEF Stage

(* No step changes the workflow, the downstream tree or what follows from  *)
(* them.                                                                   *)
LEMMA SameTerms ==
    ASSUME src' = src, job'.w = job.w
    PROVE  /\ Steps' = Steps /\ AllIntent' = AllIntent /\ LocalFiles' = LocalFiles
           /\ Placed' = Placed /\ Closure' = Closure /\ HeadersNamed' = HeadersNamed
<1>1. Steps' = Steps
    BY DEF Steps
<1>2. AllIntent' = AllIntent
    BY <1>1 DEF AllIntent
<1>3. Nameable' = Nameable
    BY DEF Nameable
<1>4. Closure' = Closure
    BY <1>3 DEF Closure, Closed
<1>5. Placed' = Placed
    BY <1>4 DEF Placed
<1>6. LocalFiles' = LocalFiles
    BY <1>1, <1>5 DEF LocalFiles
<1>7. HeadersNamed' = HeadersNamed
    BY DEF HeadersNamed
<1> QED BY <1>1, <1>2, <1>4, <1>5, <1>6, <1>7

(* A step that is no walk's and does not touch the index.                  *)
LEMMA OpsFrame ==
    ASSUME Stage, Now.op \in Ops
    PROVE  /\ walk' = walk /\ intent' = intent
           /\ DOMAIN tree \subseteq DOMAIN tree'
           /\ DOMAIN tree' \subseteq DOMAIN tree \cup Makes(Now)
           /\ Advance \/ Refuse \/ job' = [job EXCEPT !.phase = "rejected"]
              \/ (job' = job /\ Now.op = "normalize")
           /\ Now.op \in {"check", "diff", "plan", "audit", "need", "source"} => tree' = tree
           /\ Now.op = "edit" => /\ DOMAIN tree' = DOMAIN tree
                                 /\ \A p \in DOMAIN tree : p # Now.file => tree'[p] = tree[p]
<1> DEFINE Same == /\ walk' = walk /\ intent' = intent
                   /\ DOMAIN tree \subseteq DOMAIN tree'
                   /\ DOMAIN tree' \subseteq DOMAIN tree \cup Makes(Now)
                   /\ Advance \/ Refuse \/ job' = [job EXCEPT !.phase = "rejected"]
                      \/ (job' = job /\ Now.op = "normalize")
                   /\ Now.op \in {"check", "diff", "plan", "audit", "need", "source"} => tree' = tree
                   /\ Now.op = "edit" => /\ DOMAIN tree' = DOMAIN tree
                                         /\ \A p \in DOMAIN tree : p # Now.file => tree'[p] = tree[p]
<1>0. ~Walker /\ ~AddIntent
    BY ByOp DEF Ops, Walking, Seeds
<1>1. NeedDownstream \/ NeedFile \/ CheckWhitespace \/ PlanProbes \/ AuditConfig => Same
    BY DEF NeedDownstream, NeedFile, CheckWhitespace, PlanProbes, AuditConfig, At
<1>2. WriteDiff => Same
    BY DEF WriteDiff, At
<1>3. CopyFile \/ WriteFile => Same
    BY DEF CopyFile, WriteFile, At, Put, Makes
<1>4. AdaptFile => Same
    BY DEF AdaptFile, At
<1>5. EditFile => Same
    BY DEF EditFile, At
<1>6. Normalize => Same
    BY DEF Normalize, At
<1> QED BY <1>0, <1>1, <1>2, <1>3, <1>4, <1>5, <1>6 DEF Stage, Walker

(* The program of the job, and where it stands.                            *)
LEMMA Program ==
    ASSUME JobOK
    PROVE  /\ Listed(Steps) /\ DOMAIN Steps = 1..Len(Steps) /\ Len(Steps) \in Nat
           /\ Sound(Steps)
           /\ job.w # "w66" => Headless(Steps)
           /\ job.w \notin Few => Ends(Steps)
           /\ \A i \in DOMAIN Steps : Makes(Steps[i]) \subseteq AllIntent
<1>1. job.w \in DOMAIN Staging
    BY WorkflowsAssumption DEF JobOK
<1>2. /\ Sound(Steps) /\ (job.w # "w66" => Headless(Steps))
      /\ (job.w \notin Few => Ends(Steps))
    BY <1>1, Programs DEF Steps
<1>3. \A i \in DOMAIN Steps : Makes(Steps[i]) \subseteq AllIntent
    BY <1>2 DEF Sound, Indexed, AllIntent
<1>4. Listed(Steps)
    BY <1>2 DEF Sound, Walks
<1>5. DOMAIN Steps = 1..Len(Steps) /\ Len(Steps) \in Nat
    BY <1>4 DEF Listed
<1> QED BY <1>2, <1>3, <1>4, <1>5

(* The first seven steps of script 66.                                     *)
LEMMA Turn66 ==
    ASSUME JobOK, job.w = "w66"
    PROVE  /\ \A i \in DOMAIN Steps : Steps[i].op = "seed_headers" => i = 7
           /\ \A k \in 1..7 : k \in DOMAIN Steps
           /\ \A k \in 1..6 : Steps[k].op \in {"copy", "adapt", "write"}
           /\ Steps[7].op = "seed_headers"
<1>1. Steps = Staging["w66"]
    BY DEF Steps
<1>2. /\ Steps[1].op = "copy" /\ Steps[2].op = "adapt" /\ Steps[3].op = "copy"
      /\ Steps[4].op = "copy" /\ Steps[5].op = "copy" /\ Steps[6].op = "write"
      /\ Steps[7].op = "seed_headers"
    BY <1>1, Own66 DEF CopyStripped, Adapt, Write, Do
<1>3. \A k \in 1..6 : k = 1 \/ k = 2 \/ k = 3 \/ k = 4 \/ k = 5 \/ k = 6
    OBVIOUS
<1>4. \A k \in 1..6 : Steps[k].op \in {"copy", "adapt", "write"}
    BY <1>2, <1>3
<1>5. \A k \in 1..7 : k \in DOMAIN Steps
    BY <1>1, Own66
<1>6. \A i \in DOMAIN Steps : Steps[i].op = "seed_headers" => i = 7
    BY <1>1, Own66
<1> QED BY <1>2, <1>4, <1>5, <1>6

(* They copy the driver and its headers and adapt it.                      *)
LEMMA SourcesKeep ==
    ASSUME JobOK, Stage, job.w = "w66", NEW k \in 1..6, k = job.step, Sources(k), Advance
    PROVE  Sources(k + 1)'
<1> DEFINE drv == Sources66[1]
           regs == Sources66[2]
           dbg == Sources66[3]
           log == Sources66[4]
<1>1. /\ drv # regs /\ drv # dbg /\ drv # log /\ regs # dbg /\ regs # log /\ dbg # log
      /\ Compat66 \notin {drv, regs, dbg, log} /\ Driver66 = drv
    BY DEF Sources66, Driver66, Compat66
<1>2. Steps = Staging["w66"]
    BY DEF Steps
<1>3. src' = src
    BY StageFrame
<1>4. Now = Steps[k]
    BY DEF Now
<1>5. job' # [job EXCEPT !.phase = "refused"]
    BY DEF Advance, JobOK
<1> DEFINE Apart(to) == \A p \in DOMAIN tree : p # to => p \in DOMAIN tree' /\ tree'[p] = tree[p]
<1>6. ASSUME NEW from, NEW to, Now = CopyStripped(from, to)
      PROVE  /\ from \in DOMAIN src /\ to \in DOMAIN tree' /\ tree'[to] = Stripped(src[from])
             /\ Apart(to)
  <2>1. Now.op = "copy" /\ Now.file = from /\ Now.to = to /\ Now.strip = TRUE
      BY <1>6 DEF CopyStripped
  <2>2. CopyFile
      BY <2>1, ByOp
  <2> QED BY <1>5, <2>1, <2>2 DEF CopyFile, Put, Refuse
<1> HIDE DEF drv, regs, dbg, log
<1>7. CASE k = 1
  <2>1. Now = CopyStripped(Downstream66[1], drv)
      BY <1>1, <1>2, <1>4, <1>7, Own66
  <2>2. Copied(1)'
      BY <1>3, <1>6, <2>1 DEF Copied, drv
  <2> QED BY <1>7, <2>2 DEF Sources
<1>8. CASE k = 2
  <2>1. Now = Adapt(drv, AdaptDownstream)
      BY <1>1, <1>2, <1>4, <1>8, Own66
  <2>2. Now.op = "adapt" /\ Now.file = drv /\ Now.how = AdaptDownstream
      BY <2>1 DEF Adapt
  <2>3. AdaptFile
      BY <2>2, ByOp
  <2>4. Copied(1)
      BY <1>8 DEF Sources
  <2>5. drv \in DOMAIN tree' /\ tree'[drv] = Adapted(tree[drv], AdaptDownstream)
      BY <1>5, <2>2, <2>3, <2>4 DEF AdaptFile, Refuse, Copied, drv
  <2>6. Ported'
      BY <1>3, <2>4, <2>5 DEF Ported, Copied, drv
  <2> QED BY <1>8, <2>6 DEF Sources
<1>9. CASE k = 3
  <2>1. Now = CopyStripped(Downstream66[2], regs)
      BY <1>2, <1>4, <1>9, Own66 DEF regs
  <2>2. Copied(2)'
      BY <1>3, <1>6, <2>1 DEF Copied, regs
  <2>3. Ported'
      BY <1>1, <1>3, <1>6, <1>9, <2>1 DEF Sources, Ported, drv
  <2> QED BY <1>9, <2>2, <2>3 DEF Sources
<1>10. CASE k = 4
  <2>1. Now = CopyStripped(Downstream66[3], dbg)
      BY <1>2, <1>4, <1>10, Own66 DEF dbg
  <2>2. Copied(3)'
      BY <1>3, <1>6, <2>1 DEF Copied, dbg
  <2>3. Ported' /\ Copied(2)'
      BY <1>1, <1>3, <1>6, <1>10, <2>1 DEF Sources, Ported, Copied, drv, regs
  <2> QED BY <1>10, <2>2, <2>3 DEF Sources
<1>11. CASE k = 5
  <2>1. Now = CopyStripped(Downstream66[4], log)
      BY <1>2, <1>4, <1>11, Own66 DEF log
  <2>2. Copied(4)'
      BY <1>3, <1>6, <2>1 DEF Copied, log
  <2>3. Ported' /\ Copied(2)' /\ Copied(3)'
      BY <1>1, <1>3, <1>6, <1>11, <2>1 DEF Sources, Ported, Copied, drv, regs, dbg
  <2> QED BY <1>11, <2>2, <2>3 DEF Sources
<1>12. CASE k = 6
  <2>1. Now.op = "write" /\ Now.file = Compat66
      BY <1>2, <1>4, <1>12, Own66 DEF Write
  <2>2. Apart(Compat66)
      BY <2>1, ByOp DEF WriteFile, Put
  <2>3. Ported' /\ Copied(2)' /\ Copied(3)' /\ Copied(4)'
      BY <1>1, <1>3, <1>12, <2>2 DEF Sources, Ported, Copied, drv, regs, dbg, log
  <2> QED BY <1>12, <2>3 DEF Sources
<1> QED BY <1>7, <1>8, <1>9, <1>10, <1>11, <1>12

LEMMA SeedsNamed ==
    ASSUME Sources(7)
    PROVE  UNION {Named(tree[Sources66[i]], "system") : i \in DOMAIN Sources66} \subseteq HeadersNamed
<1> DEFINE down == {Downstream66[i] : i \in DOMAIN Downstream66} \cap DOMAIN src
           copied(p) == IF p = Downstream66[1]
                        THEN Adapted(Stripped(src[p]), AdaptDownstream)
                        ELSE Stripped(src[p])
<1>1. DOMAIN Sources66 = 1..4 /\ DOMAIN Downstream66 = 1..4
    BY DEF Sources66, Downstream66
<1>2. /\ Downstream66[2] # Downstream66[1] /\ Downstream66[3] # Downstream66[1]
      /\ Downstream66[4] # Downstream66[1]
    BY DEF Downstream66
<1>3. Ported /\ Copied(2) /\ Copied(3) /\ Copied(4)
    BY DEF Sources
<1>4. ASSUME NEW i \in 1..4
      PROVE  Downstream66[i] \in down /\ tree[Sources66[i]] = copied(Downstream66[i])
  <2>1. i = 1 \/ i = 2 \/ i = 3 \/ i = 4
      OBVIOUS
  <2> QED BY <1>1, <1>2, <1>3, <2>1 DEF Ported, Copied
<1> HIDE DEF down, copied
<1>5. UNION {Named(copied(p), "system") : p \in down} \subseteq HeadersNamed
    BY DEF HeadersNamed, NamedByDriver, down, copied
<1> QED BY <1>1, <1>4, <1>5

(* Where a walk stands in its program.                                     *)
LEMMA InWalk ==
    ASSUME JobOK, NEW k \in DOMAIN Steps, Steps[k].op \in Walking
    PROVE  /\ \E i \in DOMAIN Steps : Steps[i].op \in Walking
           /\ \A i \in DOMAIN Steps : i <= k => Steps[i].op # "intent_walked"
           /\ \A i \in DOMAIN Steps : i >= k /\ Steps[i].op \in Seeds => i = k
           /\ Steps[k].op \in Seeds => \A i \in DOMAIN Steps : i < k => Steps[i].op \notin Walking
           /\ Steps[k].op = "local_include" => Steps[k - 1].op = "seed_root"
<1>1. \A i \in DOMAIN Steps : InTurn(Steps, i) /\ i \in Nat
    BY Program DEF Sound, Walks
<1>2. "intent_walked" \notin Walking
    BY DEF Walking, Seeds
<1> QED BY <1>1, <1>2 DEF InTurn

LEMMA NextInTurn ==
    ASSUME JobOK, NEW k \in DOMAIN Steps, k + 1 \in DOMAIN Steps
    PROVE  /\ Steps[k + 1].op = "local_include" => Steps[k].op = "seed_root"
           /\ Steps[k + 1].op = "header" => Steps[k].op = "seed_headers"
<1>1. InTurn(Steps, k + 1) /\ k \in Nat
    BY Program DEF Sound, Walks
<1>2. (k + 1) - 1 = k
    BY <1>1
<1> QED BY <1>1, <1>2 DEF InTurn

(* What a step does to the tree and the index, and how far it leads.       *)
Grown == DOMAIN tree' \subseteq DOMAIN tree \cup AllIntent \cup LocalFiles \cup HeadersNamed

Kept(k) ==
    /\ DOMAIN tree \subseteq DOMAIN tree'
    /\ Grown
    /\ intent' \subseteq intent \cup DOMAIN tree
    /\ \/ job' = job /\ StageAt(k)'
       \/ Advance /\ StageAt(k + 1)'
       \/ Refuse
       \/ job' = [job EXCEPT !.phase = "rejected"]

LEMMA OpsStage ==
    ASSUME JobOK, Stage, NEW k \in DOMAIN Steps, k = job.step, StageAt(k), Now.op \in Ops
    PROVE  Kept(k)
<1>1. /\ src' = src /\ strays' = strays
    BY StageFrame
<1>2. job'.w = job.w
    BY StagingStep DEF JobOK
<1>3. /\ Steps' = Steps /\ AllIntent' = AllIntent /\ LocalFiles' = LocalFiles
      /\ Placed' = Placed /\ Closure' = Closure /\ HeadersNamed' = HeadersNamed
    BY <1>1, <1>2, SameTerms
<1>4. Now = Steps[k] /\ k \in Nat /\ k > 0
    BY Program DEF Now
<1>5. Makes(Now) \subseteq AllIntent
    BY <1>4, Program
<1>6. /\ Now.op \notin {"intent_walked", "local_include", "seed_root", "seed_headers"}
      /\ Indexes(Now) = {}
    BY DEF Ops, Indexes
<1>7. DOMAIN tree' \subseteq Known'
    BY <1>1, <1>3, <1>5, OpsFrame DEF StageAt, Known
<1>8. Behind(k)' /\ Behind(k + 1)'
  <2>1. \A i \in DOMAIN Steps : i < k + 1 => i < k \/ i = k
      BY <1>4, Program
  <2> QED BY <1>3, <1>4, <1>6, <2>1, OpsFrame DEF StageAt, Behind
<1>9. Fresh(k)' /\ Fresh(k + 1)'
  <2>1. \A i \in DOMAIN Steps : i >= k + 1 => i >= k
      BY <1>4, Program
  <2> QED BY <1>3, <2>1, OpsFrame DEF StageAt, Fresh
<1>10. DOMAIN walk' = WalkFields /\ walk'.angle \subseteq HeadersNamed'
    BY <1>3, OpsFrame DEF StageAt
<1>11. ASSUME Advance PROVE StageAt(k + 1)'
  <2>1. k + 1 \in DOMAIN Steps => Steps[k + 1].op \notin {"local_include", "header"}
      BY <1>4, <1>6, NextInTurn
  <2>2. ASSUME job.w = "w66", k + 1 \in 1..7 PROVE Sources(k + 1)'
    <3>1. k \in 1..6 /\ k \in 1..7
        BY <1>4, <2>2
    <3>2. Sources(k)
        BY <2>2, <3>1 DEF StageAt
    <3> QED BY <1>11, <2>2, <3>1, <3>2, SourcesKeep
  <2> QED BY <1>2, <1>3, <1>7, <1>8, <1>9, <1>10, <2>1, <2>2 DEF StageAt
<1>12. ASSUME job' = job, Now.op = "normalize" PROVE StageAt(k)'
  <2>1. Steps[k].op \notin {"local_include", "header"}
      BY <1>4, <1>12
  <2>2. ~(job.w = "w66" /\ k \in 1..7)
    <3>1. ASSUME job.w = "w66", k \in 1..7 PROVE FALSE
      <4>1. k \in 1..6 \/ k = 7
          BY <3>1
      <4> QED BY <1>4, <1>12, <3>1, <4>1, Turn66
    <3> QED BY <3>1
  <2> QED BY <1>2, <1>3, <1>7, <1>8, <1>9, <1>10, <2>1, <2>2 DEF StageAt
<1>13. Grown
    BY <1>5, OpsFrame DEF Grown
<1> QED BY <1>11, <1>12, <1>13, OpsFrame DEF Kept

LEMMA IntentStage ==
    ASSUME JobOK, Stage, AddIntent, NEW k \in DOMAIN Steps, k = job.step, StageAt(k)
    PROVE  Kept(k)
<1>1. /\ src' = src /\ strays' = strays /\ walk' = walk /\ tree' = tree
    BY StageFrame DEF AddIntent
<1>2. job'.w = job.w
    BY StagingStep DEF JobOK
<1>3. /\ Steps' = Steps /\ AllIntent' = AllIntent /\ LocalFiles' = LocalFiles
      /\ Placed' = Placed /\ Closure' = Closure /\ HeadersNamed' = HeadersNamed
    BY <1>1, <1>2, SameTerms
<1>4. Now = Steps[k] /\ k \in Nat /\ k > 0
    BY Program DEF Now
<1>5. Now.op \in {"intent", "intent_walked"}
    BY ByOp
<1> DEFINE paths == Now.files \cup (IF Now.op = "intent" THEN {} ELSE walk.staged)
<1>6. CASE ~(paths \subseteq DOMAIN tree)
    BY <1>1, <1>6 DEF AddIntent, Kept, Grown
<1>7. CASE paths \subseteq DOMAIN tree
  <2>1. Advance /\ intent' = intent \cup paths
      BY <1>7 DEF AddIntent
  <2>2. Grown /\ intent' \subseteq intent \cup DOMAIN tree
      BY <1>1, <1>7, <2>1 DEF Grown
  <2>3. DOMAIN tree' \subseteq Known'
      BY <1>1, <1>3, <2>1 DEF StageAt, Known
  <2>4. Behind(k + 1)'
    <3>1. \A i \in DOMAIN Steps : i < k + 1 => i < k \/ i = k
        BY <1>4, Program
    <3>2. Indexes(Steps[k]) \subseteq paths
          /\ (Steps[k].op = "intent_walked" => walk.staged \subseteq paths)
          /\ Steps[k].op # "local_include"
        BY <1>4, <1>5 DEF Indexes
    <3>3. Behind(k)
        BY DEF StageAt
    <3> HIDE DEF paths
    <3> QED BY <1>1, <1>3, <2>1, <3>1, <3>2, <3>3 DEF Behind
  <2>5. Fresh(k + 1)'
    <3>1. \A i \in DOMAIN Steps : i >= k + 1 => i >= k
        BY <1>4, Program
    <3> QED BY <1>1, <1>3, <3>1 DEF StageAt, Fresh
  <2>6. k + 1 \in DOMAIN Steps => Steps[k + 1].op \notin {"local_include", "header"}
      BY <1>4, <1>5, NextInTurn
  <2>7. ~(job.w = "w66" /\ k + 1 \in 1..7)
    <3>1. k + 1 \in 1..7 => k \in 1..6
        BY <1>4
    <3> QED BY <1>4, <1>5, <3>1, Turn66
  <2>8. DOMAIN walk' = WalkFields /\ walk'.angle \subseteq HeadersNamed'
      BY <1>1, <1>3 DEF StageAt
  <2>9. StageAt(k + 1)'
      BY <1>2, <1>3, <2>3, <2>4, <2>5, <2>6, <2>7, <2>8 DEF StageAt
  <2> QED BY <1>1, <2>1, <2>2, <2>9 DEF Kept
<1> QED BY <1>6, <1>7

(* A step of a walk that stays where it is, keeping what has been placed.  *)
LEMMA WalkOn ==
    ASSUME JobOK, Stage, NEW k \in DOMAIN Steps, k = job.step, StageAt(k), Now.op \in Walking,
           job' = job, intent' = intent, DOMAIN walk' = WalkFields,
           walk.staged \subseteq walk'.staged,
           walk'.angle \subseteq HeadersNamed,
           DOMAIN tree \subseteq DOMAIN tree',
           DOMAIN tree' \subseteq DOMAIN tree \cup (walk'.staged \cap (LocalFiles \cup HeadersNamed)),
           Now.op \notin Seeds,
           Now.op = "local_include" => LocalWalk',
           Now.op = "header" => walk'.queue \subseteq HeadersNamed
    PROVE  Kept(k)
<1>1. /\ src' = src /\ strays' = strays
    BY StageFrame
<1>2. job'.w = job.w
    OBVIOUS
<1>3. /\ Steps' = Steps /\ AllIntent' = AllIntent /\ LocalFiles' = LocalFiles
      /\ Placed' = Placed /\ Closure' = Closure /\ HeadersNamed' = HeadersNamed
    BY <1>1, <1>2, SameTerms
<1>4. Now = Steps[k] /\ k \in Nat /\ k > 0
    BY Program DEF Now
<1>5. /\ \E i \in DOMAIN Steps : Steps[i].op \in Walking
      /\ \A i \in DOMAIN Steps : i <= k => Steps[i].op # "intent_walked"
      /\ \A i \in DOMAIN Steps : i >= k => Steps[i].op \notin Seeds
    BY <1>4, InWalk
<1>6. DOMAIN tree' \subseteq Known'
    BY <1>1, <1>3 DEF StageAt, Known
<1>7. Behind(k)'
  <2>1. \A i \in DOMAIN Steps : i < k => i <= k
      BY <1>4, Program
  <2> QED BY <1>3, <1>5, <2>1 DEF StageAt, Behind
<1>8. Fresh(k)'
    BY <1>3, <1>5 DEF Fresh
<1>9. ~(job.w = "w66" /\ k \in 1..7)
  <2>1. k \in 1..7 => k \in 1..6 \/ k = 7
      OBVIOUS
  <2>2. Now.op \notin {"copy", "adapt", "write", "seed_headers"}
      BY DEF Walking, Seeds
  <2> QED BY <1>4, <2>1, <2>2, Turn66
<1>10. StageAt(k)'
    BY <1>2, <1>3, <1>4, <1>6, <1>7, <1>8, <1>9 DEF StageAt
<1> QED BY <1>10 DEF Kept, Grown

(* A step of a walk that leads on: its seed, or the end of it.             *)
LEMMA WalkAhead ==
    ASSUME JobOK, Stage, NEW k \in DOMAIN Steps, k = job.step, StageAt(k), Now.op \in Walking,
           Advance, intent' = intent, tree' = tree, DOMAIN walk' = WalkFields,
           walk'.angle \subseteq HeadersNamed,
           walk'.staged = walk.staged,
           Now.op = "local_include" => Placed \subseteq walk.staged,
           Now.op = "seed_root" => LocalWalk',
           Now.op = "seed_headers" => walk'.queue \subseteq HeadersNamed
    PROVE  Kept(k)
<1>1. /\ src' = src /\ strays' = strays
    BY StageFrame
<1>2. job'.w = job.w
    BY StagingStep DEF JobOK
<1>3. /\ Steps' = Steps /\ AllIntent' = AllIntent /\ LocalFiles' = LocalFiles
      /\ Placed' = Placed /\ Closure' = Closure /\ HeadersNamed' = HeadersNamed
    BY <1>1, <1>2, SameTerms
<1>4. Now = Steps[k] /\ k \in Nat /\ k > 0
    BY Program DEF Now
<1>5. /\ \E i \in DOMAIN Steps : Steps[i].op \in Walking
      /\ \A i \in DOMAIN Steps : i <= k => Steps[i].op # "intent_walked"
    BY <1>4, InWalk
<1>6. DOMAIN tree' \subseteq Known'
    BY <1>1, <1>3 DEF StageAt, Known
<1>7. Behind(k + 1)'
  <2>1. \A i \in DOMAIN Steps : i < k + 1 => (i < k \/ i = k) /\ i <= k
      BY <1>4, Program
  <2>2. Indexes(Now) = {}
      BY DEF Indexes, Walking, Seeds
  <2> QED BY <1>3, <1>4, <1>5, <2>1, <2>2 DEF StageAt, Behind
<1>8. Fresh(k + 1)'
  <2>1. \A i \in DOMAIN Steps : i >= k + 1 => i >= k
      BY <1>4, Program
  <2> QED BY <1>3, <2>1 DEF StageAt, Fresh
<1>9. k + 1 \in DOMAIN Steps =>
          /\ Steps[k + 1].op = "local_include" => LocalWalk'
          /\ Steps[k + 1].op = "header" => walk'.queue \subseteq HeadersNamed'
    BY <1>3, <1>4, NextInTurn
<1>10. ~(job.w = "w66" /\ k + 1 \in 1..7)
  <2>1. k + 1 \in 1..7 => k \in 1..6
      BY <1>4
  <2>2. Now.op \notin {"copy", "adapt", "write"}
      BY DEF Walking, Seeds
  <2> QED BY <1>4, <2>1, <2>2, Turn66
<1>11. StageAt(k + 1)'
    BY <1>2, <1>3, <1>6, <1>7, <1>8, <1>9, <1>10 DEF StageAt
<1> QED BY <1>11 DEF Kept, Grown

(* What a text of the downstream tree names.                               *)
LEMMA NamedThere ==
    ASSUME NEW p \in DOMAIN src
    PROVE  /\ Named(src[p], "angle") \subseteq HeadersNamed
           /\ Named(src[p], "system") \subseteq HeadersNamed
           /\ p \in Closure => Place56(p) \in Placed /\ Named(src[p], "local") \subseteq Closure
BY ClosureClosed DEF HeadersNamed, Placed, Closed

LEMMA LocalIncludeStage ==
    ASSUME JobOK, Stage, LocalInclude, NEW k \in DOMAIN Steps, k = job.step, StageAt(k)
    PROVE  Kept(k)
<1>1. Now.op = "local_include" /\ Now = Steps[k] /\ Now.op \in Walking /\ Now.op \notin Seeds
    BY DEF LocalInclude, At, Now, Walking, Seeds
<1>2. /\ src' = src /\ intent' = intent /\ job' = job
    BY StageFrame DEF LocalInclude
<1>3. LocalWalk /\ DOMAIN walk = WalkFields /\ walk.angle \subseteq HeadersNamed
    BY <1>1 DEF StageAt
<1>4. Closure' = Closure /\ LocalFiles = Placed
  <2>1. Closure' = Closure
      BY <1>2, SameTerms
  <2> QED BY <1>1, <2>1 DEF LocalFiles
<1>5. PICK path \in walk.queue :
          LET rest == walk.queue \ {path}
          IN \/ /\ path \in walk.seen
                /\ walk' = [walk EXCEPT !.queue = rest]
                /\ UNCHANGED tree
             \/ /\ path \notin walk.seen \cup DOMAIN src
                /\ walk' = [walk EXCEPT !.queue = rest, !.seen = @ \cup {path},
                                        !.lost = @ \cup {path}]
                /\ UNCHANGED tree
             \/ /\ path \in DOMAIN src \ walk.seen
                /\ tree' = Put(tree, Place56(path), src[path])
                /\ walk' = [queue |-> rest \cup Named(src[path], "local"),
                            seen |-> walk.seen \cup {path},
                            staged |-> walk.staged \cup {Place56(path)},
                            angle |-> walk.angle \cup Named(src[path], "angle"),
                            lost |-> walk.lost \cup Named(src[path], "outside")]
    BY DEF LocalInclude
<1>6. path \in Closure
    BY <1>3 DEF LocalWalk
<1> DEFINE rest == walk.queue \ {path}
           Fine == /\ DOMAIN walk' = WalkFields
                   /\ walk.staged \subseteq walk'.staged
                   /\ walk'.angle \subseteq HeadersNamed
                   /\ DOMAIN tree \subseteq DOMAIN tree'
                   /\ DOMAIN tree' \subseteq DOMAIN tree \cup
                          (walk'.staged \cap (LocalFiles \cup HeadersNamed))
                   /\ LocalWalk'
<1>7. ASSUME path \in walk.seen, walk' = [walk EXCEPT !.queue = rest], tree' = tree
      PROVE  Fine
  <2>1. /\ walk'.queue = rest /\ walk'.seen = walk.seen /\ walk'.staged = walk.staged
        /\ walk'.angle = walk.angle /\ DOMAIN walk' = WalkFields
      BY <1>3, <1>7 DEF WalkFields
  <2>2. walk'.seen \cup walk'.queue = walk.seen \cup walk.queue
      BY <1>7, <2>1
  <2>3. LocalWalk'
      BY <1>2, <1>3, <1>4, <2>1, <2>2 DEF LocalWalk, Place56
  <2> QED BY <1>3, <1>7, <2>1, <2>3
<1>8. ASSUME path \notin walk.seen \cup DOMAIN src, tree' = tree,
             walk' = [walk EXCEPT !.queue = rest, !.seen = @ \cup {path},
                                  !.lost = @ \cup {path}]
      PROVE  Fine
  <2>1. /\ walk'.queue = rest /\ walk'.seen = walk.seen \cup {path}
        /\ walk'.staged = walk.staged /\ walk'.angle = walk.angle /\ DOMAIN walk' = WalkFields
      BY <1>3, <1>8 DEF WalkFields
  <2>2. walk'.seen \cup walk'.queue = walk.seen \cup walk.queue
      BY <2>1
  <2>3. walk'.seen \cap DOMAIN src = walk.seen \cap DOMAIN src
      BY <1>8, <2>1
  <2>4. LocalWalk'
      BY <1>2, <1>3, <1>4, <2>1, <2>2, <2>3 DEF LocalWalk, Place56
  <2> QED BY <1>3, <1>8, <2>1, <2>4
<1>9. ASSUME path \in DOMAIN src \ walk.seen,
             tree' = Put(tree, Place56(path), src[path]),
             walk' = [queue |-> rest \cup Named(src[path], "local"),
                      seen |-> walk.seen \cup {path},
                      staged |-> walk.staged \cup {Place56(path)},
                      angle |-> walk.angle \cup Named(src[path], "angle"),
                      lost |-> walk.lost \cup Named(src[path], "outside")]
      PROVE  Fine
  <2>1. /\ walk'.queue = rest \cup Named(src[path], "local")
        /\ walk'.seen = walk.seen \cup {path}
        /\ walk'.staged = walk.staged \cup {Place56(path)}
        /\ walk'.angle = walk.angle \cup Named(src[path], "angle")
        /\ DOMAIN walk' = WalkFields
      BY <1>9 DEF WalkFields
  <2>2. walk'.seen \cup walk'.queue = walk.seen \cup walk.queue \cup Named(src[path], "local")
      BY <2>1
  <2>3. /\ Named(src[path], "angle") \subseteq HeadersNamed
        /\ Place56(path) \in Placed /\ Named(src[path], "local") \subseteq Closure
      BY <1>6, <1>9, NamedThere
  <2>4. DOMAIN tree' = DOMAIN tree \cup {Place56(path)}
      BY <1>9 DEF Put
  <2>5. LocalWalk'
    <3>1. Root \in walk'.seen \cup walk'.queue /\ walk'.seen \cup walk'.queue \subseteq Closure'
        BY <1>3, <1>4, <2>2, <2>3 DEF LocalWalk
    <3>2. ASSUME NEW p \in walk'.seen \cap DOMAIN src
          PROVE  /\ Place56(p) \in walk'.staged
                 /\ Named(src[p], "local") \subseteq walk'.seen \cup walk'.queue
      <4>1. CASE p = path
          BY <2>1, <4>1
      <4>2. CASE p \in walk.seen
          BY <1>3, <2>1, <2>2, <4>2 DEF LocalWalk
      <4> QED BY <2>1, <4>1, <4>2
    <3> QED BY <1>2, <3>1, <3>2 DEF LocalWalk, Place56
  <2> QED BY <1>3, <1>4, <2>1, <2>3, <2>4, <2>5
<1>10. Fine
    BY <1>5, <1>7, <1>8, <1>9
<1> QED BY <1>1, <1>2, <1>10, WalkOn

LEMMA LocalsDoneStage ==
    ASSUME JobOK, Stage, LocalsDone, NEW k \in DOMAIN Steps, k = job.step, StageAt(k)
    PROVE  Kept(k)
<1>1. Now.op = "local_include" /\ Now = Steps[k] /\ Now.op \in Walking
    BY DEF LocalsDone, At, Now, Walking
<1>2. LocalWalk /\ DOMAIN walk = WalkFields /\ walk.angle \subseteq HeadersNamed
    BY <1>1 DEF StageAt
<1>3. walk.queue = {} /\ Closed(walk.seen)
    BY <1>2 DEF LocalsDone, LocalWalk, Closed
<1>4. Placed \subseteq walk.staged
    BY <1>2, <1>3, ClosureLeast DEF LocalWalk, Placed
<1>5. Advance /\ intent' = intent /\ tree' = tree /\ walk' = walk
    BY DEF LocalsDone
<1> QED BY <1>1, <1>2, <1>4, <1>5, WalkAhead

LEMMA SeedRootStage ==
    ASSUME JobOK, Stage, SeedRoot, NEW k \in DOMAIN Steps, k = job.step, StageAt(k)
    PROVE  Kept(k)
<1>1. Now.op = "seed_root" /\ Now = Steps[k] /\ Now.op \in Walking /\ Now.op \in Seeds
    BY DEF SeedRoot, At, Now, Walking, Seeds
<1>2. src' = src /\ job'.w = job.w
    BY StageFrame, StagingStep DEF JobOK
<1>3. Closure' = Closure
    BY <1>2, SameTerms
<1>4. walk.staged = {}
  <2>1. k >= k
      BY Program
  <2> QED BY <1>1, <2>1 DEF StageAt, Fresh
<1>5. CASE Root \notin DOMAIN src
    BY <1>5 DEF SeedRoot, Kept, Grown
<1>6. CASE Root \in DOMAIN src
  <2>1. walk' = [NoWalk EXCEPT !.queue = {Root}] /\ Advance /\ intent' = intent /\ tree' = tree
      BY <1>6 DEF SeedRoot
  <2>2. /\ DOMAIN walk' = WalkFields /\ walk'.queue = {Root} /\ walk'.seen = {}
        /\ walk'.staged = {} /\ walk'.angle = {}
      BY <2>1 DEF NoWalk, WalkFields
  <2>3. LocalWalk'
      BY <1>3, <2>2, ClosureClosed DEF LocalWalk, Closed
  <2> QED BY <1>1, <1>4, <2>1, <2>2, <2>3, WalkAhead
<1> QED BY <1>5, <1>6

LEMMA SeedHeadersStage ==
    ASSUME JobOK, Stage, SeedHeaders, NEW k \in DOMAIN Steps, k = job.step, StageAt(k)
    PROVE  Kept(k)
<1>1. Now.op = "seed_headers" /\ Now = Steps[k] /\ Now.op \in Walking /\ Now.op \in Seeds
    BY DEF SeedHeaders, At, Now, Walking, Seeds
<1>2. job.w = "w66" /\ k = 7
    BY <1>1, Program, Turn66 DEF Headless
<1>3. Sources(7)
    BY <1>2 DEF StageAt
<1>4. walk.staged = {}
  <2>1. k >= k
      BY <1>2
  <2> QED BY <1>1, <2>1 DEF StageAt, Fresh
<1> DEFINE named == UNION {Named(tree[Sources66[i]], "system") : i \in DOMAIN Sources66}
<1>5. named \subseteq HeadersNamed
    BY <1>3, SeedsNamed
<1>6. walk' = [NoWalk EXCEPT !.queue = named] /\ Advance /\ intent' = intent /\ tree' = tree
    BY DEF SeedHeaders
<1> HIDE DEF named
<1>7. /\ DOMAIN walk' = WalkFields /\ walk'.queue = named
      /\ walk'.staged = {} /\ walk'.angle = {}
    BY <1>6 DEF NoWalk, WalkFields
<1> QED BY <1>1, <1>4, <1>5, <1>6, <1>7, WalkAhead

LEMMA HeaderStage ==
    ASSUME JobOK, Stage, Header, NEW k \in DOMAIN Steps, k = job.step, StageAt(k)
    PROVE  Kept(k)
<1>1. Now.op = "header" /\ Now = Steps[k] /\ Now.op \in Walking /\ Now.op \notin Seeds
    BY DEF Header, At, Now, Walking, Seeds
<1>2. intent' = intent /\ job' = job
    BY DEF Header
<1>3. /\ walk.queue \subseteq HeadersNamed /\ DOMAIN walk = WalkFields
      /\ walk.angle \subseteq HeadersNamed
    BY <1>1 DEF StageAt
<1>4. PICK path \in walk.queue :
          LET next == [walk EXCEPT !.queue = @ \ {path}, !.seen = @ \cup {path}]
          IN \/ /\ path \in walk.seen \cup DOMAIN tree
                /\ walk' = next
                /\ UNCHANGED tree
             \/ /\ path \notin walk.seen \cup DOMAIN tree \cup DOMAIN src
                /\ walk' = [next EXCEPT !.lost = @ \cup {path}]
                /\ UNCHANGED tree
             \/ /\ path \in DOMAIN src \ (walk.seen \cup DOMAIN tree)
                /\ tree' = Put(tree, path, Stripped(src[path]))
                /\ walk' = [next EXCEPT !.queue = @ \cup Named(src[path], "system"),
                                        !.staged = @ \cup {path}]
    BY DEF Header
<1> DEFINE next == [walk EXCEPT !.queue = @ \ {path}, !.seen = @ \cup {path}]
           Fine == /\ DOMAIN walk' = WalkFields
                   /\ walk.staged \subseteq walk'.staged
                   /\ walk'.angle \subseteq HeadersNamed
                   /\ DOMAIN tree \subseteq DOMAIN tree'
                   /\ DOMAIN tree' \subseteq DOMAIN tree \cup
                          (walk'.staged \cap (LocalFiles \cup HeadersNamed))
                   /\ walk'.queue \subseteq HeadersNamed
<1>5. ASSUME tree' = tree, walk' = next \/ walk' = [next EXCEPT !.lost = @ \cup {path}]
      PROVE  Fine
  <2>1. /\ walk'.queue = walk.queue \ {path} /\ walk'.staged = walk.staged
        /\ walk'.angle = walk.angle /\ DOMAIN walk' = WalkFields
      BY <1>3, <1>5 DEF WalkFields
  <2> QED BY <1>3, <1>5, <2>1
<1>6. ASSUME path \in DOMAIN src, tree' = Put(tree, path, Stripped(src[path])),
             walk' = [next EXCEPT !.queue = @ \cup Named(src[path], "system"),
                                  !.staged = @ \cup {path}]
      PROVE  Fine
  <2>1. /\ walk'.queue = (walk.queue \ {path}) \cup Named(src[path], "system")
        /\ walk'.staged = walk.staged \cup {path}
        /\ walk'.angle = walk.angle /\ DOMAIN walk' = WalkFields
      BY <1>3, <1>6 DEF WalkFields
  <2>2. DOMAIN tree' = DOMAIN tree \cup {path}
      BY <1>6 DEF Put
  <2>3. Named(src[path], "system") \subseteq HeadersNamed
      BY <1>6, NamedThere
  <2> QED BY <1>3, <2>1, <2>2, <2>3
<1>7. Fine
    BY <1>4, <1>5, <1>6
<1> QED BY <1>1, <1>2, <1>7, WalkOn

LEMMA BindingStage ==
    ASSUME JobOK, Stage, Binding, NEW k \in DOMAIN Steps, k = job.step, StageAt(k)
    PROVE  Kept(k)
<1>1. Now.op = "binding" /\ Now = Steps[k] /\ Now.op \in Walking /\ Now.op \notin Seeds
    BY DEF Binding, At, Now, Walking, Seeds
<1>2. intent' = intent /\ walk.angle # {}
    BY DEF Binding
<1>3. DOMAIN walk = WalkFields /\ walk.angle \subseteq HeadersNamed
    BY DEF StageAt
<1> DEFINE path == NextBinding
<1>4. path \in walk.angle
    BY <1>2 DEF NextBinding
<1>5. \/ path \in DOMAIN src \cap DOMAIN tree /\ MergeBinding(path)
      \/ /\ path \in DOMAIN src \ DOMAIN tree
         /\ tree' = Put(tree, path, src[path])
         /\ walk' = [walk EXCEPT !.angle = @ \ {path}, !.staged = @ \cup {path}]
         /\ UNCHANGED job
      \/ /\ path \notin DOMAIN src
         /\ walk' = [walk EXCEPT !.angle = @ \ {path},
                                 !.lost = @ \cup ({path} \ DOMAIN tree)]
         /\ UNCHANGED <<tree, job>>
    BY DEF Binding
<1> HIDE DEF path
<1> DEFINE Fine == /\ DOMAIN walk' = WalkFields
                   /\ walk.staged \subseteq walk'.staged
                   /\ walk'.angle \subseteq HeadersNamed
                   /\ DOMAIN tree \subseteq DOMAIN tree'
                   /\ DOMAIN tree' \subseteq DOMAIN tree \cup
                          (walk'.staged \cap (LocalFiles \cup HeadersNamed))
<1>6. CASE Refuse /\ tree' = tree
    BY <1>2, <1>6 DEF Kept, Grown
<1>7. CASE /\ path \in DOMAIN tree /\ job' = job
           /\ tree' = [tree EXCEPT ![path] = Merged(tree[path], src[path])]
           /\ walk' = [walk EXCEPT !.angle = @ \ {path},
                          !.staged = IF Merged(tree[path], src[path]) = tree[path] THEN @
                                     ELSE @ \cup {path}]
  <2>1. /\ walk'.staged \in {walk.staged, walk.staged \cup {path}}
        /\ walk'.angle = walk.angle \ {path} /\ DOMAIN walk' = WalkFields
      BY <1>3, <1>7 DEF WalkFields
  <2>2. Fine
      BY <1>3, <1>7, <2>1
  <2> QED BY <1>1, <1>2, <1>7, <2>2, WalkOn
<1>8. CASE /\ tree' = Put(tree, path, src[path]) /\ job' = job
           /\ walk' = [walk EXCEPT !.angle = @ \ {path}, !.staged = @ \cup {path}]
  <2>1. /\ walk'.staged = walk.staged \cup {path}
        /\ walk'.angle = walk.angle \ {path} /\ DOMAIN walk' = WalkFields
      BY <1>3, <1>8 DEF WalkFields
  <2>2. DOMAIN tree' = DOMAIN tree \cup {path}
      BY <1>8 DEF Put
  <2>3. Fine
      BY <1>3, <1>4, <2>1, <2>2
  <2> QED BY <1>1, <1>2, <1>8, <2>3, WalkOn
<1>9. CASE /\ tree' = tree /\ job' = job
           /\ walk' = [walk EXCEPT !.angle = @ \ {path},
                                   !.lost = @ \cup ({path} \ DOMAIN tree)]
  <2>1. /\ walk'.staged = walk.staged
        /\ walk'.angle = walk.angle \ {path} /\ DOMAIN walk' = WalkFields
      BY <1>3, <1>9 DEF WalkFields
  <2> QED BY <1>1, <1>2, <1>3, <1>9, <2>1, WalkOn
<1> QED BY <1>5, <1>6, <1>7, <1>8, <1>9 DEF MergeBinding

LEMMA WalkerStage ==
    ASSUME JobOK, Stage, Walker, NEW k \in DOMAIN Steps, k = job.step, StageAt(k)
    PROVE  Kept(k)
<1>1. Now.op \in Walking
    BY ByOp
<1>2. CASE BindingsDone \/ HeadersDone
  <2>1. Advance /\ intent' = intent /\ tree' = tree /\ walk' = walk
        /\ Now.op \in {"binding", "header"}
      BY <1>2 DEF BindingsDone, HeadersDone, At
  <2>2. DOMAIN walk = WalkFields /\ walk.angle \subseteq HeadersNamed
      BY DEF StageAt
  <2> QED BY <1>1, <2>1, <2>2, WalkAhead
<1> QED
    BY <1>2, SeedRootStage, LocalIncludeStage, LocalsDoneStage, BindingStage,
       SeedHeadersStage, HeaderStage
    DEF Walker

LEMMA StageKept ==
    ASSUME JobOK, Stage, NEW k \in DOMAIN Steps, k = job.step, StageAt(k)
    PROVE  Kept(k)
BY ByOp, OpsStage, IntentStage, WalkerStage

(* Before the last diff every file is GKI's, in the index, or a stray.     *)
LEMMA AllKnown ==
    ASSUME JobOK, NEW k \in DOMAIN Steps, StageAt(k),
           \A i \in DOMAIN Steps : i >= k => Steps[i].op \in {"diff", "check"}
    PROVE  DOMAIN tree \subseteq DOMAIN Gki \cup intent \cup strays
<1>1. \A i \in DOMAIN Steps : i < k \/ Steps[i].op \in {"diff", "check"}
    BY Program
<1>2. AllIntent \subseteq intent
  <2>1. ASSUME NEW i \in DOMAIN Steps PROVE Indexes(Steps[i]) \subseteq intent
    <3>1. i < k \/ Indexes(Steps[i]) = {}
        BY <1>1 DEF Indexes
    <3> QED BY <3>1 DEF StageAt, Behind
  <2> QED BY <2>1 DEF AllIntent
<1>3. walk.staged \subseteq intent
  <2>1. CASE \A i \in DOMAIN Steps : Steps[i].op \notin Walking
      BY <2>1 DEF StageAt, Fresh
  <2>2. CASE \E i \in DOMAIN Steps : Steps[i].op \in Walking
    <3>1. PICK j \in DOMAIN Steps : Steps[j].op = "intent_walked"
        BY <2>2, Program DEF Sound, Walks, InTurn
    <3> QED BY <1>1, <3>1 DEF StageAt, Behind
  <2> QED BY <2>1, <2>2
<1>4. LocalFiles \subseteq intent
  <2>1. CASE \E i \in DOMAIN Steps : Steps[i].op = "local_include"
    <3>1. PICK i \in DOMAIN Steps : Steps[i].op = "local_include"
        BY <2>1
    <3>2. Placed \subseteq walk.staged
        BY <1>1, <3>1 DEF StageAt, Behind
    <3> QED BY <1>3, <2>1, <3>2 DEF LocalFiles
  <2> QED BY <2>1 DEF LocalFiles
<1> QED BY <1>2, <1>3, <1>4 DEF StageAt, Known

(* The difference of that tree, written to the patch file.                 *)
LEMMA WantedWritten ==
    ASSUME TreeInv, DOMAIN tree \subseteq DOMAIN Gki \cup intent \cup strays
    PROVE  Difference(Tracked) = Wanted
<1>1. Changed(tree) \cap Tracked = Changed(tree) \ (strays \ intent)
    BY DEF TreeInv, Changed, Tracked
<1> QED BY <1>1 DEF Difference, Wanted

LEMMA WroteDiff ==
    ASSUME JobOK, Stage, Now.op = "diff", Advance
    PROVE  /\ patch' = Difference(IF Now.only = {} THEN Tracked ELSE Tracked \cap Now.only)
           /\ Wanted' = Wanted
<1>1. WriteDiff /\ job' # [job EXCEPT !.phase = "refused"]
    BY ByOp DEF Advance, JobOK
<1>2. patch' = Difference(IF Now.only = {} THEN Tracked ELSE Tracked \cap Now.only)
    BY <1>1 DEF WriteDiff, Refuse
<1>3. tree' = tree /\ intent' = intent /\ strays' = strays
    BY <1>1 DEF WriteDiff
<1> QED BY <1>2, <1>3 DEF Wanted, Changed

(* The programs of the few.                                                *)
LEMMA FewOps ==
    ASSUME JobOK, job.w \in Few, NEW k \in DOMAIN Steps
    PROVE  /\ job.w \in Inventories => Steps[k].op = "plan"
           /\ job.w \notin Inventories =>
                  \/ Steps[k].op \in {"need", "check"}
                  \/ Steps[k].op = "edit" /\ Steps[k].file \in {SmmuC, ImplC}
                  \/ Steps[k].op = "diff" /\ Steps[k].only = {SmmuC, ImplC}
           /\ Steps[k].op \in Ops
<1>1. job.w \in Inventories => Steps[k].op = "plan"
    BY OwnInventory DEF Steps
<1>2. job.w \notin Inventories => job.w = "w67"
    BY DEF Few
<1>3. job.w \notin Inventories =>
          \/ Steps[k].op \in {"need", "check"}
          \/ Steps[k].op = "edit" /\ Steps[k].file \in {SmmuC, ImplC}
          \/ Steps[k].op = "diff" /\ Steps[k].only = {SmmuC, ImplC}
    BY <1>2, Own67 DEF Steps
<1> QED BY <1>1, <1>3 DEF Ops

LEMMA FewStage ==
    ASSUME JobOK, Stage, NEW k \in DOMAIN Steps, k = job.step, FewInv
    PROVE  FewInv'
<1>1. job'.w = job.w
    BY StagingStep DEF JobOK
<1>2. Now = Steps[k]
    BY DEF Now
<1> SUFFICES ASSUME job.w \in Few
             PROVE  /\ DOMAIN tree' = DOMAIN Gki /\ intent' = {}
                    /\ Changed(tree') \subseteq {SmmuC, ImplC}
                    /\ job.w \in Inventories => Changed(tree') = {} /\ patch' = <<>>
    BY <1>1 DEF FewInv
<1>3. /\ DOMAIN tree = DOMAIN Gki /\ intent = {}
      /\ Changed(tree) \subseteq {SmmuC, ImplC}
      /\ job.w \in Inventories => Changed(tree) = {} /\ patch = <<>>
    BY DEF FewInv
<1>4. CASE job.w \in Inventories
  <2>1. Now.op = "plan" /\ Now.op \in Ops
      BY <1>2, <1>4, FewOps
  <2>2. tree' = tree /\ intent' = intent /\ patch' = patch
      BY <2>1, OpsFrame, StageFrame
  <2> QED BY <1>3, <1>4, <2>2
<1>5. CASE job.w \notin Inventories
  <2>1. Now.op \in Ops
        /\ (Now.op \in {"need", "check", "diff"} \/ (Now.op = "edit" /\ Now.file \in {SmmuC, ImplC}))
      BY <1>2, <1>5, FewOps
  <2>2. intent' = intent
      BY <2>1, OpsFrame
  <2>3. CASE Now.op \in {"need", "check", "diff"}
    <3>1. tree' = tree
        BY <2>1, <2>3, OpsFrame
    <3> QED BY <1>3, <1>5, <2>2, <3>1
  <2>4. CASE Now.op = "edit" /\ Now.file \in {SmmuC, ImplC}
    <3>1. DOMAIN tree' = DOMAIN tree /\ \A p \in DOMAIN tree : p # Now.file => tree'[p] = tree[p]
        BY <2>1, <2>4, OpsFrame
    <3>2. Changed(tree') \subseteq Changed(tree) \cup {Now.file}
        BY <3>1 DEF Changed
    <3> QED BY <1>3, <1>5, <2>2, <2>4, <3>1, <3>2
  <2> QED BY <2>1, <2>3, <2>4
<1> QED BY <1>4, <1>5

LEMMA PatchStage ==
    ASSUME JobOK, Stage, NEW k \in DOMAIN Steps, k = job.step, Advance,
           StageAt(k), PatchAt(k), TreeInv, FewInv
    PROVE  PatchAt(k + 1)'
<1>1. Steps' = Steps /\ strays' = strays
  <2>1. job'.w = job.w /\ src' = src /\ strays' = strays
      BY StagingStep, StageFrame DEF JobOK
  <2> QED BY <2>1, SameTerms
<1>2. Now = Steps[k] /\ k \in Nat
    BY Program DEF Now
<1> SUFFICES ASSUME \A i \in DOMAIN Steps : i >= k + 1 => Steps[i].op = "check"
             PROVE  patch' = Wanted'
    BY <1>1 DEF PatchAt
<1>3. \A i \in DOMAIN Steps : i \in Nat /\ (i > k => i >= k + 1) /\ (i >= k => i = k \/ i >= k + 1)
    BY <1>2, Program
<1>4. CASE Now.op = "check"
  <2>1. tree' = tree /\ intent' = intent /\ patch' = patch
      BY <1>4, OpsFrame, StageFrame DEF Ops
  <2>2. patch = Wanted
      BY <1>2, <1>3, <1>4 DEF PatchAt
  <2> QED BY <1>1, <2>1, <2>2 DEF Wanted, Changed
<1>5. CASE Now.op # "check" /\ job.w \notin Few
  <2>1. PICK n \in DOMAIN Steps : FullDiff(Steps, n)
      BY <1>5, Program DEF Ends
  <2>2. n = k
    <3>1. ~(n >= k + 1)
        BY <2>1 DEF FullDiff
    <3>2. ~(k > n)
        BY <1>2, <1>5, <2>1 DEF FullDiff
    <3> QED BY <1>2, <1>3, <3>1, <3>2
  <2>3. Now.op = "diff" /\ Now.only = {}
      BY <1>2, <2>1, <2>2 DEF FullDiff
  <2>4. \A i \in DOMAIN Steps : i >= k => Steps[i].op \in {"diff", "check"}
      BY <1>2, <1>3, <2>3
  <2>5. Difference(Tracked) = Wanted
      BY <2>4, AllKnown, WantedWritten
  <2> QED BY <2>3, <2>5, WroteDiff
<1>6. CASE Now.op # "check" /\ job.w \in Few
  <2>1. /\ DOMAIN tree = DOMAIN Gki /\ intent = {}
        /\ Changed(tree) \subseteq {SmmuC, ImplC}
        /\ job.w \in Inventories => Changed(tree) = {} /\ patch = <<>>
      BY <1>6 DEF FewInv
  <2>2. Changed(tree) \cap (Tracked \cap {SmmuC, ImplC}) = Changed(tree) \ (strays \ intent)
      BY <2>1 DEF Changed, Tracked, TreeInv
  <2>3. CASE job.w \in Inventories
    <3>1. Now.op = "plan"
        BY <1>2, <1>6, <2>3, FewOps
    <3>2. tree' = tree /\ intent' = intent /\ patch' = patch
        BY <3>1, OpsFrame, StageFrame DEF Ops
    <3>3. Wanted' = [path \in {} |-> tree[path]]
        BY <1>1, <2>1, <2>3, <3>2 DEF Wanted, Changed
    <3>4. Wanted' = <<>>
        BY <3>3
    <3> QED BY <2>1, <2>3, <3>2, <3>4
  <2>4. CASE job.w \notin Inventories
    <3>1. PICK n \in DOMAIN Steps :
              Steps[n].op = "diff" /\ \A i \in DOMAIN Steps : i > n => Steps[i].op = "check"
        BY <1>6, <2>4, Own67 DEF Steps, Few
    <3>2. n = k
      <4>1. ~(n >= k + 1)
          BY <3>1
      <4>2. ~(k > n)
          BY <1>2, <1>6, <3>1
      <4> QED BY <1>2, <1>3, <4>1, <4>2
    <3>3. Now.op = "diff" /\ Now.only = {SmmuC, ImplC}
        BY <1>2, <1>6, <2>4, <3>1, <3>2, FewOps
    <3>4. patch' = Difference(Tracked \cap {SmmuC, ImplC}) /\ Wanted' = Wanted
        BY <3>3, WroteDiff
    <3>5. Difference(Tracked \cap {SmmuC, ImplC}) = Wanted
        BY <2>2 DEF Difference, Wanted
    <3> QED BY <3>4, <3>5
  <2> QED BY <2>3, <2>4
<1> QED BY <1>4, <1>5, <1>6

PhaseNames == Ended \cup {"stage", "compile", "probes", "finalize", "enforce"}

(* Where a job stands in its program or among its probes.                  *)
PlaceOK ==
    /\ src \in SourceTrees
    /\ job.phase \in PhaseNames
    /\ job.step \in 1..Len(Steps) \cup 1..Len(Probes)
    /\ passes \in 1..MaxPasses

(* Nothing leaves the index but by a checkout.                             *)
LEMMA IndexGrows ==
    ASSUME Stage
    PROVE  intent \subseteq intent'
<1>1. CASE AddIntent
    BY <1>1 DEF AddIntent
<1>2. CASE Walker
    BY <1>2 DEF Walker, SeedRoot, LocalInclude, LocalsDone, Binding, BindingsDone,
                SeedHeaders, Header, HeadersDone
<1>3. CASE Now.op \in Ops
    BY <1>3, OpsFrame
<1> QED BY <1>1, <1>2, <1>3, ByOp

LEMMA StageWhole ==
    ASSUME JobOK, WholeInv, PlaceOK, Stage
    PROVE  WholeInv' /\ PlaceOK'
<1>1. job.phase = "stage" /\ job.step \in DOMAIN Steps /\ StageAt(job.step) /\ PatchAt(job.step)
    BY StagingStep DEF WholeInv, StageInv, PatchInv
<1>2. PICK k \in DOMAIN Steps : k = job.step
    BY <1>1
<1>3. Kept(k)
    BY <1>1, <1>2, StageKept
<1>4. /\ src' = src /\ strays' = strays /\ torn' = torn /\ passes' = passes
      /\ patch' = patch \/ Now.op = "diff"
    BY StageFrame
<1>5. job'.w = job.w
    BY StagingStep DEF JobOK
<1>6. /\ Steps' = Steps /\ AllIntent' = AllIntent /\ LocalFiles' = LocalFiles
      /\ HeadersNamed' = HeadersNamed
    BY <1>4, <1>5, SameTerms
<1>7. TreeInv'
  <2>1. /\ DOMAIN tree \subseteq DOMAIN tree' /\ Grown
        /\ intent' \subseteq intent \cup DOMAIN tree
      BY <1>3 DEF Kept
  <2>2. intent \subseteq DOMAIN tree /\ torn \subseteq DOMAIN tree
      BY DEF WholeInv, TreeInv
  <2>3. intent' \subseteq DOMAIN tree' /\ torn' \subseteq DOMAIN tree'
      BY <1>4, <2>1, <2>2
  <2>4. DOMAIN Gki \subseteq DOMAIN tree' /\ strays' \cap DOMAIN Gki = {}
      BY <1>4, <2>1 DEF WholeInv, TreeInv
  <2>5. intent \subseteq intent'
      BY IndexGrows
  <2>6. DOMAIN tree' \subseteq DOMAIN Gki \cup intent' \cup AllIntent \cup LocalFiles \cup HeadersNamed
      BY <2>1, <2>5 DEF WholeInv, TreeInv, Grown
  <2> QED BY <1>6, <2>3, <2>4, <2>6 DEF TreeInv
<1>8. FewInv'
    BY <1>2, FewStage DEF WholeInv
<1>9. Probes' = Probes
    BY <1>5 DEF Probes
<1>10. DOMAIN Steps = 1..Len(Steps) /\ Len(Steps) \in Nat
    BY Program
<1>11. CASE job' = job /\ StageAt(k)'
  <2>1. Now.op # "diff"
    <3>1. ASSUME Now.op = "diff" PROVE FALSE
      <4>1. WriteDiff
          BY <3>1, ByOp
      <4>2. Advance \/ Refuse
          BY <4>1 DEF WriteDiff
      <4>3. job'.step # job.step \/ job'.phase # job.phase
          BY <1>1, <1>10, <4>2 DEF Advance, Refuse, JobOK
      <4> QED BY <1>11, <4>3
    <3> QED BY <3>1
  <2>2. StageInv'
      BY <1>1, <1>2, <1>6, <1>11 DEF StageInv
  <2>3. \E i \in DOMAIN Steps : i >= k /\ Steps[i].op # "check"
    <3>1. Now.op # "check"
      <4>1. ASSUME Now.op = "check" PROVE FALSE
        <5>1. Now.op \in Ops /\ Now.op # "normalize"
            BY <4>1 DEF Ops
        <5>2. Advance \/ Refuse \/ job' = [job EXCEPT !.phase = "rejected"]
            BY <5>1, OpsFrame
        <5>3. job'.step # job.step \/ job'.phase # job.phase
            BY <1>1, <1>10, <5>2 DEF Advance, Refuse, JobOK
        <5> QED BY <1>11, <5>3
      <4> QED BY <4>1
    <3>2. Steps[k].op # "check" /\ k >= k
        BY <1>2, <1>10, <3>1 DEF Now
    <3> QED BY <3>2
  <2>4. PatchInv'
      BY <1>1, <1>2, <1>6, <1>11, <2>3 DEF PatchInv, PatchAt
  <2>5. PlaceOK'
      BY <1>4, <1>6, <1>9, <1>11 DEF PlaceOK
  <2> QED BY <1>7, <1>8, <2>2, <2>4, <2>5 DEF WholeInv
<1>12. CASE Advance /\ StageAt(k + 1)'
  <2>1. PatchAt(k + 1)'
      BY <1>1, <1>2, <1>12, PatchStage DEF WholeInv
  <2>2. CASE k < Len(Steps)
    <3>1. job'.step = k + 1 /\ job'.phase = "stage" /\ k + 1 \in 1..Len(Steps)
        BY <1>1, <1>2, <1>10, <1>12, <2>2 DEF Advance, JobOK
    <3>2. StageInv'
        BY <1>6, <1>10, <1>12, <3>1 DEF StageInv
    <3>3. PatchInv'
        BY <2>1, <3>1 DEF PatchInv
    <3>4. PlaceOK'
        BY <1>4, <1>6, <1>9, <3>1 DEF PlaceOK, PhaseNames
    <3> QED BY <1>7, <1>8, <3>2, <3>3, <3>4 DEF WholeInv
  <2>3. CASE ~(k < Len(Steps))
    <3>1. job'.step = k /\ job'.phase = "compile"
        BY <1>1, <1>2, <1>10, <1>12, <2>3 DEF Advance, JobOK
    <3>2. \A i \in DOMAIN Steps : ~(i >= k + 1)
        BY <1>2, <1>10, <2>3
    <3>3. patch' = Wanted'
        BY <1>6, <2>1, <3>2 DEF PatchAt
    <3>4. StageInv' /\ PatchInv'
        BY <3>1, <3>3 DEF StageInv, PatchInv
    <3>5. PlaceOK'
        BY <1>4, <1>6, <1>9, <1>10, <3>1 DEF PlaceOK, PhaseNames
    <3> QED BY <1>7, <1>8, <3>4, <3>5 DEF WholeInv
  <2> QED BY <2>2, <2>3
<1>13. CASE Refuse \/ job' = [job EXCEPT !.phase = "rejected"]
  <2>1. job'.phase \in {"refused", "rejected"} /\ job'.step = job.step
      BY <1>13 DEF Refuse, JobOK
  <2>2. StageInv' /\ PatchInv'
      BY <2>1 DEF StageInv, PatchInv
  <2>3. PlaceOK'
      BY <1>4, <1>6, <1>9, <2>1 DEF PlaceOK, PhaseNames, Ended
  <2> QED BY <1>7, <1>8, <2>2, <2>3 DEF WholeInv
<1> QED BY <1>3, <1>11, <1>12, <1>13 DEF Kept

(* The shell leaves the tree, the index and the patch alone, and never     *)
(* goes back to the compile phase.                                         *)
LEMMA ShellStep ==
    ASSUME JobOK, Shell
    PROVE  /\ UNCHANGED <<src, tree, intent, patch, passes, strays, torn>>
           /\ job'.w = job.w
           /\ job'.phase \in PhaseNames \ {"stage", "compile"}
           /\ job'.step = 1 \/ (job'.step = job.step + 1 /\ job.step < Len(Probes)
                                /\ job.phase = "probes")
<1> DEFINE Fine == /\ UNCHANGED <<src, tree, intent, patch, passes, strays, torn>>
                   /\ job'.w = job.w
                   /\ job'.phase \in PhaseNames \ {"stage", "compile"}
                   /\ job'.step = 1 \/ (job'.step = job.step + 1 /\ job.step < Len(Probes)
                                        /\ job.phase = "probes")
<1> USE DEF ShellVars
<1>0. ASSUME NEW to \in PhaseNames \ {"stage", "compile"}, Phase(to)
      PROVE  job'.w = job.w /\ job'.step = 1 /\ job'.phase \in PhaseNames \ {"stage", "compile"}
    BY <1>0 DEF Phase, JobOK
<1>1. {"probes", "finalize", "rejected", "enforce", "done"} \subseteq PhaseNames \ {"stage", "compile"}
    BY DEF PhaseNames, Ended
<1>2. OpenStatus => Fine
    BY <1>0, <1>1 DEF OpenStatus
<1>3. RunProbe => Fine
  <2> SUFFICES ASSUME RunProbe PROVE Fine
      OBVIOUS
  <2>1. CASE job.step < Len(Probes)
      BY <1>1, <2>1 DEF RunProbe, JobOK
  <2>2. CASE ~(job.step < Len(Probes))
      BY <1>0, <1>1, <2>2 DEF RunProbe
  <2> QED BY <2>1, <2>2
<1>4. RunWhole => Fine
    BY <1>0, <1>1 DEF RunWhole
<1>5. ConfigureFails => Fine
    BY <1>0, <1>1 DEF ConfigureFails
<1>6. Publish => Fine
    BY <1>0, <1>1 DEF Publish
<1>7. Enforce => Fine
    BY <1>0, <1>1 DEF Enforce
<1> QED BY <1>2, <1>3, <1>4, <1>5, <1>6, <1>7 DEF Shell

LEMMA OwnLength ==
    ASSUME JobOK PROVE Len(Steps) \in Nat /\ Len(Steps) > 0
BY Program DEF Listed

LEMMA SameTree ==
    ASSUME JobOK, TreeInv, FewInv,
           UNCHANGED <<src, tree, intent, patch, torn, strays>>, job'.w = job.w
    PROVE  TreeInv' /\ FewInv'
<1>1. /\ AllIntent' = AllIntent /\ LocalFiles' = LocalFiles /\ HeadersNamed' = HeadersNamed
    BY SameTerms
<1> QED BY <1>1 DEF TreeInv, FewInv, Changed

LEMMA ShellWhole ==
    ASSUME JobInv, WholeInv, PlaceOK, Shell
    PROVE  WholeInv' /\ PlaceOK'
<1>0. JobOK
    BY DEF JobInv
<1>1. /\ UNCHANGED <<src, tree, intent, patch, passes, strays, torn>>
      /\ job'.w = job.w /\ job'.phase \in PhaseNames \ {"stage", "compile"}
      /\ job'.step = 1 \/ (job'.step = job.step + 1 /\ job.step < Len(Probes))
    BY <1>0, ShellStep
<1>2. TreeInv' /\ FewInv'
    BY <1>0, <1>1, SameTree DEF WholeInv
<1>3. Steps' = Steps /\ Probes' = Probes
    BY <1>1 DEF Steps, Probes
<1>4. StageInv' /\ PatchInv'
    BY <1>1 DEF StageInv, PatchInv
<1>5. job'.step \in 1..Len(Steps) \cup 1..Len(Probes)
  <2>1. job.step \in Nat
      BY <1>0 DEF JobOK
  <2>2. Len(Probes) \in Nat
      BY OwnReport
  <2> QED BY <1>0, <1>1, <2>1, <2>2, OwnLength
<1>6. PlaceOK'
    BY <1>1, <1>3, <1>5 DEF PlaceOK
<1> QED BY <1>2, <1>4, <1>6 DEF WholeInv

(* What a killed step may have been writing: a file of the tree, one its   *)
(* program names to the index, or one of a walk.                           *)
LEMMA WritingKnown ==
    ASSUME JobOK, job.phase = "stage", NEW k \in DOMAIN Steps, k = job.step, StageAt(k)
    PROVE  /\ BeingWritten \subseteq DOMAIN tree \cup AllIntent \cup LocalFiles \cup HeadersNamed
           /\ job.w \in Few => BeingWritten \subseteq DOMAIN tree \cap {SmmuC, ImplC}
           /\ job.w \in Inventories => BeingWritten = {}
<1>1. Now = Steps[k]
    BY DEF Now
<1>2. Makes(Now) \subseteq AllIntent
    BY <1>1, Program
<1> DEFINE Files == DOMAIN tree \cup AllIntent \cup LocalFiles \cup HeadersNamed
<1>3. CASE Now.op \in {"copy", "write", "adapt"}
  <2>1. BeingWritten \subseteq Makes(Now)
      BY <1>3 DEF BeingWritten, Makes
  <2>2. job.w \notin Few
    <3>1. Now.op \notin {"need", "check", "edit", "diff", "plan"}
        BY <1>3
    <3> QED BY <1>1, <3>1, FewOps
  <2>3. job.w \notin Inventories
      BY <2>2 DEF Few
  <2> QED BY <1>2, <2>1, <2>2, <2>3
<1>4. CASE Now.op = "edit"
  <2>1. BeingWritten \subseteq {Now.file} \cap DOMAIN tree
      BY <1>4 DEF BeingWritten
  <2>2. job.w \in Few => Now.file \in {SmmuC, ImplC} /\ job.w \notin Inventories
      BY <1>1, <1>4, FewOps
  <2>3. Inventories \subseteq Few
      BY DEF Few
  <2> QED BY <2>1, <2>2, <2>3
<1>5. CASE Now.op \in {"local_include", "binding", "header", "normalize"}
  <2>1. job.w \notin Few \/ Now.op = "normalize"
    <3>1. Now.op \in {"local_include", "binding", "header"} => Now.op \notin Ops
        BY DEF Ops
    <3> QED BY <1>1, <1>5, <3>1, FewOps
  <2>2. job.w \notin Few
    <3>1. Now.op = "normalize" => Now.op \notin {"need", "check", "edit", "diff", "plan"}
        BY <1>5
    <3> QED BY <1>1, <2>1, <3>1, FewOps
  <2>3. BeingWritten \subseteq Files
    <3>1. CASE Now.op = "local_include"
      <4>1. LocalWalk /\ LocalFiles = Placed
          BY <1>1, <3>1 DEF StageAt, LocalFiles
      <4>2. BeingWritten = {Place56(p) : p \in (walk.queue \cap DOMAIN src) \ walk.seen}
          BY <3>1 DEF BeingWritten
      <4>3. BeingWritten \subseteq Placed
          BY <4>1, <4>2 DEF LocalWalk, Placed
      <4> QED BY <4>1, <4>3
    <3>2. CASE Now.op = "binding" /\ walk.angle # {}
      <4>1. BeingWritten \subseteq {NextBinding}
          BY <3>2 DEF BeingWritten
      <4>2. NextBinding \in walk.angle
          BY <3>2 DEF NextBinding
      <4> QED BY <4>1, <4>2 DEF StageAt
    <3>3. CASE Now.op = "header"
      <4>1. BeingWritten \subseteq walk.queue
          BY <3>3 DEF BeingWritten
      <4> QED BY <1>1, <3>3, <4>1 DEF StageAt
    <3>4. CASE Now.op = "normalize" /\ Untidy # {}
      <4>1. BeingWritten = {NextUntidy}
          BY <3>4 DEF BeingWritten
      <4>2. NextUntidy \in Untidy
          BY <3>4 DEF NextUntidy
      <4> QED BY <4>1, <4>2 DEF Untidy, Changed
    <3>5. CASE (Now.op = "binding" /\ walk.angle = {}) \/ (Now.op = "normalize" /\ Untidy = {})
      <4>1. BeingWritten = {}
          BY <3>5 DEF BeingWritten
      <4> QED BY <4>1
    <3> QED BY <1>5, <3>1, <3>2, <3>3, <3>4, <3>5
  <2>4. job.w \notin Inventories
      BY <2>2 DEF Few
  <2> QED BY <2>2, <2>3, <2>4
<1>6. CASE Now.op \notin {"copy", "write", "adapt", "edit", "local_include", "binding",
                          "header", "normalize"}
  <2>1. BeingWritten = {}
      BY <1>6 DEF BeingWritten
  <2> QED BY <2>1
<1> QED BY <1>3, <1>4, <1>5, <1>6

LEMMA KillWhole ==
    ASSUME JobOK, WholeInv, PlaceOK, Kill
    PROVE  WholeInv' /\ PlaceOK'
<1>1. /\ UNCHANGED <<src, intent, walk, patch, passes, strays>>
      /\ job'.w = job.w /\ job'.phase = "killed" /\ job'.step = job.step
    BY DEF Kill, JobOK
<1>2. Steps' = Steps /\ Probes' = Probes /\ AllIntent' = AllIntent
      /\ LocalFiles' = LocalFiles /\ HeadersNamed' = HeadersNamed
    BY <1>1, SameTerms DEF Probes
<1>3. StageInv' /\ PatchInv' /\ PlaceOK'
    BY <1>1, <1>2 DEF StageInv, PatchInv, PlaceOK, PhaseNames, Ended
<1>4. CASE UNCHANGED <<tree, torn>>
    BY <1>1, <1>3, <1>4, SameTree DEF WholeInv
<1>5. CASE \E path \in BeingWritten :
               tree' = Put(tree, path, <<>>) /\ torn' = torn \cup {path}
  <2>1. PICK path \in BeingWritten :
            tree' = Put(tree, path, <<>>) /\ torn' = torn \cup {path}
      BY <1>5
  <2>2. DOMAIN tree' = DOMAIN tree \cup {path}
        /\ \A p \in DOMAIN tree : p # path => tree'[p] = tree[p]
      BY <2>1 DEF Put
  <2>3. job.phase = "stage"
    <3>1. job.phase # "stage" => BeingWritten = {}
        BY DEF BeingWritten
    <3> QED BY <2>1, <3>1
  <2>4. PICK k \in DOMAIN Steps : k = job.step
      BY <2>3 DEF WholeInv, StageInv
  <2>5. StageAt(k)
      BY <2>3, <2>4 DEF WholeInv, StageInv
  <2>6. /\ path \in DOMAIN tree \cup AllIntent \cup LocalFiles \cup HeadersNamed
        /\ job.w \in Few => path \in DOMAIN tree \cap {SmmuC, ImplC}
        /\ job.w \notin Inventories
      BY <2>3, <2>4, <2>5, WritingKnown
  <2>7. TreeInv'
      BY <1>1, <1>2, <2>1, <2>2, <2>6 DEF WholeInv, TreeInv
  <2>8. FewInv'
    <3>1. Changed(tree') \subseteq Changed(tree) \cup {path}
        BY <2>2 DEF Changed
    <3> QED BY <1>1, <2>2, <2>6, <3>1 DEF WholeInv, FewInv
  <2> QED BY <1>3, <2>7, <2>8 DEF WholeInv
<1> QED BY <1>4, <1>5 DEF Kill

(* A pass begins at the first step, before any walk.                       *)
LEMMA FirstStep ==
    ASSUME JobOK
    PROVE  /\ 1 \in DOMAIN Steps
           /\ Steps[1].op \notin {"local_include", "header"}
           /\ job.w \in Few => \E i \in DOMAIN Steps : i >= 1 /\ Steps[i].op # "check"
<1>1. 1 \in DOMAIN Steps
    BY Program DEF Listed
<1>2. InTurn(Steps, 1)
    BY <1>1, Program DEF Sound, Walks
<1>3. Steps[1].op \notin {"local_include", "header"}
    BY <1>2 DEF InTurn
<1>4. ASSUME job.w \in Few PROVE \E i \in DOMAIN Steps : i >= 1 /\ Steps[i].op # "check"
  <2>1. CASE job.w \in Inventories
    <3>1. Steps[1].op = "plan" /\ 1 >= 1
        BY <1>1, <1>4, <2>1, FewOps
    <3> QED BY <1>1, <3>1
  <2>2. CASE job.w \notin Inventories
    <3>1. PICK n \in DOMAIN Steps : Steps[n].op = "diff"
        BY <1>4, <2>2, Own67 DEF Few, Steps
    <3>2. n >= 1
        BY <3>1, Program
    <3> QED BY <3>1, <3>2
  <2> QED BY <2>1, <2>2
<1> QED BY <1>1, <1>3, <1>4

LEMMA NotOnlyChecks ==
    ASSUME JobOK
    PROVE  ~(\A i \in DOMAIN Steps : i >= 1 => Steps[i].op = "check")
<1>1. CASE job.w \in Few
    BY <1>1, FirstStep
<1>2. CASE job.w \notin Few
  <2>1. PICK n \in DOMAIN Steps : Steps[n].op = "diff"
      BY <1>2, Program DEF Ends, FullDiff
  <2>2. n >= 1
      BY <2>1, Program
  <2> QED BY <2>1, <2>2
<1> QED BY <1>1, <1>2

Begun ==
    /\ JobOK /\ job.phase = "stage" /\ job.step = 1 /\ walk = NoWalk
    /\ DOMAIN tree \subseteq DOMAIN Gki \cup intent \cup AllIntent \cup LocalFiles \cup strays

LEMMA StageBegins == Begun => StageInv /\ PatchInv
<1> SUFFICES ASSUME Begun PROVE StageInv /\ PatchInv
    OBVIOUS
<1>0. /\ JobOK /\ job.phase = "stage" /\ job.step = 1 /\ walk = NoWalk
      /\ DOMAIN tree \subseteq DOMAIN Gki \cup intent \cup AllIntent \cup LocalFiles \cup strays
    BY DEF Begun
<1>1. DOMAIN walk = WalkFields /\ walk.staged = {} /\ walk.angle = {}
    BY <1>0 DEF NoWalk, WalkFields
<1>2. DOMAIN tree \subseteq Known
    BY <1>0, <1>1 DEF Known
<1>3. Behind(1)
  <2>1. \A i \in DOMAIN Steps : ~(i < 1)
      BY <1>0, Program
  <2> QED BY <2>1 DEF Behind
<1>4. Fresh(1)
    BY <1>1 DEF Fresh
<1>5. Sources(1)
    BY DEF Sources
<1>6. StageAt(1)
    BY <1>0, <1>1, <1>2, <1>3, <1>4, <1>5, FirstStep DEF StageAt
<1>7. PatchAt(1)
    BY <1>0, NotOnlyChecks DEF PatchAt
<1> QED BY <1>0, <1>6, <1>7, FirstStep DEF StageInv, PatchInv

LEMMA InitWhole == Init => WholeInv /\ PlaceOK
<1> SUFFICES ASSUME Init PROVE WholeInv /\ PlaceOK
    OBVIOUS
<1>1. JobOK /\ job.phase = "stage" /\ job.step = 1 /\ job.w \in Workflows
    BY InitJob DEF Init, JobInv
<1>2. /\ src \in SourceTrees /\ tree = Gki /\ intent = {} /\ walk = NoWalk
      /\ patch = <<>> /\ passes = 1 /\ strays = {} /\ torn = {}
    BY DEF Init
<1>3. StageInv /\ PatchInv
    BY <1>1, <1>2, StageBegins DEF Begun
<1>4. TreeInv
    BY <1>2 DEF TreeInv
<1>5. Changed(tree) = {}
    BY <1>2 DEF Changed
<1>6. FewInv
    BY <1>2, <1>5 DEF FewInv
<1>7. PlaceOK
  <2>1. 1 \in 1..Len(Steps)
      BY <1>1, OwnLength
  <2>2. 1 \in 1..MaxPasses
      BY PassesAssumption
  <2> QED BY <1>1, <1>2, <2>1, <2>2 DEF PlaceOK, PhaseNames
<1> QED BY <1>3, <1>4, <1>6, <1>7 DEF WholeInv

LEMMA PassWhole ==
    ASSUME JobInv, WholeInv, PlaceOK, Checkout \/ Rerun
    PROVE  WholeInv' /\ PlaceOK'
<1>0. JobOK /\ JobOK'
    BY NextPassKeeps DEF JobInv
<1>1. /\ job'.w = job.w /\ job'.phase = "stage" /\ job'.step = 1
      /\ src' = src /\ walk' = NoWalk /\ passes' = passes + 1 /\ passes < MaxPasses
    BY <1>0 DEF Checkout, Rerun, NextPass, JobOK
<1>2. Steps' = Steps /\ Probes' = Probes /\ AllIntent' = AllIntent
      /\ LocalFiles' = LocalFiles /\ HeadersNamed' = HeadersNamed
    BY <1>1, SameTerms DEF Probes
<1>3. PlaceOK'
  <2>1. 1 \in 1..Len(Steps)
      BY <1>0, OwnLength
  <2>2. passes + 1 \in 1..MaxPasses
      BY <1>1, PassesAssumption DEF PlaceOK
  <2> QED BY <1>1, <1>2, <2>1, <2>2 DEF PlaceOK, PhaseNames
<1>4. /\ TreeInv' /\ FewInv'
      /\ (DOMAIN tree \subseteq DOMAIN Gki \cup intent \cup AllIntent \cup LocalFiles \cup strays)'
  <2>1. CASE Checkout
    <3>1. tree' = Gki /\ intent' = {} /\ strays' = {} /\ torn' = {} /\ patch' = <<>>
        BY <2>1 DEF Checkout
    <3>2. Changed(tree') = {}
        BY <3>1 DEF Changed
    <3> QED BY <3>1, <3>2 DEF TreeInv, FewInv
  <2>2. CASE Rerun
    <3>1. /\ tree' = tree /\ intent' = intent /\ torn' = torn /\ patch' = patch
          /\ strays' = HeadersNamed \cap (DOMAIN tree \ (DOMAIN Gki \cup intent \cup AllIntent))
        BY <2>2 DEF Rerun
    <3> QED BY <1>1, <1>2, <3>1 DEF WholeInv, TreeInv, FewInv
  <2> QED BY <2>1, <2>2
<1>5. StageInv' /\ PatchInv'
  <2>1. Begun'
      BY <1>0, <1>1, <1>4 DEF Begun
  <2> QED BY <2>1, StageBegins, PTL
<1> QED BY <1>3, <1>4, <1>5 DEF WholeInv

LEMMA WholeStep == JobInv /\ WholeInv /\ PlaceOK /\ [Next]_vars => WholeInv' /\ PlaceOK'
<1> SUFFICES ASSUME JobInv, WholeInv, PlaceOK, [Next]_vars PROVE WholeInv' /\ PlaceOK'
    OBVIOUS
<1>1. JobOK
    BY DEF JobInv
<1>2. CASE UNCHANGED vars
  <2>1. UNCHANGED <<src, tree, intent, job, walk, patch, passes, strays, torn>>
      BY <1>2 DEF vars
  <2>2. /\ Steps' = Steps /\ AllIntent' = AllIntent /\ LocalFiles' = LocalFiles
        /\ Placed' = Placed /\ Closure' = Closure /\ HeadersNamed' = HeadersNamed
      BY <2>1, SameTerms
  <2>3. TreeInv' /\ FewInv'
      BY <1>1, <2>1, SameTree DEF WholeInv
  <2>4. PlaceOK'
      BY <2>1, <2>2 DEF PlaceOK, Probes
  <2>5. StageInv'
      BY <2>1, <2>2 DEF WholeInv, StageInv, StageAt, Known, Behind, Fresh, LocalWalk,
                        Sources, Ported, Copied
  <2>6. PatchInv'
      BY <2>1, <2>2 DEF WholeInv, PatchInv, PatchAt, Wanted, Changed
  <2> QED BY <2>3, <2>4, <2>5, <2>6 DEF WholeInv
<1>3. CASE Next
    BY <1>1, <1>3, StageWhole, ShellWhole, KillWhole, PassWhole DEF Next
<1> QED BY <1>2, <1>3

LEMMA WholeSound == JobInv /\ WholeInv /\ PlaceOK => PatchSound
<1> SUFFICES ASSUME JobInv, WholeInv, PlaceOK PROVE PatchSound
    OBVIOUS
<1>1. job.w \in Workflows
    BY DEF JobInv, JobOK
<1>2. PortTypeOK
    BY <1>1 DEF PortTypeOK, PlaceOK, PhaseNames, WholeInv, TreeInv
<1>3. PatchComplete
    BY DEF PatchComplete, Staged, WholeInv, PatchInv, Wanted
<1> QED BY <1>2, <1>3 DEF PatchSound

(* Whatever the GKI and the downstream tree hold, whatever was killed and  *)
(* rerun: the patch a job publishes is the whole difference from GKI but   *)
(* for headers an interrupted walk left behind.                            *)
THEOREM PatchAlwaysSound == Spec => []PatchSound
<1>1. Init => JobInv /\ WholeInv /\ PlaceOK
    BY InitJob, InitWhole
<1>2. (JobInv /\ WholeInv /\ PlaceOK) /\ [Next]_vars => (JobInv /\ WholeInv /\ PlaceOK)'
    BY JobStep, WholeStep
<1> QED BY <1>1, <1>2, WholeSound, PTL DEF Spec
=============================================================================
