------------------------------- MODULE PortJob -------------------------------
(***************************************************************************)
(* A porting workflow: a job stages its scripts' edits into a GKI checkout *)
(* one file at a time, writes the difference as a patch, compiles its      *)
(* probes and publishes a report.  It may be killed anywhere (job timeout, *)
(* a newer run of the workflow), also between the truncation and the write *)
(* of a file.  The next pass starts from a clean checkout, as the workflow *)
(* does, or in the tree the last one left, as somebody running the scripts *)
(* by hand does: append_once and replace_once are written for that.        *)
(***************************************************************************)
EXTENDS PortOutcome

CONSTANTS
    Workflows,     \* the workflows run
    Gki,           \* the pinned GKI tree: the files the scripts touch or ask for
    SourceTrees,   \* possible downstream trees: path -> text
    Complete,      \* those with every source, in the shape the scripts expect
    MaxPasses      \* bound: passes of the job

ASSUME WorkflowsAssumption == Workflows \subseteq DOMAIN Staging \cap DOMAIN Finalize
ASSUME SourcesAssumption == Complete \subseteq SourceTrees
ASSUME PassesAssumption == MaxPasses \in Nat \ {0}

VARIABLES
    src,      \* the downstream tree
    tree,     \* the GKI checkout
    intent,   \* paths the index knows from git add -N
    job,      \* workflow, phase, next step of Staging[job.w]
    walk,     \* the include graph walk of scripts 56 and 66
    patch,    \* the patch file written last: path -> text
    missing,  \* probes the plan lists with missing sources
    status,   \* rows of the compile status file
    report,   \* published counts by kind of result
    passes,   \* number of the current pass
    strays,   \* history: untracked headers the current pass found
    torn      \* history: files left empty since the checkout

vars == <<src, tree, intent, job, walk, patch, missing, status, report,
          passes, strays, torn>>

NoWalk == [queue |-> {}, seen |-> {}, staged |-> {}, angle |-> {}, lost |-> {}]

Steps == Staging[job.w]
Now == Steps[job.step]
At(op) == job.phase = "stage" /\ Now.op = op

Advance ==
    job' = IF job.step < Len(Steps) THEN [job EXCEPT !.step = @ + 1]
           ELSE [job EXCEPT !.phase = "compile"]
Refuse == job' = [job EXCEPT !.phase = "refused"]

Init ==
    /\ src \in SourceTrees
    /\ job \in [w : Workflows, phase : {"stage"}, step : {1}]
    /\ tree = Gki
    /\ intent = {}
    /\ walk = NoWalk
    /\ patch = <<>>
    /\ missing = {}
    /\ status = <<>>
    /\ report = <<>>
    /\ passes = 1
    /\ strays = {}
    /\ torn = {}

(***************************************************************************)
(* What git diff sees: tracked files whose text is not GKI's.              *)
(***************************************************************************)
Changed(t) == {p \in DOMAIN t : p \notin DOMAIN Gki \/ t[p] # Gki[p]}
Tracked == (DOMAIN Gki \cup intent) \cap DOMAIN tree
Difference(paths) == [p \in Changed(tree) \cap paths |-> tree[p]]

(***************************************************************************)
(* One file at a time.                                                     *)
(***************************************************************************)
StageVars == <<src, patch, missing, status, report, passes, strays, torn>>

NeedDownstream ==
    /\ At("source")
    /\ IF Now.file \in DOMAIN src THEN Advance ELSE Refuse
    /\ UNCHANGED <<tree, intent, walk, StageVars>>

NeedFile ==
    /\ At("need")
    /\ IF /\ Now.file \in DOMAIN tree
          /\ Now.marker = AnyText \/ Mentions(tree[Now.file], Now.marker)
       THEN Advance ELSE Refuse
    /\ UNCHANGED <<tree, intent, walk, StageVars>>

CopyFile ==
    /\ At("copy")
    /\ IF Now.file \in DOMAIN src
       THEN /\ tree' = Put(tree, Now.to, IF Now.strip THEN Stripped(src[Now.file])
                                         ELSE src[Now.file])
            /\ Advance
       ELSE Refuse /\ UNCHANGED tree
    /\ UNCHANGED <<intent, walk, StageVars>>

AdaptFile ==
    /\ At("adapt")
    /\ IF AdaptRefused(tree[Now.file], Now.how)
       THEN Refuse /\ UNCHANGED tree
       ELSE /\ tree' = [tree EXCEPT ![Now.file] = Adapted(@, Now.how)]
            /\ Advance
    /\ UNCHANGED <<intent, walk, StageVars>>

WriteFile ==
    /\ At("write")
    /\ tree' = Put(tree, Now.file, Now.text)
    /\ Advance
    /\ UNCHANGED <<intent, walk, StageVars>>

EditsRefused ==
    \/ Now.file \notin DOMAIN tree
    \/ \E i \in DOMAIN Now.edits : EditRefused(tree[Now.file], Now.edits[i])

EditFile ==
    /\ At("edit")
    /\ IF EditsRefused
       THEN Refuse /\ UNCHANGED tree
       ELSE /\ tree' = [tree EXCEPT ![Now.file] = FoldLeft(Edited, @, Now.edits)]
            /\ Advance
    /\ UNCHANGED <<intent, walk, StageVars>>

(***************************************************************************)
(* Script 56: through the quoted includes, in any order, every file of the *)
(* downstream tree copied over whatever GKI has under its name.            *)
(***************************************************************************)
SeedRoot ==
    /\ At("seed_root")
    /\ IF Root \in DOMAIN src
       THEN walk' = [NoWalk EXCEPT !.queue = {Root}] /\ Advance
       ELSE Refuse /\ UNCHANGED walk
    /\ UNCHANGED <<tree, intent, StageVars>>

Place56(path) == IF path = Root THEN RootCopy ELSE path

(* Mutant: the walk forgets where it has been.                             *)
LocalIncludeAgain ==
    /\ At("local_include")
    /\ \E path \in walk.queue :
       LET known == path \in DOMAIN src
           text == IF known THEN src[path] ELSE <<>>
       IN /\ tree' = IF known THEN Put(tree, Place56(path), text) ELSE tree
          /\ walk' = [walk EXCEPT !.queue = (@ \ {path}) \cup Named(text, "local"),
                                  !.staged = @ \cup (IF known THEN {Place56(path)} ELSE {}),
                                  !.angle = @ \cup Named(text, "angle")]
    /\ UNCHANGED <<intent, job, StageVars>>

LocalInclude ==
    /\ At("local_include")
    /\ \E path \in walk.queue :
       LET rest == walk.queue \ {path}
       IN \/ /\ path \in walk.seen
             /\ walk' = [walk EXCEPT !.queue = rest]
             /\ UNCHANGED tree
          \/ /\ path \notin walk.seen \cup DOMAIN src
             /\ walk' = [walk EXCEPT !.queue = rest, !.seen = @ \cup {path},
                                     !.lost = @ \cup {path}]
             /\ UNCHANGED tree
          \/ /\ path \in DOMAIN src \ walk.seen
             /\ tree' = Put(tree, Place56(path), src[path])
             /\ walk' = [queue |-> rest \cup Named(src[path], "local"),
                         seen |-> walk.seen \cup {path},
                         staged |-> walk.staged \cup {Place56(path)},
                         angle |-> walk.angle \cup Named(src[path], "angle"),
                         lost |-> walk.lost \cup Named(src[path], "outside")]
    /\ UNCHANGED <<intent, job, StageVars>>

LocalsDone ==
    /\ At("local_include")
    /\ walk.queue = {}
    /\ Advance
    /\ UNCHANGED <<tree, intent, walk, StageVars>>

(* merge_binding_header: GKI's definitions stay, missing ones are added.   *)
MergeBinding(path) ==
    IF MergeRefused(tree[path], src[path])
    THEN Refuse /\ UNCHANGED <<tree, walk>>
    ELSE LET text == Merged(tree[path], src[path])
         IN /\ tree' = [tree EXCEPT ![path] = text]
            /\ walk' = [walk EXCEPT !.angle = @ \ {path},
                                    !.staged = IF text = tree[path] THEN @
                                               ELSE @ \cup {path}]
            /\ UNCHANGED job

(* The next binding header, in some fixed order (the code sorts names).    *)
NextBinding == CHOOSE path \in walk.angle : TRUE

Binding ==
    /\ At("binding")
    /\ walk.angle # {}
    /\ LET path == NextBinding
       IN \/ path \in DOMAIN src \cap DOMAIN tree /\ MergeBinding(path)
          \/ /\ path \in DOMAIN src \ DOMAIN tree
             /\ tree' = Put(tree, path, src[path])
             /\ walk' = [walk EXCEPT !.angle = @ \ {path}, !.staged = @ \cup {path}]
             /\ UNCHANGED job
          \/ /\ path \notin DOMAIN src
             /\ walk' = [walk EXCEPT !.angle = @ \ {path},
                                     !.lost = @ \cup ({path} \ DOMAIN tree)]
             /\ UNCHANGED <<tree, job>>
    /\ UNCHANGED <<intent, StageVars>>

BindingsDone ==
    /\ At("binding")
    /\ walk.angle = {}
    /\ Advance
    /\ UNCHANGED <<tree, intent, walk, StageVars>>

(***************************************************************************)
(* Script 66: the headers GKI lacks, and through them the ones they need.  *)
(***************************************************************************)
SeedHeaders ==
    /\ At("seed_headers")
    /\ walk' = [NoWalk EXCEPT !.queue =
                    UNION {Named(tree[Sources66[i]], "system") : i \in DOMAIN Sources66}]
    /\ Advance
    /\ UNCHANGED <<tree, intent, StageVars>>

Header ==
    /\ At("header")
    /\ \E path \in walk.queue :
       LET next == [walk EXCEPT !.queue = @ \ {path}, !.seen = @ \cup {path}]
       IN \/ /\ path \in walk.seen \cup DOMAIN tree
             /\ walk' = next
             /\ UNCHANGED tree
          \/ /\ path \notin walk.seen \cup DOMAIN tree \cup DOMAIN src
             /\ walk' = [next EXCEPT !.lost = @ \cup {path}]
             /\ UNCHANGED tree
          \/ /\ path \in DOMAIN src \ (walk.seen \cup DOMAIN tree)
             /\ tree' = Put(tree, path, Stripped(src[path]))
             /\ walk' = [next EXCEPT !.queue = @ \cup Named(src[path], "system"),
                                     !.staged = @ \cup {path}]
    /\ UNCHANGED <<intent, job, StageVars>>

HeadersDone ==
    /\ At("header")
    /\ walk.queue = {}
    /\ Advance
    /\ UNCHANGED <<tree, intent, walk, StageVars>>

(***************************************************************************)
(* The index, the patch, the checks.                                       *)
(***************************************************************************)
AddIntent ==
    /\ At("intent") \/ At("intent_walked")
    /\ LET paths == Now.files \cup (IF Now.op = "intent" THEN {} ELSE walk.staged)
       IN IF paths \subseteq DOMAIN tree
          THEN intent' = intent \cup paths /\ Advance
          ELSE Refuse /\ UNCHANGED intent
    /\ UNCHANGED <<tree, walk, StageVars>>

WriteDiff ==
    /\ At("diff")
    /\ LET diff == Difference(IF Now.only = {} THEN Tracked ELSE Tracked \cap Now.only)
       IN IF diff = <<>> /\ ~Now.mayBeEmpty
          THEN Refuse /\ UNCHANGED patch
          ELSE patch' = diff /\ Advance
    /\ UNCHANGED <<src, tree, intent, walk, missing, status, report, passes,
                   strays, torn>>

(* normalize_modified_text: one of the changed tracked files after another *)
Untidy == {p \in Changed(tree) \cap Tracked : Has(tree[p], Whitespace)}

NextUntidy == CHOOSE path \in Untidy : TRUE

Normalize ==
    /\ At("normalize")
    /\ IF Untidy = {} THEN Advance /\ UNCHANGED tree
       ELSE /\ tree' = [tree EXCEPT ![NextUntidy] = Stripped(@)]
            /\ UNCHANGED job
    /\ UNCHANGED <<intent, walk, StageVars>>

CheckWhitespace ==
    /\ At("check")
    /\ IF Untidy = {} THEN Advance ELSE Refuse
    /\ UNCHANGED <<tree, intent, walk, StageVars>>

(* probe-plan.tsv: which probes lack a source in the staged tree.          *)
SourceOf(probe) ==
    IF probe = "sm6350-provider" THEN "interconnect/sm6350.c" ELSE probe

PlanProbes ==
    /\ At("plan")
    /\ missing' = {probe \in Now.probes : SourceOf(probe) \notin DOMAIN tree}
    /\ Advance
    /\ UNCHANGED <<src, tree, intent, walk, patch, status, report, passes,
                   strays, torn>>

(* Script 62 wants every required symbol resolved to y.                    *)
AuditConfig ==
    /\ At("audit")
    /\ Advance \/ job' = [job EXCEPT !.phase = "rejected"]
    /\ UNCHANGED <<tree, intent, walk, StageVars>>

Stage ==
    \/ NeedDownstream \/ NeedFile \/ CopyFile \/ AdaptFile \/ WriteFile \/ EditFile
    \/ SeedRoot \/ LocalInclude \/ LocalsDone \/ Binding \/ BindingsDone
    \/ SeedHeaders \/ Header \/ HeadersDone
    \/ AddIntent \/ WriteDiff \/ Normalize \/ CheckWhitespace
    \/ PlanProbes \/ AuditConfig

(***************************************************************************)
(* The workflow's shell: a status file with one row for each probe, then   *)
(* the report counted from it, then the checks of the last step.  Scripts  *)
(* 66 and 67 have one probe, whose status is written whole when it ends.   *)
(***************************************************************************)
Probes == Finalize[job.w].probes
Kinds == Finalize[job.w].counts
Whole == {"w66", "w67"}

Phase(to) == job' = [job EXCEPT !.phase = to, !.step = 1]
ShellVars == <<src, tree, intent, walk, patch, missing, passes, strays, torn>>

(* Mutant: the status file is appended to, not begun anew.                 *)
OpenStatusAppending ==
    /\ job.phase = "compile" /\ job.w \notin Whole
    /\ Phase("probes")
    /\ UNCHANGED <<status, report, ShellVars>>

OpenStatus ==
    /\ job.phase = "compile" /\ job.w \notin Whole
    /\ status' = <<>>
    /\ Phase("probes")
    /\ UNCHANGED <<report, ShellVars>>

RunProbe ==
    /\ job.phase = "probes"
    /\ \E result \in Results(job.w, Probes[job.step], missing) :
           status' = Append(status, <<Probes[job.step], result>>)
    /\ IF job.step < Len(Probes) THEN job' = [job EXCEPT !.step = @ + 1]
       ELSE Phase("finalize")
    /\ UNCHANGED <<report, ShellVars>>

RunWhole ==
    /\ job.phase = "compile" /\ job.w \in Whole
    /\ \E result \in Results(job.w, Probes[1], missing) :
           status' = <<<<Probes[1], result>>>>
    /\ Phase("finalize")
    /\ UNCHANGED <<report, ShellVars>>

(* make olddefconfig fails: the shell stops there (set -e).  Workflow 66   *)
(* goes on, and finalizes if there is a status file.                       *)
ConfigureFails ==
    /\ job.phase \in {"compile", "probes"}
    /\ Phase(IF job.w = "w66" /\ status # <<>> THEN "finalize" ELSE "rejected")
    /\ UNCHANGED <<status, report, ShellVars>>

RowsOf(rows) == {row[1] : row \in ToSet(rows)}

CountsOf(rows) ==
    [kind \in Kinds |-> Cardinality({i \in DOMAIN rows : rows[i][2] = kind})]

Publish ==
    /\ job.phase = "finalize"
    /\ IF RowsOf(status) = ToSet(Probes)
       THEN report' = CountsOf(status) /\ Phase("enforce")
       ELSE Phase("rejected") /\ UNCHANGED report
    /\ UNCHANGED <<status, ShellVars>>

Built == \A i \in DOMAIN status : status[i][2] \in {"built", "compiled"}

Enforce ==
    /\ job.phase = "enforce"
    /\ Phase(IF Len(status) = Len(Probes) /\ (job.w \in MustBuild => Built)
             THEN "done" ELSE "rejected")
    /\ UNCHANGED <<status, report, ShellVars>>

Shell ==
    \/ OpenStatus \/ RunProbe \/ RunWhole \/ ConfigureFails
    \/ Publish \/ Enforce

(***************************************************************************)
(* The job is killed; the file the step was writing may be left empty.     *)
(***************************************************************************)
Ended == {"done", "refused", "rejected", "killed"}
Running == job.phase \notin Ended

BeingWritten ==
    IF job.phase # "stage" THEN {} ELSE
    CASE Now.op = "copy" -> IF Now.file \in DOMAIN src THEN {Now.to} ELSE {}
      [] Now.op = "write" -> {Now.file}
      [] Now.op = "adapt" ->
             IF AdaptRefused(tree[Now.file], Now.how) THEN {} ELSE {Now.file}
      [] Now.op = "edit" ->
             {p \in {Now.file} \cap DOMAIN tree :
                 /\ ~EditsRefused
                 /\ Now.always \/ \E i \in DOMAIN Now.edits : ~Skips(tree[p], Now.edits[i])}
      [] Now.op = "local_include" ->
             {Place56(p) : p \in (walk.queue \cap DOMAIN src) \ walk.seen}
      [] Now.op = "binding" /\ walk.angle # {} ->
             {p \in {NextBinding} \cap DOMAIN src :
                 \/ p \notin DOMAIN tree
                 \/ /\ ~MergeRefused(tree[p], src[p])
                    /\ Merged(tree[p], src[p]) # tree[p]}
      [] Now.op = "header" ->
             (walk.queue \cap DOMAIN src) \ (walk.seen \cup DOMAIN tree)
      [] Now.op = "normalize" /\ Untidy # {} -> {NextUntidy}
      [] OTHER -> {}

Kill ==
    /\ Running
    /\ job' = [job EXCEPT !.phase = "killed"]
    /\ \/ UNCHANGED <<tree, torn>>
       \/ \E path \in BeingWritten :
             tree' = Put(tree, path, <<>>) /\ torn' = torn \cup {path}
    /\ UNCHANGED <<src, intent, walk, patch, missing, status, report, passes, strays>>

(***************************************************************************)
(* The next pass: git reset and clean, as every workflow starts, or in the *)
(* tree as it is.  Strays are the headers that a walk copied and never     *)
(* added to the index, and that no step of the scripts names to it: the    *)
(* next walk takes them for GKI's own.  A header the scripts copy by name  *)
(* is copied again and indexed, wherever the last pass had stopped.        *)
(***************************************************************************)
HeadersNamed ==
    NamedByDriver(src)
    \cup UNION {Named(src[p], "angle") \cup Named(src[p], "system") : p \in DOMAIN src}

Indexes(step) == IF step.op \in {"intent", "intent_walked"} THEN step.files ELSE {}

AllIntent == UNION {Indexes(Steps[i]) : i \in DOMAIN Steps}

NextPass ==
    /\ ~Running /\ passes < MaxPasses
    /\ passes' = passes + 1
    /\ job' = [job EXCEPT !.phase = "stage", !.step = 1]
    /\ walk' = NoWalk
    /\ missing' = {}
    /\ report' = <<>>
    /\ UNCHANGED src

Checkout ==
    /\ NextPass
    /\ tree' = Gki
    /\ intent' = {} /\ strays' = {} /\ torn' = {}
    /\ patch' = <<>> /\ status' = <<>>

Rerun ==
    /\ NextPass
    /\ strays' = HeadersNamed \cap (DOMAIN tree \ (DOMAIN Gki \cup intent \cup AllIntent))
    /\ UNCHANGED <<tree, intent, torn, patch, status>>

Next == Stage \/ Shell \/ Kill \/ Checkout \/ Rerun

Spec == Init /\ [][Next]_vars /\ WF_vars(Stage) /\ WF_vars(Shell)

-----------------------------------------------------------------------------
(***************************************************************************)
(* Properties.                                                             *)
(***************************************************************************)
PortTypeOK ==
    /\ src \in SourceTrees
    /\ job.w \in Workflows
    /\ job.phase \in Ended \cup {"stage", "compile", "probes", "finalize", "enforce"}
    /\ job.step \in 1..Len(Steps) \cup 1..Len(Probes)
    /\ intent \subseteq DOMAIN tree
    /\ DOMAIN Gki \subseteq DOMAIN tree
    /\ passes \in 1..MaxPasses
    /\ torn \subseteq DOMAIN tree

(* A script that was killed, or that finished, can be run again where it   *)
(* stopped: staging gives up only over a downstream tree that lacks a file *)
(* or a shape it needs, or over a file of GKI's, or a stray taken for one  *)
(* of GKI's, that the kill left empty.                                     *)
RefusedOnlyForCause ==
    job.phase = "refused" =>
        src \notin Complete \/ torn \cap (DOMAIN Gki \cup strays) # {}

(* However often staging was interrupted and rerun, each file compiled is  *)
(* what one uninterrupted pass over a clean checkout makes of the same     *)
(* downstream tree: nothing is inserted twice, nothing is left out.  What  *)
(* no rerun repairs is a file of GKI's or a stray that a kill emptied, and *)
(* a header nothing but strays would have brought in.                      *)
Staged == job.phase = "compile"

BeyondRepair ==
    (torn \cap (DOMAIN Gki \cup strays)) \cup (Reach(src, strays, "system", {}) \ strays)

TreeConverges ==
    Staged =>
        \A path \in (DOMAIN tree \cup DOMAIN src) \ BeyondRepair :
            Outcome(Gki, src, job.w, path) =
                IF path \in DOMAIN tree THEN tree[path] ELSE Absent

(* The patch a job publishes is the whole difference from GKI: every file  *)
(* it added is in the index before git diff runs, and nothing changes      *)
(* after.  Lost are only headers an interrupted walk had left behind and   *)
(* that no script names to the index.                                      *)
PatchComplete ==
    Staged => patch = [path \in Changed(tree) \ (strays \ intent) |-> tree[path]]

(* The ports extend GKI: what the GKI tree says in a file stays in it, in  *)
(* its order, but for the anchors that replace_once rewrites, the files    *)
(* of the downstream device tree that take the place of GKI's, and what a  *)
(* kill emptied.                                                           *)
Rewritten == {"match", "implementation", "features", "data", "reset",
              "impl-reset", "aarch64-format"}

Own(text) == SelectSeq(text, LAMBDA part : part[1] \in {"gki", "gki define", "ifndef"}
                                           /\ part[2] \notin Rewritten)

Extends(more, text) ==
    \E at \in [DOMAIN text -> DOMAIN more] :
        /\ \A i \in DOMAIN text : more[at[i]] = text[i]
        /\ \A i, j \in DOMAIN text : i < j => at[i] < at[j]

GkiKept ==
    \A path \in DOMAIN Gki \ (torn \cup Reach(src, {Root}, "local", {})) :
        Extends(tree[path], Own(Gki[path]))

(* The published patch is the port, all of it.                             *)
PatchSound == PortTypeOK /\ PatchComplete

(* What is compiled is the port, over a GKI tree left whole.               *)
Converged == TreeConverges /\ GkiKept

(* The status file a report is made of has one row for each probe of the   *)
(* workflow, in the order the shell runs them, also after a pass that was  *)
(* killed between two probes; and a job that must build an image ends well *)
(* only if all of it was built.                                            *)
OneRowEach ==
    /\ Len(status) = Len(Probes)
    /\ \A i \in 1..Len(status) : status[i][1] = Probes[i]

EveryProbeOnce ==
    /\ job.phase \in {"enforce", "done"} => OneRowEach
    /\ job.phase = "done" /\ job.w \in MustBuild => Built

(* No result escapes the report: the counts add up to the number of        *)
(* probes, and the probes counted as missing their source are those the    *)
(* plan found to lack it in the staged tree.                               *)
CountsAddUp ==
    job.phase \in {"enforce", "done"} =>
        /\ FoldSet(LAMBDA kind, n : report[kind] + n, 0, Kinds) = Len(Probes)
        /\ "source-missing" \in Kinds => report["source-missing"] = Cardinality(missing)

(* Staging ends although device trees and headers include each other in    *)
(* circles, and so does every pass.                                        *)
PassEnds == Running ~> ~Running
=============================================================================
