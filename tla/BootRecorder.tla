----------------------------- MODULE BootRecorder -----------------------------
(***************************************************************************)
(* A diagnostic boot of the GKI kernel: the boot thread runs the           *)
(* instrumented program of BootScript, and its breadcrumbs, the text of    *)
(* the mirrored console and the one-shot first-IRQ line share one          *)
(* persistent zone.  Any statement may hang or panic, and a hard reset     *)
(* (watchdog, power key) may come between any two steps, also in the       *)
(* middle of a write.  The device may then boot this kernel again, which   *)
(* zaps the zone.                                                          *)
(***************************************************************************)
EXTENDS DiagZone, BootScript

CONSTANTS
  FirstIrqTrace,  (* TRUE: stage 91 is applied.                            *)
  MarkCells,      (* Cells of one breadcrumb line.                         *)
  TextCells,      (* Cells of one console text.                            *)
  MaxTexts,       (* Bounds the model: console texts per boot.             *)
  MaxBoots,       (* Bounds the model: boots of the diagnostic kernel.     *)
  FailingBoots    (* Bounds the model: boots whose zone creation may fail. *)

ASSUME RecorderAssumption ==
  /\ MarkCells \in 1 .. MaxLine
  /\ TextCells \in 1 .. MaxLine
  /\ MaxTexts \in Nat /\ MaxBoots \in Nat /\ FailingBoots \subseteq Nat

VARIABLES
  power,          (* "up" while the kernel runs, "off" after the reset;    *)
                  (* CrashDiagnosis adds "recovery".                       *)
  boot,           (* The boot thread: its segment and its place in it.     *)
  console,        (* a52_diag_console is registered.                       *)
  firstIrq,       (* a52_first_irq_recorded.                               *)
  texts,          (* Console texts written in this boot.                   *)
  boots,          (* Boots of the diagnostic kernel so far.                *)
  recent,         (* History: the boot thread's last three claimed lines.  *)
  entered         (* History: the initcall last entered, and whether fn()  *)
                  (* has returned.                                         *)

bootVars == <<power, boot, console, firstIrq, texts, boots, recent, entered>>
vars == <<zoneVars, bootVars>>

TextLine(k) == Line("TEXT", k, 1)
IrqLine == Line("IRQ", "first", 1)

(* Every line a boot can write.                                            *)
ScriptOps   == UNION {ToSet(Program[s]) : s \in Segments}
ScriptLines == {op.line : op \in {o \in ScriptOps : o.op = "mark"}}
AllLines == ScriptLines \cup {TextLine(k) : k \in 1 .. MaxTexts} \cup {IrqLine}

ASSUME LinesAssumption == AllLines \subseteq Lines

At(seg, pc) == [seg |-> seg, pc |-> pc]
OpAt(place) == Program[place.seg][place.pc]
Op == OpAt(boot)
NextOp == [boot EXCEPT !.pc = @ + 1]

(* The boot thread runs and its next operation is of this kind.            *)
Running == power = "up"
Ready(kind) == Running /\ boot.pc \in DOMAIN Program[boot.seg] /\ Op.op = kind

InitcallRuns == {Run(f) : f \in InitcallNames}

(* The offset is that of the breadcrumb written last before the initcall.  *)
NoCall == [f |-> "none", off |-> 0, returned |-> TRUE]
Entered(f, off) == [f |-> f, off |-> off, returned |-> FALSE]

BootInit ==
  /\ ZoneInit
  /\ power    = "up"
  /\ boot     = At("freeable", 1)
  /\ console  = FALSE
  /\ firstIrq = FALSE
  /\ texts    = 0
  /\ boots    = 1
  /\ recent   = <<>>
  /\ entered  = NoCall

(***************************************************************************)
(* The boot thread.                                                        *)
(***************************************************************************)
(* persistent_ram_new succeeded: a52_diag_prz is set, the old log erased.  *)
CreateZone ==
  /\ Ready("create")
  /\ Zap
  /\ boot' = NextOp
  /\ UNCHANGED <<power, console, firstIrq, texts, boots, recent, entered>>

(* It failed: a52_diag_prz goes back to NULL and a52_persistent_diag_init  *)
(* returns before READY, register_console and CONSOLE.                     *)
CreateFails ==
  /\ Ready("create") /\ boots \in FailingBoots
  /\ boot' = [boot EXCEPT !.pc = @ + 4]
  /\ UNCHANGED <<zoneVars, power, console, firstIrq, texts, boots, recent, entered>>

(* register_console() may select the console or reject it; a selected one  *)
(* is handed the printk backlog, as any other text.                        *)
RegisterConsole ==
  /\ Ready("register") /\ ~Busy("boot")
  /\ console' \in BOOLEAN
  /\ boot' = NextOp
  /\ UNCHANGED <<zoneVars, power, firstIrq, texts, boots, recent, entered>>

(* a52_persistent_diag_mark() with no zone returns at once.                *)
MarkDropped ==
  /\ Ready("mark") /\ ~live
  /\ boot' = NextOp
  /\ UNCHANGED <<zoneVars, power, console, firstIrq, texts, boots, recent, entered>>

(* Mutant of MarkBegins: it waits for the console's write to end.          *)
MarkBeginsExclusive ==
  /\ Ready("mark") /\ ~Busy("console")
  /\ Announce("boot", Op.line, MarkCells)
  /\ UNCHANGED bootVars

(* Otherwise it formats the line and writes it; it returns, and the boot   *)
(* thread goes on, when the last cell has been stored.                     *)
MarkBegins ==
  /\ Ready("mark")
  /\ Announce("boot", Op.line, MarkCells)
  /\ UNCHANGED bootVars

MarkClaims ==
  /\ Claim("boot")
  /\ recent' = LET r == Append(recent, [line |-> w["boot"].line, off |-> total])
               IN  IF Len(r) > 3 THEN Tail(r) ELSE r
  /\ UNCHANGED <<power, boot, console, firstIrq, texts, boots, entered>>

MarkStores ==
  /\ StoreCell("boot")
  /\ boot' = IF w'["boot"] = Idle THEN NextOp ELSE boot
  /\ entered' = IF boot' # boot /\ OpAt(boot') \in InitcallRuns
                THEN Entered(OpAt(boot').f, w["boot"].off) ELSE entered
  /\ UNCHANGED <<power, console, firstIrq, texts, boots, recent>>

(* A statement of the kernel returns ...                                   *)
StatementReturns ==
  /\ Ready("run")
  /\ boot' = NextOp
  /\ entered' = [entered EXCEPT !.returned = TRUE]
  /\ UNCHANGED <<zoneVars, power, console, firstIrq, texts, boots, recent>>

(* ... or panics; panic() never returns to it.                             *)
StatementPanics ==
  /\ Ready("run")
  /\ boot' = At("panic", 1)
  /\ UNCHANGED <<zoneVars, power, console, firstIrq, texts, boots, recent, entered>>

TakeBranch ==
  /\ Ready("goto")
  /\ \E s \in Segments : s \in Op.to /\ boot' = At(s, 1)
  /\ UNCHANGED <<zoneVars, power, console, firstIrq, texts, boots, recent, entered>>

(***************************************************************************)
(* The other contexts.                                                     *)
(***************************************************************************)
(* a52_diag_console_write(), by whoever holds the console lock.            *)
ConsoleBegins ==
  /\ Running /\ console /\ texts < MaxTexts
  /\ Announce("console", TextLine(texts + 1), TextCells)
  /\ texts' = texts + 1
  /\ UNCHANGED <<power, boot, console, firstIrq, boots, recent, entered>>

ConsoleWrites ==
  /\ Claim("console") \/ StoreCell("console")
  /\ UNCHANGED bootVars

(* The first accepted IRQ, whichever CPU takes it: atomic_cmpxchg lets one *)
(* through.  With no zone yet the flag is spent and the line is dropped.   *)
FirstIrq ==
  /\ Running /\ FirstIrqTrace /\ ~firstIrq
  /\ firstIrq' = TRUE
  /\ IF live THEN Announce("irq", IrqLine, MarkCells) ELSE UNCHANGED zoneVars
  /\ UNCHANGED <<power, boot, console, texts, boots, recent, entered>>

IrqWrites ==
  /\ Claim("irq") \/ StoreCell("irq")
  /\ UNCHANGED bootVars

(***************************************************************************)
(* Reset and the next boot of the same kernel.                             *)
(***************************************************************************)
(* Mutant of Reset: the ring does not outlive it.                          *)
ResetErases ==
  /\ Running
  /\ power' = "off"
  /\ live' = FALSE /\ zone' = ZappedZone
  /\ UNCHANGED <<w, total, late, boot, console, firstIrq, texts, boots, recent, entered>>

Reset ==
  /\ Running
  /\ power' = "off"
  /\ IF live THEN HardReset ELSE UNCHANGED zoneVars
  /\ UNCHANGED <<boot, console, firstIrq, texts, boots, recent, entered>>

BootAgain ==
  /\ power = "off" /\ boots < MaxBoots
  /\ power'    = "up"
  /\ boots'    = boots + 1
  /\ boot'     = At("freeable", 1)
  /\ console'  = FALSE
  /\ firstIrq' = FALSE
  /\ texts'    = 0
  /\ recent'   = <<>>
  /\ entered'  = NoCall
  /\ UNCHANGED zoneVars

BootThread ==
  \/ CreateZone \/ CreateFails \/ RegisterConsole
  \/ MarkDropped \/ MarkBegins \/ MarkClaims \/ MarkStores
  \/ StatementReturns \/ StatementPanics \/ TakeBranch

Next ==
  \/ BootThread
  \/ ConsoleBegins \/ ConsoleWrites
  \/ FirstIrq \/ IrqWrites
  \/ Reset \/ BootAgain

Spec == BootInit /\ [][Next]_vars

-------------------------------------------------------------------------------
(***************************************************************************)
(* What a reader of the recovered log sees.                                *)
(***************************************************************************)
IntactAt(log, i) ==
  LET c == log[i] IN
    /\ c # Stale
    /\ c.part = 1 /\ i + c.n - 1 \in DOMAIN log
    /\ \A k \in 0 .. c.n - 1 : log[i + k] = Cell(c.off + k, c.line, k + 1, c.n)

LineSlots(z, i, n) == {LogSlot(z, i + k) : k \in 0 .. n - 1}

InitcallMarks(z, torn) ==
  LET log == OldLog(z) IN
  {i \in DOMAIN log :
     /\ IntactAt(log, i)
     /\ log[i].line.tag \in {"BEGIN", "END"}
     /\ LineSlots(z, i, log[i].n) \cap torn = {}}

NoLine == Line("none", "none", 0)

(* The initcall breadcrumb nearest the end of the log, torn slots ignored. *)
LastInitcallMark(z, torn) ==
  LET marks == InitcallMarks(z, torn)
  IN  IF marks = {} THEN NoLine
      ELSE OldLog(z)[CHOOSE i \in marks : \A j \in marks : j <= i].line

(* This boot has written to the zone, so the ring speaks of this boot.     *)
ZoneIsOurs == recent # <<>>

(* While an initcall runs, and after a reset or panic inside it, the last  *)
(* breadcrumb names it, provided the slots a write was tearing are left    *)
(* out, its BEGIN line has not been lapped and nobody stored late.         *)
RunningInitcallNamed ==
  (ZoneIsOurs /\ ~entered.returned /\ ~Overtaken(entered.off) /\ late = {})
    => LastInitcallMark(zone, Torn) = Line("BEGIN", entered.f, 1)

(* Conversely a log whose last breadcrumb is BEGIN f is of a boot that was *)
(* inside f, or whose END line for f was not yet complete.                 *)
NamedInitcallWasRunning ==
  LET last == LastInitcallMark(zone, Torn) IN
    (ZoneIsOurs /\ late = {} /\ last.tag = "BEGIN")
      => /\ entered.f = last.of
         /\ ~entered.returned \/ Op = Mark(Line("END", last.of, 1))

(* What a reader may conclude from the log, either way: it names the       *)
(* initcall the boot is inside, and names no other.                        *)
LogNamesInitcall == RunningInitcallNamed /\ NamedInitcallWasRunning

(* Workflow 82's reading of the log: the last marker, whatever else was    *)
(* written, identifies the initcall that blocks or crashes.  The case of a *)
(* writer overtaken by a whole lap is granted to it.                       *)
LastMarkerIdentifiesInitcall ==
  (ZoneIsOurs /\ ~entered.returned /\ late = {})
    => LastInitcallMark(zone, {}) = Line("BEGIN", entered.f, 1)

(***************************************************************************)
(* Triple redundancy: once the boot thread has gone past a triplet, some   *)
(* copy of it is intact until the ring laps it, even when one or two slots *)
(* were spoilt by an overtaken writer.                                     *)
(***************************************************************************)
CopyIntact(r) ==
  \A k \in 0 .. MarkCells - 1 :
    LET s == (r.off + k) % ZoneSize
    IN  zone.data[s] = Cell(r.off + k, r.line, k + 1, MarkCells)

SameNews(a, b) == a.tag = b.tag /\ a.of = b.of

TripletTags == {"before", "after", "failed", "exec_begin", "exec_returned",
                "GROUP", "ENTRY", "FINAL", "irq_off", "reason"}

LatestCopies ==
  {i \in DOMAIN recent : SameNews(recent[i].line, recent[Len(recent)].line)}

TripletBehind ==
  LET last == recent[Len(recent)] IN
    /\ recent # <<>> /\ last.line.tag \in TripletTags
    /\ ~Busy("boot") /\ ~(Op.op = "mark" /\ SameNews(Op.line, last.line))
    /\ \A i \in LatestCopies : ~Overtaken(recent[i].off)
    /\ Cardinality(late) <= 2

TripletSurvives == TripletBehind => \E i \in LatestCopies : CopyIntact(recent[i])

(* A breadcrumb never blocks the boot: while its own statements end, the   *)
(* boot thread reaches user mode or panics, wherever the console and the   *)
(* interrupt writers are stopped inside their own writes.                  *)
BootNeverBlocked == <>(power = "off" \/ boot.seg \in {"user", "panic"})

==============================================================================
