------------------------------- MODULE DiagZone -------------------------------
(***************************************************************************)
(* The writers of the persistent diagnostic zone.  a52_persistent_diag_mark *)
(* and a52_diag_console_write both hand one line to persistent_ram_write,  *)
(* from contexts that do not exclude one another: the boot thread, the     *)
(* holder of the console lock and the one-shot first-IRQ hook.  A hard     *)
(* reset may fall between any two steps.                                   *)
(*                                                                         *)
(* total and late are history variables: total numbers the cells claimed   *)
(* since the zone was created, and late holds the slots into which a       *)
(* writer that was overtaken by a whole lap of the ring stored old bytes.  *)
(***************************************************************************)
EXTENDS PersistentRam, FiniteSets

CONSTANTS
  Lines,          (* What a line says.                                     *)
  MaxLine,        (* Cells of the longest line; a line is 1 .. MaxLine.    *)
  MaxTotal        (* Bounds the model: cells claimed in one boot.          *)

ASSUME LineAssumption == MaxLine \in 1 .. ZoneSize /\ MaxTotal \in Nat

VARIABLES
  live,           (* The kernel is up and a52_diag_prz points at the zone. *)
  zone,           (* The ring in DRAM: header and cells.                   *)
  w,              (* Per context, the persistent_ram_write in progress.    *)
  total,          (* History: cells claimed since the zone was created.    *)
  late            (* History: slots last stored by an overtaken writer.    *)

zoneVars == <<live, zone, w, total, late>>

(* The contexts of stages 82 and 91, and a bound on how many write at once:*)
(* the mirrors of stages 93 and 94 run on any CPU, and the marks of a UFS  *)
(* probe, its scan and its delayed work on workqueues.                     *)
Writers == {"boot", "console", "irq"}

(* off numbers the claimed cells; pos is the slot the next cell goes to.   *)
Idle == [st |-> "idle"]
Sized(line, n) == [st |-> "sized", line |-> line, n |-> n]
Copying(line, n, off, pos, done) ==
  [st |-> "copying", line |-> line, n |-> n, off |-> off, pos |-> pos,
   done |-> done]

Cell(off, line, part, n) == [off |-> off, line |-> line, part |-> part, n |-> n]

Busy(x) == w[x].st # "idle"

ZoneInit ==
  /\ live  = FALSE
  /\ zone  = ZappedZone
  /\ w     = [x \in Writers |-> Idle]
  /\ total = 0
  /\ late  = {}

(***************************************************************************)
(* The steps of one write: the size, the start, then the bytes.            *)
(***************************************************************************)
Announce(x, line, n) ==
  /\ live
  /\ ~Busy(x)
  /\ total + n <= MaxTotal
  /\ zone' = SizeAdd(zone, n)
  /\ w' = [w EXCEPT ![x] = Sized(line, n)]
  /\ UNCHANGED <<live, total, late>>

(* Mutant of Claim: the bytes go to where start is after the advance.      *)
ClaimAfterAdvance(x) ==
  /\ live
  /\ w[x].st = "sized"
  /\ zone' = StartAdd(zone, w[x].n)
  /\ w' = [w EXCEPT ![x] = Copying(w[x].line, w[x].n, total, zone'.start, 0)]
  /\ total' = total + w[x].n
  /\ UNCHANGED <<live, late>>

(* Mutant of Claim: start is read but not advanced before the copy.        *)
ClaimUnadvanced(x) ==
  /\ live
  /\ w[x].st = "sized"
  /\ w' = [w EXCEPT ![x] = Copying(w[x].line, w[x].n, total, zone.start, 0)]
  /\ total' = total + w[x].n
  /\ UNCHANGED <<live, zone, late>>

Claim(x) ==
  /\ live
  /\ w[x].st = "sized"
  /\ LET n == w[x].n IN
       /\ zone' = StartAdd(zone, n)
       /\ w' = [w EXCEPT ![x] = Copying(w[x].line, n, total, zone.start, 0)]
       /\ total' = total + n
  /\ UNCHANGED <<live, late>>

(* The slot of this cell has been claimed again since it was claimed.      *)
Overtaken(off) == off + ZoneSize < total

StoreCell(x) ==
  /\ live
  /\ w[x].st = "copying"
  /\ LET c   == w[x]
         off == c.off + c.done
     IN /\ zone' = Store(zone, c.pos, Cell(off, c.line, c.done + 1, c.n))
        /\ late' = IF Overtaken(off) THEN late \cup {c.pos}
                                            ELSE late \ {c.pos}
        /\ w' = [w EXCEPT ![x] =
                   IF c.done + 1 = c.n THEN Idle
                   ELSE [c EXCEPT !.done = @ + 1, !.pos = Advance(@, 1)]]
  /\ UNCHANGED <<live, total>>

(* Mutant of Zap: PRZ_FLAG_ZAP_OLD is missing, the old log is kept.        *)
ZapNothing ==
  /\ ~live
  /\ live'  = TRUE
  /\ w'     = [x \in Writers |-> Idle]
  /\ total' = 0
  /\ late'  = {}
  /\ UNCHANGED zone

(***************************************************************************)
(* persistent_ram_new in the next boot of this kernel: PRZ_FLAG_ZAP_OLD    *)
(* erases the log.  HardReset may come at any moment; it leaves the ring,  *)
(* and w then says what the writers had left unfinished.                   *)
(***************************************************************************)
Zap ==
  /\ ~live
  /\ live'  = TRUE
  /\ zone'  = ZappedZone
  /\ w'     = [x \in Writers |-> Idle]
  /\ total' = 0
  /\ late'  = {}

HardReset ==
  /\ live
  /\ live' = FALSE
  /\ UNCHANGED <<zone, w, total, late>>

WriterStep(x) ==
  \/ \E line \in Lines, n \in 1 .. MaxLine : Announce(x, line, n)
  \/ Claim(x)
  \/ StoreCell(x)

ZoneNext ==
  \/ \E x \in Writers : WriterStep(x)
  \/ Zap
  \/ HardReset

ZoneSpec == ZoneInit /\ [][ZoneNext]_zoneVars

-------------------------------------------------------------------------------
(* A writer that still has n cells to store stores them from pos onwards.  *)
Left(x) == w[x].n - w[x].done
InFlight(x) ==
  IF w[x].st = "copying" THEN {Advance(w[x].pos, k) : k \in 0 .. Left(x) - 1} ELSE {}

(* Of those, the slots nobody has claimed since: what a reset would tear.  *)
TornBy(x) ==
  IF w[x].st = "copying"
  THEN {Advance(w[x].pos, k) : k \in
          {j \in 0 .. Left(x) - 1 : ~Overtaken(w[x].off + w[x].done + j)}}
  ELSE {}

Torn == UNION {TornBy(x) : x \in Writers}

(* Cells announced in the header's size but not yet in its start.          *)
Pending(x) == IF w[x].st = "sized" THEN w[x].n ELSE 0

Announced == Pending("boot") + Pending("console") + Pending("irq")

Cells == [off : Nat, line : Lines, part : 1 .. MaxLine, n : 1 .. MaxLine]

ASSUME StaleAssumption == Stale \notin Cells

WriterStates ==
  {Idle}
  \cup [st : {"sized"}, line : Lines, n : 1 .. MaxLine]
  \cup [st : {"copying"}, line : Lines, n : 1 .. MaxLine, off : Nat,
        pos : Slots, done : 0 .. MaxLine - 1]

(* The type of the zone, of the writers and of the history variables.      *)
ZoneTypeOK ==
  /\ live \in BOOLEAN
  /\ zone \in [start : Slots, size : 0 .. ZoneSize, data : [Slots -> Cells \cup {Stale}]]
  /\ w \in [Writers -> WriterStates]
  /\ \A x \in Writers : w[x].st = "copying" => w[x].done < w[x].n
  /\ total \in Nat
  /\ late \subseteq Slots

(* Whenever the reset falls, the next boot finds a zone of the right form, *)
(* and a header it accepts, so that the whole log is never thrown away.    *)
HeaderSurvives == ZoneTypeOK /\ ValidHeader(zone)

(* Why: until the ring is full, size runs ahead of start by exactly what   *)
(* the writers have announced and not yet claimed.                         *)
HeaderAccounts == zone.size < ZoneSize => zone.size = zone.start + Announced

(* The newest cell claimed for slot s, when one was claimed.               *)
LastClaimed(s) == CHOOSE o \in 0 .. total - 1 :
                    o % ZoneSize = s /\ o + ZoneSize >= total

(* At any instant the ring holds, in every slot that was claimed, the cell *)
(* claimed there last, except where a write is in flight and where a       *)
(* writer overtaken by a whole lap stored late: a reset tears nothing else.*)
TornOnlyInFlight ==
  \A s \in Slots :
    \/ s >= total
    \/ s \in late
    \/ s \in Torn
    \/ zone.data[s] # Stale /\ zone.data[s].off = LastClaimed(s)

(* Two writes in flight never share a slot unless one of them has been     *)
(* overtaken by a whole lap of the ring since it was claimed.              *)
ClaimsDisjoint ==
  \A x, y \in Writers :
    x # y /\ InFlight(x) \cap InFlight(y) # {} =>
      \E z \in {x, y} : total - (w[z].off + w[z].done) > ZoneSize

(***************************************************************************)
(* DiagZone implements BoundedLog.  What the log keeps is what the next    *)
(* boot would read, in as far as it was not lapped; what a writer owes is  *)
(* what its copy loop has still to store.                                  *)
(***************************************************************************)
OwedBy(x) ==
  IF w[x].st = "copying"
  THEN {Cell(w[x].off + k, w[x].line, k + 1, w[x].n) : k \in w[x].done .. w[x].n - 1}
  ELSE {}

Owed == [x \in Writers |-> OwedBy(x)]

(* The positions of the log at which a cell is read that was not lapped.   *)
ReadAt == {i \in DOMAIN OldLog(zone) :
             OldLog(zone)[i] # Stale /\ ~Overtaken(OldLog(zone)[i].off)}

Kept == {OldLog(zone)[i] : i \in ReadAt}

Log == INSTANCE BoundedLog
  WITH Capacity <- ZoneSize, on <- live, next <- total, owed <- Owed, kept <- Kept

(* The log is read in the order in which its cells were claimed, each at   *)
(* most once, wherever the ring has wrapped and whoever is writing.        *)
ReadInOrder ==
  \A i, j \in ReadAt : i < j => OldLog(zone)[i].off < OldLog(zone)[j].off

(* Whoever marks and whoever reads may think of the zone as that log, read *)
(* in order: interleaved copies, resets and laps show in no other way.     *)
KeepsBoundedLog == Log!LogSpec /\ []ReadInOrder

==============================================================================
