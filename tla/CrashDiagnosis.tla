---------------------------- MODULE CrashDiagnosis ----------------------------
(***************************************************************************)
(* The whole path of a diagnosis: the diagnostic kernel writes its         *)
(* breadcrumbs, a hard reset stops it, the device is started into recovery,*)
(* whose exporter copies the ramoops range before the recovery's own       *)
(* ramoops reuses it, and a reader decodes what the exporter serves.       *)
(* BootRecorder and RecoveryExporter interact through DRAM alone: the      *)
(* range the exporter copies is the ring the recorder left.                *)
(***************************************************************************)
EXTENDS BootRecorder

CONSTANTS Fresh, Reused, Files, Seeks, MaxCount,
          MaxRecoveries  (* Bounds the model: recovery boots in a row.     *)

ASSUME DiagnosisAssumption ==
  /\ MaxCount \in Nat \ {0} /\ Seeks \subseteq Nat
  /\ Reused \subseteq 1 .. ZoneSize + 1

VARIABLES level, dram, snapshot, error, node, file, frozen, got, sought,
          recoveries     (* Recovery boots since the reset.                *)

(* The range as a sequence: the header, then the ring.                     *)
ImageOf(z) == <<[start |-> z.start, size |-> z.size]>>
              \o [i \in 1 .. ZoneSize |-> z.data[i - 1]]

ZoneOf(image) ==
  [start |-> image[1].start, size |-> image[1].size,
   data  |-> [s \in Slots |-> image[s + 2]]]

Blank == [r \in {"ramoops"} |-> ImageOf(ZappedZone)]

Exporter == INSTANCE RecoveryExporter
  WITH Regions <- {"ramoops"}, RegionSize <- ZoneSize + 1, InitialDram <- {Blank}

exporterVars == <<level, dram, snapshot, error, node, file, frozen, got, sought>>
allVars == <<vars, exporterVars, recoveries>>

Init == BootInit /\ Exporter!ExporterInit /\ recoveries = 0

(* A recovery boot starts with every initcall ahead of it.                 *)
StartRecovery(image) ==
  /\ power' = "recovery"
  /\ recoveries' = recoveries + 1
  /\ level'    = "reset"
  /\ dram'     = image
  /\ frozen'   = image
  /\ snapshot' = [r \in {"ramoops"} |-> Exporter!NoSnapshot]
  /\ error'    = [r \in {"ramoops"} |-> "ENODATA"]
  /\ node'     = {}
  /\ file'     = [f \in Files |-> Exporter!Closed]
  /\ got'      = [f \in Files |-> <<>>]
  /\ sought'   = {}
  /\ UNCHANGED <<zoneVars, boot, console, firstIrq, texts, boots, recent, entered>>

RecoveryAfterReset ==
  /\ power = "off"
  /\ StartRecovery([r \in {"ramoops"} |-> ImageOf(zone)])

(* Restarting recovery finds what its own drivers made of the range.       *)
RecoveryAgain ==
  /\ power = "recovery" /\ recoveries < MaxRecoveries
  /\ StartRecovery(dram)

ExporterStep ==
  /\ power = "recovery"
  /\ Exporter!ExporterNext
  /\ UNCHANGED <<vars, recoveries>>

DiagnosticBoot == Next /\ UNCHANGED <<exporterVars, recoveries>>

SystemNext ==
  \/ DiagnosticBoot
  \/ RecoveryAfterReset \/ RecoveryAgain
  \/ ExporterStep

SystemSpec == Init /\ [][SystemNext]_allVars

(* Statements that end, by returning or by panicking, and a CPU that keeps *)
(* executing the boot thread; nothing is assumed of the other contexts.    *)
FairSystemSpec == SystemSpec /\ WF_vars(BootThread)

-------------------------------------------------------------------------------
(* Who has the whole range, read in one go from a file.                    *)
HasDump(f) ==
  /\ power = "recovery" /\ file[f] # Exporter!Closed /\ f \notin sought
  /\ file[f].ret = 0

(* End to end: a dump read in the first recovery boot after the reset      *)
(* names the initcall that was running when the reset came (the torn slots *)
(* are those of the writes the reset interrupted).                         *)
DumpNamesInitcall ==
  \A f \in Files :
    (HasDump(f) /\ recoveries = 1 /\ entered # NoCall
       /\ ~entered.returned /\ ~Overtaken(entered.off) /\ late = {})
      => LastInitcallMark(ZoneOf(got[f]), Torn) = Line("BEGIN", entered.f, 1)

(* Conversely an initcall such a dump names is one the boot that was reset *)
(* was inside of, and not one of an earlier boot, provided that the boot   *)
(* got as far as writing to its zone.                                      *)
DumpIsOfLastBoot ==
  \A f \in Files :
    (HasDump(f) /\ recoveries = 1 /\ ZoneIsOurs /\ late = {})
      => LET last == LastInitcallMark(ZoneOf(got[f]), Torn)
         IN  last.tag = "BEGIN" =>
               /\ entered.f = last.of
               /\ ~entered.returned \/ Op = Mark(Line("END", last.of, 1))

(* And such a dump shows where a boot of the flight recorder stood: when   *)
(* the boot thread is past a triplet, a copy of it can be read whole, also *)
(* when one or two slots were spoilt by an overtaken writer.               *)
DumpKeepsTriplet ==
  \A f \in Files :
    (HasDump(f) /\ recoveries = 1 /\ TripletBehind)
      => LET log == OldLog(ZoneOf(got[f]))
         IN  \E i \in LatestCopies, p \in DOMAIN log :
               IntactAt(log, p) /\ log[p].line = recent[i].line /\ log[p].off = recent[i].off

==============================================================================
