--------------------------- MODULE RecoveryExporter ---------------------------
(***************************************************************************)
(* The exporters stages 90 and 390 build into the recovery kernel: each    *)
(* copies one reserved DRAM range at pure_initcall, before the recovery's  *)
(* own drivers (ramoops, Samsung sec_log) clear or reuse it, and serves    *)
(* the copy, read-only, through a misc device.  The two have the same      *)
(* control flow over different ranges, so one module models both.          *)
(*                                                                         *)
(* frozen, got and sought are history variables: the ranges as the reset   *)
(* left them, the files whose position lseek has moved, and what every     *)
(* other open file has returned.                                           *)
(***************************************************************************)
EXTENDS Integers, Sequences, SequencesExt

CONSTANTS
  Regions,        (* The reserved ranges, each with its exporter.          *)
  RegionSize,     (* Cells of a range.                                     *)
  Fresh,          (* What the recovery's drivers write into a range.       *)
  InitialDram,    (* What the ranges may hold when the recovery starts.    *)
  Reused,         (* The cells of a range the recovery's drivers reuse.    *)
  Files,          (* Open files of a reader.                               *)
  Seeks,          (* Bounds the model: the positions lseek() is asked for. *)
  MaxCount        (* Bounds the model: the largest count of a read().      *)

ASSUME ExporterAssumption ==
  /\ RegionSize \in Nat \ {0} /\ MaxCount \in Nat \ {0}
  /\ Reused \subseteq 1 .. RegionSize /\ Seeks \subseteq Nat

(* Every range has its cells, and no exporter is called "none".            *)
ASSUME DramAssumption ==
  /\ "none" \notin Regions
  /\ \A d \in InitialDram : d = [r \in Regions |-> [i \in 1 .. RegionSize |-> d[r][i]]]

VARIABLES
  level,          (* The initcall level the recovery kernel has reached.   *)
  dram,           (* The reserved ranges.                                  *)
  snapshot,       (* a52_ramoops_snapshot, a52_samsung_reserved_snapshot.  *)
  error,          (* a52_snapshot_error, a52_samsung_reserved_error.       *)
  node,           (* Regions whose misc device is registered.              *)
  file,           (* The reader's files: range, position, last result.     *)
  frozen, got, sought

exporterVars == <<level, dram, snapshot, error, node, file, frozen, got, sought>>

NoSnapshot == <<>>
Closed == [region |-> "none", pos |-> 0, ret |-> 0]

ExporterInit ==
  /\ level    = "reset"
  /\ dram     \in InitialDram
  /\ snapshot = [r \in Regions |-> NoSnapshot]
  /\ error    = [r \in Regions |-> "ENODATA"]
  /\ node     = {}
  /\ file     = [f \in Files |-> Closed]
  /\ frozen   = dram
  /\ got      = [f \in Files |-> <<>>]
  /\ sought   = {}

(***************************************************************************)
(* pure_initcall: allocate, map, copy.  Each exporter fails by itself, and *)
(* a failure leaves it with no snapshot and an error for open() and read().*)
(***************************************************************************)
Outcomes(r) ==
  { [snap |-> NoSnapshot, err |-> "ENOMEM"],
    [snap |-> NoSnapshot, err |-> "EIO"],
    [snap |-> dram[r],    err |-> "OK"] }

(* Mutant of SnapshotInit: it runs with the drivers, not before them.      *)
SnapshotInitLate ==
  /\ level \in {"reset", "core"}
  /\ level' = IF level = "reset" THEN "pure" ELSE level
  /\ level = "core" => \A r \in Regions : error[r] = "ENODATA"
  /\ IF level = "reset" THEN UNCHANGED <<snapshot, error>>
     ELSE snapshot' = dram /\ error' = [r \in Regions |-> "OK"]
  /\ UNCHANGED <<dram, node, file, frozen, got, sought>>

SnapshotInit ==
  /\ level = "reset"
  /\ level' = "pure"
  /\ \E o \in [Regions -> UNION {Outcomes(r) : r \in Regions}] :
       /\ \A r \in Regions : o[r] \in Outcomes(r)
       /\ snapshot' = [r \in Regions |-> o[r].snap]
       /\ error'    = [r \in Regions |-> o[r].err]
  /\ UNCHANGED <<dram, node, file, frozen, got, sought>>

(* From the postcore and core levels on the ranges belong to the drivers.  *)
DriversStart ==
  /\ level = "pure"
  /\ level' = "core"
  /\ UNCHANGED <<dram, snapshot, error, node, file, frozen, got, sought>>

DriverWrites ==
  /\ level \in {"core", "device"}
  /\ \E r \in Regions, i \in Reused :
       dram' = [dram EXCEPT ![r][i] = Fresh]
  /\ UNCHANGED <<level, snapshot, error, node, file, frozen, got, sought>>

(* device_initcall: misc_register(), which may fail.                       *)
DeviceInit ==
  /\ level = "core"
  /\ level' = "device"
  /\ node' \in SUBSET Regions
  /\ UNCHANGED <<dram, snapshot, error, file, frozen, got, sought>>

(***************************************************************************)
(* The file operations.  A caller without CAP_SYS_RAWIO or CAP_SYS_ADMIN   *)
(* gets -EPERM and no file, and open() fails with the snapshot's error.    *)
(***************************************************************************)
Open(f, r, capable) ==
  /\ r \in node /\ file[f] = Closed
  /\ capable /\ error[r] = "OK"
  /\ file' = [file EXCEPT ![f] = [region |-> r, pos |-> 0, ret |-> -1]]
  /\ UNCHANGED <<level, dram, snapshot, error, node, frozen, got, sought>>

Close(f) ==
  /\ file[f] # Closed
  /\ file'   = [file EXCEPT ![f] = Closed]
  /\ got'    = [got EXCEPT ![f] = <<>>]
  /\ sought' = sought \ {f}
  /\ UNCHANGED <<level, dram, snapshot, error, node, frozen>>

(* default_llseek(): any position that is not negative, the end included.  *)
Seek(f, pos) ==
  /\ file[f] # Closed
  /\ file'   = [file EXCEPT ![f].pos = pos]
  /\ sought' = sought \cup {f}
  /\ got'    = [got EXCEPT ![f] = <<>>]
  /\ UNCHANGED <<level, dram, snapshot, error, node, frozen>>

Min2(a, b) == IF a < b THEN a ELSE b

Clamped(f, count) == Min2(count, RegionSize - file[f].pos)

ReadCopies(f, count) ==
  /\ file[f] # Closed /\ snapshot[file[f].region] # NoSnapshot
  /\ file[f].pos < RegionSize
  /\ LET n    == Clamped(f, count)
         pos  == file[f].pos
         data == SubSeq(snapshot[file[f].region], pos + 1, pos + n)
     IN /\ file' = [file EXCEPT ![f].pos = pos + n, ![f].ret = n]
        /\ got'  = IF f \in sought THEN got ELSE [got EXCEPT ![f] = @ \o data]
  /\ UNCHANGED <<level, dram, snapshot, error, node, frozen, sought>>

(* Mutant of ReadFaults: the position moves although nothing was copied,   *)
(* by the count asked for.                                                 *)
ReadFaultsAdvancing(f) ==
  /\ file[f] # Closed /\ snapshot[file[f].region] # NoSnapshot
  /\ file[f].pos < RegionSize
  /\ file' = [file EXCEPT ![f].pos = @ + MaxCount, ![f].ret = -1]
  /\ UNCHANGED <<level, dram, snapshot, error, node, frozen, got, sought>>

(* copy_to_user() faults: -EFAULT, and the position stays where it was.    *)
ReadFaults(f) ==
  /\ file[f] # Closed /\ snapshot[file[f].region] # NoSnapshot
  /\ file[f].pos < RegionSize
  /\ file' = [file EXCEPT ![f].ret = -1]
  /\ UNCHANGED <<level, dram, snapshot, error, node, frozen, got, sought>>

ReadEnds(f) ==
  /\ file[f] # Closed /\ snapshot[file[f].region] # NoSnapshot
  /\ file[f].pos >= RegionSize
  /\ file' = [file EXCEPT ![f].ret = 0]
  /\ UNCHANGED <<level, dram, snapshot, error, node, frozen, got, sought>>

(* Mutant of ReadSome: a read that would be short fails.                   *)
ReadSomeWhole(f) ==
  \E count \in {MaxCount} : file[f].pos + count <= RegionSize /\ ReadCopies(f, count)

ReadSome(f) == \E count \in 1 .. MaxCount : ReadCopies(f, count)

ExporterNext ==
  \/ SnapshotInit \/ DriversStart \/ DriverWrites \/ DeviceInit
  \/ \E f \in Files :
       \/ \E r \in Regions, capable \in BOOLEAN : Open(f, r, capable)
       \/ Close(f)
       \/ \E pos \in Seeks : Seek(f, pos)
       \/ ReadSome(f) \/ ReadFaults(f) \/ ReadEnds(f)

(* A reader that keeps calling read(); faults may come between.            *)
FairReader == \A f \in Files : WF_exporterVars(ReadSome(f))

ExporterSpec == ExporterInit /\ [][ExporterNext]_exporterVars

FairExporterSpec == ExporterSpec /\ FairReader

-------------------------------------------------------------------------------
(* The types of the exporter's state.                                      *)
ExporterTypeOK ==
  /\ level \in {"reset", "pure", "core", "device"}
  /\ \A r \in Regions : DOMAIN dram[r] = 1 .. RegionSize
  /\ \A r \in Regions : snapshot[r] # NoSnapshot => DOMAIN snapshot[r] = 1 .. RegionSize
  /\ error \in [Regions -> {"ENODATA", "ENOMEM", "EIO", "OK"}]
  /\ node \subseteq Regions
  /\ \A f \in Files : file[f].region \in Regions \cup {"none"}
  /\ \A f \in Files : file[f].pos \in (0 .. RegionSize) \cup Seeks

(* A file can be open only over a snapshot, and a snapshot that exists is  *)
(* the range as the reset left it, whatever the drivers do to the range.   *)
SnapshotFrozen ==
  /\ \A f \in Files : file[f] # Closed => snapshot[file[f].region] # NoSnapshot
  /\ \A r \in Regions : snapshot[r] # NoSnapshot => snapshot[r] = frozen[r]

(* A reader that only reads has, after any mix of short reads and faults,  *)
(* exactly the frozen bytes up to its position, no gap, nothing twice, and *)
(* read() returns 0 to it only when that is the whole range.               *)
ReadsContiguous ==
  \A f \in Files \ sought :
    file[f] # Closed =>
      /\ got[f] = SubSeq(frozen[file[f].region], 1, file[f].pos)
      /\ file[f].ret = 0 => got[f] = frozen[file[f].region]

(* What a recovery session serves is the range as the reset left it, whole *)
(* and unshifted, over every failure of the exporter and of its readers.   *)
ServedFaithfully == ExporterTypeOK /\ SnapshotFrozen /\ ReadsContiguous

(* A reader that keeps reading an open file gets the whole range, however  *)
(* often copy_to_user() faults, unless it seeks or closes the file.        *)
ReadCompletes ==
  \A f \in Files :
    file[f] # Closed ~> \/ file[f] = Closed \/ f \in sought
                        \/ got[f] = frozen[file[f].region]

==============================================================================
