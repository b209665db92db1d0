------------------------------ MODULE BootRepack ------------------------------
(***************************************************************************)
(* A boot image's way to the device: script 37 validates the source image, *)
(* script 38 or 76 repacks it with another kernel (76: and DTB), script 39 *)
(* puts the result into an installer package, and the installer writes it  *)
(* to the boot partition.  A repack may be killed while it writes its      *)
(* output, a write to the partition may fail, and the power may go.        *)
(***************************************************************************)
EXTENDS BootImage

CONSTANTS
  Jobs,           (* What is repacked: source, lock, script, kernel, DTB,  *)
                  (* and the parts the source was made of.                 *)
  PartitionBytes, (* The size scripts 39 and the installer insist on.      *)
  Devices,        (* Where the package is run: supported, partition size.  *)
  Chunk,          (* What dd writes at a time.                             *)
  NoFile,
  MaxJobs         (* Bounds the model: repacks started.                    *)

(* An image the scripts may be given: any sizes, any bytes, and a recovery *)
(* part, if its offset is named, behind the header page.                   *)
IsImage(img) ==
  /\ img.page \in Int /\ img.dtboAt \in Nat /\ img.body \in Seq(Cells)
  /\ img.dtboAt > 0 => img.dtboAt >= img.page
  /\ \A i \in DOMAIN Parts : img.size[Parts[i]] \in Nat

ASSUME RepackAssumption ==
  /\ \A j \in Jobs :
       /\ IsImage(j.source) /\ Length(j.source) <= PartitionBytes
       /\ j.kernel.data \in Seq(Cells) /\ j.dtb.data \in Seq(Cells)
  /\ Chunk \in Nat \ {0} /\ PartitionBytes \in Nat /\ PartitionBytes % Chunk = 0
  /\ MaxJobs \in Nat

VARIABLES
  job,        (* The repack under way.                                     *)
  pc,         (* Where it is; "add" while the parts are appended.          *)
  output,     (* What the script has put behind the header page.           *)
  added,      (* How many parts have been appended.                        *)
  file,       (* boot.img as script 38 or 76 left it, and its job.         *)
  zip,        (* The package, and its job.                                 *)
  inst,       (* The installer: "idle", "dd", "ok" or "error".             *)
  tmp,        (* What it has extracted.                                    *)
  written,    (* Chunks dd has written.                                    *)
  partition,  (* The boot partition: what each chunk belongs to.           *)
  before,     (* History: the partition when the installer started.        *)
  jobs        (* Repacks started so far.                                   *)

repackVars == <<job, pc, output, added, jobs>>
deviceVars == <<inst, tmp, written, partition, before>>
vars == <<repackVars, file, zip, deviceVars>>

NumChunks == PartitionBytes \div Chunk
Chunks == 0 .. NumChunks - 1
ChunkOf(img, c) == <<img, c>>
Old == [c \in Chunks |-> ChunkOf(NoFile, c)]

Init ==
  /\ job \in Jobs /\ pc = "validate" /\ output = <<>> /\ added = 0 /\ jobs = 1
  /\ file = NoFile /\ zip = NoFile
  /\ inst = "idle" /\ tmp = NoFile /\ written = 0 /\ partition = Old /\ before = Old

(***************************************************************************)
(* Script 37.                                                              *)
(***************************************************************************)
(* The lock holds the size, the digest and some header fields.             *)
LockMatches(img, lock) ==
  /\ img = lock.image
  /\ img.magic
  /\ img.version = lock.version /\ img.page = lock.page
  /\ \A p \in {"kernel", "ramdisk", "second"} : img.size[p] = lock.size[p]

Validate ==
  /\ pc = "validate"
  /\ pc' = IF LockMatches(job.source, job.lock) THEN "repack" ELSE "refused"
  /\ UNCHANGED <<job, output, added, jobs, file, zip, deviceVars>>

(***************************************************************************)
(* Scripts 38 and 76.                                                      *)
(***************************************************************************)
Original == Parsed(job.source)
WithDtb == job.script = "76"

(* The parts of the new image, and the image as far as it is built.        *)
NewParts ==
  [Original EXCEPT !.kernel = job.kernel.data,
                   !.dtb = IF WithDtb THEN job.dtb.data ELSE @]

Image == NewImage(job.source, NewParts, output)

InputsRefused ==
  \/ ParseRefused(job.source)
  \/ ~job.kernel.gzip
  \/ WithDtb /\ (~job.dtb.valid \/ Original.dtb = <<>> \/ job.dtb.data = Original.dtb)

Header ==
  /\ pc = "repack"
  /\ pc' = IF InputsRefused THEN "refused" ELSE "add"
  /\ output' = <<>> /\ added' = 0
  /\ UNCHANGED <<job, jobs, file, zip, deviceVars>>

AddPart ==
  /\ pc = "add" /\ added < Len(Parts)
  /\ output' = AddComponent(output, Image.page, NewParts[Parts[added + 1]])
  /\ added' = added + 1
  /\ UNCHANGED <<job, pc, jobs, file, zip, deviceVars>>

(* Mutant of TooLarge: an image as long as its source is refused.          *)
TooLargeOrEqual == Length(Image) >= Length(job.source)

TooLarge == Length(Image) > Length(job.source)

Fit ==
  /\ pc = "add" /\ added = Len(Parts)
  /\ IF TooLarge
     THEN pc' = "too large" /\ UNCHANGED output
     ELSE /\ pc' = "audit"
          /\ output' = output \o Zeros(Length(job.source) - Length(Image))
  /\ UNCHANGED <<job, added, jobs, file, zip, deviceVars>>

(* The invariants, on the output parsed again.                             *)
AuditFails ==
  \/ ParseRefused(Image)
  \/ Length(Image) # Length(job.source)
  \/ Image.version # job.source.version \/ Image.page # job.source.page
  \/ Image.rest # job.source.rest
  \/ Parsed(Image) # NewParts
  \/ Image.id # BootId(NewParts)

Audit ==
  /\ pc = "audit"
  /\ pc' = IF AuditFails THEN "audit failed" ELSE "write"
  /\ UNCHANGED <<job, output, added, jobs, file, zip, deviceVars>>

WriteOutput ==
  /\ pc = "write"
  /\ file' = [img |-> Image, bytes |-> Length(Image), job |-> job]
  /\ pc' = "written"
  /\ UNCHANGED <<job, output, added, jobs, zip, deviceVars>>

(* write_bytes() truncates the file first and fills it block by block.     *)
Killed ==
  /\ pc = "write"
  /\ \E n \in 0 .. Length(Image) - 1 :
       n % Image.page = 0 /\ file' = [img |-> Image, bytes |-> n, job |-> job]
  /\ pc' = "killed"
  /\ UNCHANGED <<job, output, added, jobs, zip, deviceVars>>

(* The next repack into the same place.                                    *)
NextJob ==
  /\ pc \in {"refused", "too large", "written", "killed"} /\ jobs < MaxJobs
  /\ job' \in Jobs /\ pc' = "validate" /\ jobs' = jobs + 1
  /\ UNCHANGED <<output, added, file, zip, deviceVars>>

(***************************************************************************)
(* Script 39, by a workflow or by hand, on whatever is there.              *)
(***************************************************************************)
Package ==
  /\ file # NoFile /\ file # zip
  /\ file.bytes = PartitionBytes
  /\ zip' = file
  /\ UNCHANGED <<repackVars, file, deviceVars>>

(***************************************************************************)
(* The installer.                                                          *)
(***************************************************************************)
(* The device, the extraction, the two sizes: nothing is written if one is *)
(* not as it should be.                                                    *)
StartInstall ==
  /\ zip # NoFile /\ inst \in {"idle", "error"}
  /\ \E d \in Devices :
       inst' = IF d.supported /\ d.extracts /\ zip.bytes = PartitionBytes /\ d.bytes >= zip.bytes
               THEN "dd" ELSE "error"
  /\ tmp' = zip /\ written' = 0 /\ before' = partition
  /\ UNCHANGED <<repackVars, file, zip, partition>>

DdChunk ==
  /\ inst = "dd" /\ written < NumChunks
  /\ partition' = [partition EXCEPT ![written] = ChunkOf(tmp.img, written)]
  /\ written' = written + 1
  /\ UNCHANGED <<repackVars, file, zip, inst, tmp, before>>

(* Mutant of DdFails: "|| abort" is missing.                               *)
DdFailsQuietly ==
  /\ inst = "dd"
  /\ inst' = "ok"
  /\ UNCHANGED <<repackVars, file, zip, tmp, written, partition, before>>

DdFails ==
  /\ inst = "dd"
  /\ inst' = "error"
  /\ UNCHANGED <<repackVars, file, zip, tmp, written, partition, before>>

Success ==
  /\ inst = "dd" /\ written = NumChunks
  /\ inst' = "ok"
  /\ UNCHANGED <<repackVars, file, zip, tmp, written, partition, before>>

(* The power goes, or the device is restarted: nothing reports.            *)
PowerCut ==
  /\ inst # "idle"
  /\ inst' = "idle" /\ written' = 0
  /\ UNCHANGED <<repackVars, file, zip, tmp, partition, before>>

Repack ==
  \/ Validate \/ Header \/ AddPart \/ Fit \/ Audit \/ WriteOutput \/ Killed \/ NextJob

Next ==
  \/ Repack \/ Package
  \/ StartInstall \/ DdChunk \/ DdFails \/ Success \/ PowerCut

Spec == Init /\ [][Next]_vars

-------------------------------------------------------------------------------
(* A source that is the one the lock names, and a boot image, is made of   *)
(* the parts of its job.                                                   *)
PartTypes ==
  [kernel : Seq(Cells), ramdisk : Seq(Cells), second : Seq(Cells),
   recovery_dtbo : Seq(Cells), dtb : Seq(Cells)]

ASSUME SourceAssumption ==
  \A j \in Jobs :
    /\ j.parts \in PartTypes
    /\ LockMatches(j.source, j.lock) /\ ~ParseRefused(j.source) => MadeOf(j.source, j.parts)

(* What the new image should hold, whatever the scripts made of the source.*)
Wanted(j) ==
  [j.parts EXCEPT !.kernel = j.kernel.data,
                  !.dtb = IF j.script = "76" THEN j.dtb.data ELSE @]

(* An image that reaches the output file is one in which the boot loader,  *)
(* which counts pages and knows nothing of parse_boot(), finds the new     *)
(* kernel and DTB and the source's other parts.                            *)
LoaderFindsParts ==
  /\ pc \in {"write", "written"} => LoaderFinds(Image, Wanted(job))
  /\ zip # NoFile => LoaderFinds(zip.img, Wanted(zip.job))

(* The audit is a check of the scripts' own work, never of their inputs:   *)
(* no validated source makes it fail.                                      *)
AuditPasses == pc # "audit failed"

(* A source of whole pages is only ever outgrown: a part it loses room to  *)
(* needs more pages than the one it replaces.                              *)
OnlyGrowthRefused ==
  (pc = "too large" /\ Length(job.source) % job.source.page = 0)
    => \E p \in ToSet(Parts) :
         PagesFor(Len(Wanted(job)[p]), job.source.page)
           > PagesFor(Len(job.parts[p]), job.source.page)

(* The installer reports success only over a partition that holds one      *)
(* whole repacked image, also after earlier attempts that were cut short;  *)
(* an error before dd leaves the partition alone.                          *)
SuccessMeansWhole ==
  /\ inst = "ok" => /\ Length(tmp.img) = PartitionBytes
                    /\ \A c \in Chunks : partition[c] = ChunkOf(tmp.img, c)
  /\ inst = "error" /\ written = 0 => partition = before

==============================================================================
