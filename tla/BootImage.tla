------------------------------ MODULE BootImage ------------------------------
(***************************************************************************)
(* An Android boot image of header version 2, as scripts 38 and 76 read    *)
(* and write it: a header page and five parts, each on page boundaries.    *)
(* An image is the header's fields and the bytes behind the header page,   *)
(* cut into cells; offsets count cells from the start of the file.         *)
(***************************************************************************)
EXTENDS Integers, Sequences, SequencesExt

CONSTANTS Cells, Zero

ASSUME CellAssumption == Zero \in Cells

(* The parts, in the order in which they lie in the image.                 *)
Parts == << "kernel", "ramdisk", "second", "recovery_dtbo", "dtb" >>

Zeros(n) == [i \in 1 .. n |-> Zero]

(* Mutant of Align: a value that is a multiple already gets a page more.   *)
AlignPast(v, p) == ((v + p) \div p) * p

(* align(): the least multiple of p that is not below v.                   *)
Align(v, p) == ((v + p - 1) \div p) * p

Length(img) == img.page + Len(img.body)

(***************************************************************************)
(* parse_boot(): where each part starts, from the sizes in the header.     *)
(***************************************************************************)
KernelAt(h)  == h.page
RamdiskAt(h) == KernelAt(h) + Align(h.size.kernel, h.page)
SecondAt(h)  == RamdiskAt(h) + Align(h.size.ramdisk, h.page)
ComputedRecoveryAt(h) == SecondAt(h) + Align(h.size.second, h.page)

(* The header's own offset is believed when there is such a part.          *)
RecoveryAt(h) ==
  IF h.size.recovery_dtbo > 0 /\ h.dtboAt > 0 THEN h.dtboAt ELSE ComputedRecoveryAt(h)

DtbAt(h) ==
  IF h.size.recovery_dtbo > 0
  THEN Align(RecoveryAt(h) + h.size.recovery_dtbo, h.page)
  ELSE ComputedRecoveryAt(h)

At(h) == [kernel |-> KernelAt(h), ramdisk |-> RamdiskAt(h), second |-> SecondAt(h),
          recovery_dtbo |-> RecoveryAt(h), dtb |-> DtbAt(h)]

PowerOfTwo(n) == \E k \in 0 .. 30 : n = 2 ^ k

(* What parse_boot() refuses: another format, or a part past the end.      *)
ParseRefused(img) ==
  \/ ~img.magic \/ img.version # 2
  \/ img.page <= 0 \/ ~PowerOfTwo(img.page)
  \/ \E i \in DOMAIN Parts : At(img)[Parts[i]] + img.size[Parts[i]] > Length(img)

Slice(img, at, n) == SubSeq(img.body, at - img.page + 1, at - img.page + n)

Parsed(img) ==
  [kernel |-> Slice(img, KernelAt(img), img.size.kernel),
   ramdisk |-> Slice(img, RamdiskAt(img), img.size.ramdisk),
   second |-> Slice(img, SecondAt(img), img.size.second),
   recovery_dtbo |-> Slice(img, RecoveryAt(img), img.size.recovery_dtbo),
   dtb |-> Slice(img, DtbAt(img), img.size.dtb)]

(***************************************************************************)
(* Repacking.                                                              *)
(***************************************************************************)
(* calculate_boot_id(): a digest of every part with its size.              *)
BootId(parts) == parts

Sizes(parts) ==
  [kernel |-> Len(parts.kernel), ramdisk |-> Len(parts.ramdisk),
   second |-> Len(parts.second), recovery_dtbo |-> Len(parts.recovery_dtbo),
   dtb |-> Len(parts.dtb)]

(* Mutant of NewDtboAt: the recovery part is left at its old offset.       *)
OldDtboAt(h, sizes) == h.dtboAt

(* The offset of the recovery part, written if there is such a part.       *)
NewDtboAt(h, sizes) ==
  IF sizes.recovery_dtbo > 0
  THEN ComputedRecoveryAt([page |-> h.page, size |-> sizes])
  ELSE h.dtboAt

(* The new image: the source's header with the sizes, the offset and the   *)
(* identifier of the new parts, and what has been put behind it.           *)
NewImage(h, parts, body) ==
  [magic |-> h.magic, version |-> h.version, page |-> h.page, rest |-> h.rest,
   size |-> Sizes(parts), dtboAt |-> NewDtboAt(h, Sizes(parts)),
   id |-> BootId(parts), body |-> body]

(* Zeros up to the next page; the header page is not in the body.          *)
Pad(body, page) ==
  LET len == page + Len(body) IN body \o Zeros(Align(len, page) - len)

(* add_component()                                                         *)
AddComponent(body, page, payload) == Pad(body \o payload, page)

(***************************************************************************)
(* The reference: a version 2 image as the boot loader reads it, page by   *)
(* page, with no use of the header's offset field.                         *)
(***************************************************************************)
PagesFor(n, page) == CHOOSE k \in 0 .. n : k * page >= n /\ (k - 1) * page < n

(* The page each part begins with.                                         *)
FirstPages(parts, page) ==
  LET pages(p)  == PagesFor(Len(parts[p]), page)
      ramdisk   == 1 + pages("kernel")
      second    == ramdisk + pages("ramdisk")
      recovery  == second + pages("second")
  IN  << 1, ramdisk, second, recovery, recovery + pages("recovery_dtbo") >>

Holds(img, at, payload) ==
  \A k \in 1 .. Len(payload) : img.body[at - img.page + k] = payload[k]

LoaderFinds(img, parts) ==
  /\ img.size = Sizes(parts)
  /\ \A i \in DOMAIN Parts :
       Holds(img, FirstPages(parts, img.page)[i] * img.page, parts[Parts[i]])

(* What a source is made of: as the boot loader reads it, but for pages    *)
(* left before a recovery part whose offset the header names.              *)
MadeOf(img, parts) ==
  LET at(i)    == FirstPages(parts, img.page)[i] * img.page
      recovery == IF parts.recovery_dtbo # <<>> /\ img.dtboAt > 0 THEN img.dtboAt ELSE at(4)
  IN  /\ img.size = Sizes(parts) /\ recovery >= at(4)
      /\ \A i \in 1 .. 3 : Holds(img, at(i), parts[Parts[i]])
      /\ Holds(img, recovery, parts.recovery_dtbo)
      /\ Holds(img, PagesFor(recovery + Len(parts.recovery_dtbo), img.page) * img.page,
               parts.dtb)

==============================================================================
