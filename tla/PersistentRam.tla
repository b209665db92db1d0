---------------------------- MODULE PersistentRam ----------------------------
(***************************************************************************)
(* The persistent RAM zone behind a52_diag_prz: the console quarter of the *)
(* 1 MiB ramoops carve-out, which stage 82 maps uncached so that a hard    *)
(* reset leaves it in DRAM.  A zone is a header (start, size) and a ring   *)
(* of cells.  The zone is the kernel's fs/pstore/ram_core.c, which is not  *)
(* in this repository: it is modelled here from the way stage 82 creates   *)
(* and writes it (persistent_ram_new with PRZ_FLAG_ZAP_OLD, then one       *)
(* persistent_ram_write per line).                                         *)
(*                                                                         *)
(* Abstraction: a cell stands for a fixed-size piece of a line.            *)
(***************************************************************************)
EXTENDS Integers, Sequences

CONSTANTS
  ZoneSize,       (* Cells in the zone's data area (buffer_size).          *)
  Stale           (* What a cell holds that this boot has not written.     *)

ASSUME ZoneSizeAssumption == ZoneSize \in Nat \ {0}

Slots == 0 .. ZoneSize - 1

(***************************************************************************)
(* persistent_ram_zap resets the header only.  What the ring still holds   *)
(* are bytes of an earlier boot, which no property tells apart.            *)
(***************************************************************************)
ZappedZone == [start |-> 0, size |-> 0, data |-> [s \in Slots |-> Stale]]

(* Mutant of SizeAdd: the size is not held to the size of the ring.        *)
SizeAddUnclamped(z, n) == [z EXCEPT !.size = @ + n]

(***************************************************************************)
(* persistent_ram_write advances the header before it copies: first        *)
(* buffer_size_add, then buffer_start_add, each under the zone's lock, and *)
(* then the bytes with no lock at all.                                     *)
(***************************************************************************)
SizeAdd(z, n) ==
  [z EXCEPT !.size = IF @ + n > ZoneSize THEN ZoneSize ELSE @ + n]

Advance(p, n) == IF p + n >= ZoneSize THEN p + n - ZoneSize ELSE p + n

StartAdd(z, n) == [z EXCEPT !.start = Advance(@, n)]

Store(z, slot, cell) == [z EXCEPT !.data[slot] = cell]

(* The header the next boot accepts; any other header is zapped unread.    *)
ValidHeader(z) == z.size <= ZoneSize /\ z.start <= z.size

(***************************************************************************)
(* persistent_ram_save_old: the ring read from start, oldest byte first.   *)
(* LogSlot(z, i) is the slot the i-th cell of the recovered log comes from.*)
(***************************************************************************)
LogSlot(z, i) ==
  IF z.start + i - 1 < z.size THEN z.start + i - 1
                              ELSE z.start + i - 1 - z.size

OldLog(z) == [i \in 1 .. z.size |-> z.data[LogSlot(z, i)]]

==============================================================================
