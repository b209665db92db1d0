------------------------- MODULE CrashDiagnosis_proofs -------------------------
(***************************************************************************)
(* Seven layers. First the zone (DiagZone), for every ring size, every line*)
(* length and every interleaving of the three writers: the types, that a   *)
(* hard reset at any moment leaves a header the next boot accepts, and that*)
(* it tears no more than the writes in flight. Second the boot: each step  *)
(* of a diagnostic boot, whatever its program and wherever the console, the*)
(* first IRQ and the reset come in, is a step of one writer, a creation, a *)
(* reset, or does not touch the zone; so what is proved of the zone holds  *)
(* of every diagnostic boot. Third the program: whatever the initcall      *)
(* table, every initcall stands between its BEGIN and its END line and     *)
(* those lines stand nowhere else, and a line of a triplet stands beside   *)
(* its copies. Fourth the promise: the zone implements BoundedLog, a log   *)
(* that keeps the newest cells and owes at most the ones in flight. Fifth  *)
(* the boot's log: what the ring says of the place the boot thread is at,  *)
(* and that a reader is told so. Sixth the triplets: of three copies one   *)
(* survives. Last the whole path, up to the dump a recovery serves.        *)
(*                                                                         *)
(* ValidHeader is not inductive: between the two header updates of a write *)
(* start has to be known to lag size by exactly what has been announced and*)
(* not claimed. HeaderAccounts says so, and IInv adds it to the types. Nor *)
(* are ClaimsDisjoint and TornOnlyInFlight, which speak of slots: RingInv  *)
(* numbers the cells claimed since the zone was created and says where each*)
(* writer stands in that numbering. CellInv adds what the cells say, LogInv*)
(* what the initcall lines among them say of the boot thread, TripletInv   *)
(* that the copies claimed so far are the latest lines and all but the one *)
(* being written are in the ring whole, and SystemInv that the first       *)
(* recovery freezes the ring of the reset.                                 *)
(***************************************************************************)
EXTENDS CrashDiagnosis, SequenceTheorems, FiniteSetTheorems, WellFoundedInduction, TLAPS

Copyings == [st : {"copying"}, line : Lines, n : 1 .. MaxLine, off : Nat,
             pos : Slots, done : 0 .. MaxLine - 1]
Sizeds   == [st : {"sized"}, line : Lines, n : 1 .. MaxLine]

LEMMA SizedState ==
  ASSUME NEW s \in WriterStates, s.st = "sized"
  PROVE  s \in Sizeds
BY DEF WriterStates, Idle, Sizeds

LEMMA CopyingState ==
  ASSUME NEW s \in WriterStates, s.st = "copying"
  PROVE  s \in Copyings
BY DEF WriterStates, Idle, Copyings

(* The ring position stays in the ring: one line is never longer than it.  *)
LEMMA AdvanceInRing ==
  ASSUME NEW p \in Slots, NEW n \in 1 .. MaxLine
  PROVE  Advance(p, n) \in Slots
BY ZoneSizeAssumption, LineAssumption DEF Advance, Slots

LEMMA AdvanceOne ==
  ASSUME NEW p \in Slots
  PROVE  Advance(p, 1) \in Slots
BY ZoneSizeAssumption DEF Advance, Slots

LEMMA SizeInRing ==
  ASSUME NEW s \in 0 .. ZoneSize, NEW n \in 1 .. MaxLine
  PROVE  (IF s + n > ZoneSize THEN ZoneSize ELSE s + n) \in 0 .. ZoneSize
BY ZoneSizeAssumption, LineAssumption

------------------------------------------------------------------------------
LEMMA ZappedType ==
  ZappedZone \in [start : Slots, size : 0 .. ZoneSize, data : [Slots -> Cells \cup {Stale}]]
<1>1. 0 \in Slots /\ 0 \in 0 .. ZoneSize
  BY ZoneSizeAssumption DEF Slots
<1>2. [s \in Slots |-> Stale] \in [Slots -> Cells \cup {Stale}]
  OBVIOUS
<1> QED BY <1>1, <1>2 DEF ZappedZone

LEMMA ZoneTypeInit == ZoneInit => ZoneTypeOK
<1>1. [x \in Writers |-> Idle] \in [Writers -> WriterStates]
  BY DEF WriterStates
<1>2. Idle.st # "copying"
  BY DEF Idle
<1> SUFFICES ASSUME ZoneInit PROVE ZoneTypeOK
  OBVIOUS
<1>3. \A x \in Writers : w[x].st # "copying"
  BY <1>2 DEF ZoneInit
<1>4. live \in BOOLEAN /\ total \in Nat /\ late \subseteq Slots
  BY DEF ZoneInit
<1> QED BY <1>1, <1>3, <1>4, ZappedType DEF ZoneInit, ZoneTypeOK

LEMMA AnnounceType ==
  ASSUME ZoneTypeOK, NEW x \in Writers, NEW line \in Lines, NEW n \in 1 .. MaxLine,
         Announce(x, line, n)
  PROVE  ZoneTypeOK'
<1> DEFINE size == IF zone.size + n > ZoneSize THEN ZoneSize ELSE zone.size + n
<1>1. size \in 0 .. ZoneSize
  BY SizeInRing DEF ZoneTypeOK
<1>2. zone' = [zone EXCEPT !.size = size]
  BY DEF Announce, SizeAdd
<1> HIDE DEF size
<1>3. zone' \in [start : Slots, size : 0 .. ZoneSize, data : [Slots -> Cells \cup {Stale}]]
  BY <1>1, <1>2 DEF ZoneTypeOK
<1>4. Sized(line, n) \in WriterStates /\ Sized(line, n).st = "sized"
  BY DEF Sized, WriterStates
<1>5. w' = [w EXCEPT ![x] = Sized(line, n)] /\ live' = live /\ total' = total /\ late' = late
  BY DEF Announce
<1>6. w' \in [Writers -> WriterStates]
  BY <1>4, <1>5 DEF ZoneTypeOK
<1>7. \A y \in Writers : w'[y].st = "copying" => w'[y].done < w'[y].n
  BY <1>4, <1>5 DEF ZoneTypeOK
<1> QED BY <1>3, <1>5, <1>6, <1>7 DEF ZoneTypeOK

LEMMA ClaimType ==
  ASSUME ZoneTypeOK, NEW x \in Writers, Claim(x)
  PROVE  ZoneTypeOK'
<1> DEFINE n == w[x].n
           c == Copying(w[x].line, n, total, zone.start, 0)
<1>1. w[x] \in Sizeds
  BY SizedState DEF ZoneTypeOK, Claim
<1>2. n \in 1 .. MaxLine /\ w[x].line \in Lines
  BY <1>1 DEF Sizeds
<1>3. /\ zone' = [zone EXCEPT !.start = Advance(@, n)]
      /\ w' = [w EXCEPT ![x] = c]
      /\ total' = total + n
      /\ live' = live /\ late' = late
  BY DEF Claim, StartAdd
<1>4. zone.start \in Slots /\ total \in Nat
  BY DEF ZoneTypeOK
<1>5. Advance(zone.start, n) \in Slots
  BY <1>2, <1>4, AdvanceInRing
<1>6. zone' \in [start : Slots, size : 0 .. ZoneSize, data : [Slots -> Cells \cup {Stale}]]
  BY <1>3, <1>5 DEF ZoneTypeOK
<1>7. c \in WriterStates /\ c.done = 0 /\ c.n = n
  BY <1>2, <1>4, LineAssumption, ZoneSizeAssumption DEF Copying, WriterStates
<1> HIDE DEF c, n
<1>8. w' \in [Writers -> WriterStates]
  BY <1>3, <1>7 DEF ZoneTypeOK
<1>9. \A y \in Writers : w'[y].st = "copying" => w'[y].done < w'[y].n
  <2> SUFFICES ASSUME NEW y \in Writers, w'[y].st = "copying"
               PROVE  w'[y].done < w'[y].n
    OBVIOUS
  <2>1. CASE y = x
    <3>1. w'[y] = c
      BY <1>3, <2>1 DEF ZoneTypeOK
    <3> QED BY <3>1, <1>2, <1>7
  <2>2. CASE y # x
    BY <1>3, <2>2 DEF ZoneTypeOK
  <2> QED BY <2>1, <2>2
<1>10. total' \in Nat
  BY <1>2, <1>3, <1>4
<1> QED BY <1>3, <1>6, <1>8, <1>9, <1>10 DEF ZoneTypeOK

LEMMA StoreCellType ==
  ASSUME ZoneTypeOK, NEW x \in Writers, StoreCell(x)
  PROVE  ZoneTypeOK'
<1> DEFINE c    == w[x]
           cell == Cell(c.off + c.done, c.line, c.done + 1, c.n)
           next == IF c.done + 1 = c.n THEN Idle
                   ELSE [c EXCEPT !.done = @ + 1, !.pos = Advance(@, 1)]
<1>1. c \in Copyings /\ c.done < c.n
  BY CopyingState DEF ZoneTypeOK, StoreCell
<1>2. /\ c.n \in 1 .. MaxLine /\ c.off \in Nat /\ c.done \in 0 .. MaxLine - 1
      /\ c.line \in Lines /\ c.pos \in Slots
  BY <1>1 DEF Copyings
<1>3. c.off + c.done \in Nat /\ c.done + 1 \in 1 .. MaxLine
  BY <1>1, <1>2, LineAssumption, ZoneSizeAssumption
<1>4. cell \in Cells
  BY <1>2, <1>3 DEF Cell, Cells
<1>5. /\ zone' = [zone EXCEPT !.data[c.pos] = cell]
      /\ w' = [w EXCEPT ![x] = next]
      /\ live' = live /\ total' = total
  BY DEF StoreCell, Store
<1>6. late' \subseteq Slots
  <2>1. late' = late \cup {c.pos} \/ late' = late \ {c.pos}
    BY DEF StoreCell
  <2> QED BY <2>1, <1>2 DEF ZoneTypeOK
<1>7. zone' \in [start : Slots, size : 0 .. ZoneSize, data : [Slots -> Cells \cup {Stale}]]
  <2> HIDE DEF cell, c
  <2> QED BY <1>4, <1>5 DEF ZoneTypeOK
<1>8. next \in WriterStates /\ (next.st = "copying" => next.done < next.n)
  <2>1. CASE c.done + 1 = c.n
    BY <2>1 DEF WriterStates, Idle
  <2>2. CASE c.done + 1 # c.n
    <3>1. Advance(c.pos, 1) \in Slots
      BY <1>2, AdvanceOne
    <3>2. c.done + 1 < c.n /\ c.done + 1 \in 0 .. MaxLine - 1
      BY <1>1, <1>2, <2>2, LineAssumption, ZoneSizeAssumption
    <3>3. next = [c EXCEPT !.done = @ + 1, !.pos = Advance(@, 1)]
      BY <2>2
    <3>4. next \in Copyings /\ next.done = c.done + 1 /\ next.n = c.n
      BY <1>1, <3>1, <3>2, <3>3 DEF Copyings
    <3> QED BY <3>2, <3>4 DEF WriterStates, Copyings
  <2> QED BY <2>1, <2>2
<1> HIDE DEF next
<1>9. w' \in [Writers -> WriterStates]
  BY <1>5, <1>8 DEF ZoneTypeOK
<1>10. \A y \in Writers : w'[y].st = "copying" => w'[y].done < w'[y].n
  <2> SUFFICES ASSUME NEW y \in Writers, w'[y].st = "copying"
               PROVE  w'[y].done < w'[y].n
    OBVIOUS
  <2>1. CASE y = x
    BY <1>5, <1>8, <2>1 DEF ZoneTypeOK
  <2>2. CASE y # x
    BY <1>5, <2>2 DEF ZoneTypeOK
  <2> QED BY <2>1, <2>2
<1> QED BY <1>5, <1>6, <1>7, <1>9, <1>10 DEF ZoneTypeOK

LEMMA ZapType ==
  ASSUME ZoneTypeOK, Zap
  PROVE  ZoneTypeOK'
<1>1. [x \in Writers |-> Idle] \in [Writers -> WriterStates]
  BY DEF WriterStates
<1>2. Idle.st # "copying"
  BY DEF Idle
<1> QED BY <1>1, <1>2, ZappedType DEF Zap, ZoneTypeOK

LEMMA ZoneTypeStep == ZoneTypeOK /\ [ZoneNext]_zoneVars => ZoneTypeOK'
<1> SUFFICES ASSUME ZoneTypeOK, [ZoneNext]_zoneVars
             PROVE  ZoneTypeOK'
  OBVIOUS
<1>1. CASE \E x \in Writers : WriterStep(x)
  BY <1>1, AnnounceType, ClaimType, StoreCellType DEF WriterStep
<1>2. CASE Zap
  BY <1>2, ZapType
<1>3. CASE HardReset
  BY <1>3 DEF HardReset, ZoneTypeOK
<1>4. CASE UNCHANGED zoneVars
  BY <1>4 DEF zoneVars, ZoneTypeOK
<1> QED BY <1>1, <1>2, <1>3, <1>4 DEF ZoneNext

(* Type correctness: in every reachable state the header, the cells and    *)
(* the writers of stage 82's zone have their types; in particular start    *)
(* stays inside the ring whatever the lengths of the lines.                *)
THEOREM ZoneTypeCorrect == ZoneSpec => []ZoneTypeOK
<1>1. ZoneInit => ZoneTypeOK
  BY ZoneTypeInit
<1>2. ZoneTypeOK /\ [ZoneNext]_zoneVars => ZoneTypeOK'
  BY ZoneTypeStep
<1> QED BY <1>1, <1>2, PTL DEF ZoneSpec

------------------------------------------------------------------------------
(* The header.                                                             *)
IInv == ZoneTypeOK /\ HeaderAccounts

LEMMA PendingNat ==
  ASSUME ZoneTypeOK, NEW x \in Writers
  PROVE  Pending(x) \in Nat
<1>1. CASE w[x].st = "sized"
  <2>1. w[x] \in Sizeds
    BY <1>1, SizedState DEF ZoneTypeOK
  <2> QED BY <2>1, <1>1, LineAssumption, ZoneSizeAssumption DEF Sizeds, Pending
<1>2. CASE w[x].st # "sized"
  BY <1>2 DEF Pending
<1> QED BY <1>1, <1>2

(* The three writers by name, so that their sum is plain arithmetic.       *)
LEMMA PendingOthers ==
  ASSUME ZoneTypeOK, NEW x \in Writers, NEW s, w' = [w EXCEPT ![x] = s]
  PROVE  /\ \A y \in Writers \ {x} : Pending(y)' = Pending(y)
         /\ Pending(x)' = IF s.st = "sized" THEN s.n ELSE 0
BY DEF Pending, ZoneTypeOK

LEMMA AnnouncedChange ==
  ASSUME ZoneTypeOK, ZoneTypeOK', NEW x \in Writers,
         \A y \in Writers \ {x} : Pending(y)' = Pending(y)
  PROVE  Announced' = Announced + Pending(x)' - Pending(x)
<1>1. \A y \in Writers : Pending(y) \in Nat
  BY PendingNat
<1>2. \A y \in Writers : Pending(y)' \in Nat
  <2> TAKE y \in Writers
  <2>1. CASE w'[y].st = "sized"
    <3>1. w'[y] \in Sizeds
      BY <2>1, SizedState DEF ZoneTypeOK
    <3> QED BY <3>1, <2>1, LineAssumption, ZoneSizeAssumption DEF Sizeds, Pending
  <2>2. CASE w'[y].st # "sized"
    BY <2>2 DEF Pending
  <2> QED BY <2>1, <2>2
<1> HIDE DEF Pending
<1> QED BY <1>1, <1>2 DEF Announced, Writers

LEMMA AnnounceHeader ==
  ASSUME IInv, ZoneTypeOK', NEW x \in Writers, NEW line \in Lines, NEW n \in 1 .. MaxLine,
         Announce(x, line, n)
  PROVE  HeaderAccounts'
<1>1. Pending(x) = 0
  BY DEF Announce, Busy, Pending
<1>2. /\ \A y \in Writers \ {x} : Pending(y)' = Pending(y)
      /\ Pending(x)' = n
  <2>1. w' = [w EXCEPT ![x] = Sized(line, n)]
    BY DEF Announce
  <2>2. Sized(line, n).st = "sized" /\ Sized(line, n).n = n
    BY DEF Sized
  <2> QED BY <2>1, <2>2, PendingOthers DEF IInv
<1>3. Announced' = Announced + n - 0
  BY <1>1, <1>2, AnnouncedChange DEF IInv
<1>4. /\ zone'.start = zone.start
      /\ zone'.size = IF zone.size + n > ZoneSize THEN ZoneSize ELSE zone.size + n
  BY DEF Announce, SizeAdd, IInv, ZoneTypeOK
<1>5. zone.start \in Nat /\ zone.size \in Nat /\ n \in Nat
  BY ZoneSizeAssumption, LineAssumption DEF IInv, ZoneTypeOK, Slots
<1>6. Announced \in Nat
  BY PendingNat DEF IInv, Announced, Writers
<1>7. zone.size < ZoneSize => zone.size = zone.start + Announced
  BY DEF IInv, HeaderAccounts
<1>8. zone'.size < ZoneSize => zone'.size = zone'.start + Announced'
  BY <1>3, <1>4, <1>5, <1>6, <1>7, ZoneSizeAssumption
<1> QED BY <1>8 DEF HeaderAccounts

LEMMA ClaimHeader ==
  ASSUME IInv, ZoneTypeOK', NEW x \in Writers, Claim(x)
  PROVE  HeaderAccounts'
<1> DEFINE n == w[x].n
           c == Copying(w[x].line, n, total, zone.start, 0)
<1>1. Pending(x) = n /\ n \in 1 .. MaxLine
  BY SizedState DEF Claim, Pending, Sizeds, IInv, ZoneTypeOK
<1>2. /\ \A y \in Writers \ {x} : Pending(y)' = Pending(y)
      /\ Pending(x)' = 0
  <2>1. w' = [w EXCEPT ![x] = c] /\ c.st = "copying"
    BY DEF Claim, Copying
  <2> HIDE DEF c
  <2> QED BY <2>1, PendingOthers DEF IInv
<1> HIDE DEF n
<1>3. Announced' = Announced + 0 - n
  BY <1>1, <1>2, AnnouncedChange DEF IInv
<1>4. /\ zone'.start = Advance(zone.start, n)
      /\ zone'.size = zone.size
  BY DEF Claim, StartAdd, IInv, ZoneTypeOK, n
<1>5. zone.start \in Nat /\ zone.size \in Nat /\ n \in Nat
  BY <1>1, ZoneSizeAssumption, LineAssumption DEF IInv, ZoneTypeOK, Slots
<1>6. Announced \in Nat /\ Announced >= n
  <2>1. \A y \in Writers : Pending(y) \in Nat
    BY PendingNat DEF IInv
  <2> HIDE DEF Pending
  <2> QED BY <1>1, <1>5, <2>1 DEF Announced, Writers
<1>7. zone.size < ZoneSize => zone.size = zone.start + Announced
  BY DEF IInv, HeaderAccounts
(* What is claimed was counted in size, so a ring not yet full does not wrap. *)
<1>8. zone.size < ZoneSize => Advance(zone.start, n) = zone.start + n
  BY <1>5, <1>6, <1>7, ZoneSizeAssumption DEF Advance
<1>9. zone'.size < ZoneSize => zone'.size = zone'.start + Announced'
  BY <1>3, <1>4, <1>5, <1>6, <1>7, <1>8, ZoneSizeAssumption
<1> QED BY <1>9 DEF HeaderAccounts

LEMMA StoreCellHeader ==
  ASSUME IInv, ZoneTypeOK', NEW x \in Writers, StoreCell(x)
  PROVE  HeaderAccounts'
<1> DEFINE c    == w[x]
           next == IF c.done + 1 = c.n THEN Idle
                   ELSE [c EXCEPT !.done = @ + 1, !.pos = Advance(@, 1)]
<1>1. Pending(x) = 0
  BY DEF StoreCell, Pending
<1>2. c \in Copyings
  BY CopyingState DEF IInv, ZoneTypeOK, StoreCell
<1>3. w' = [w EXCEPT ![x] = next]
  BY DEF StoreCell
<1>4. next.st # "sized"
  <2>1. CASE c.done + 1 = c.n
    BY <2>1 DEF Idle
  <2>2. CASE c.done + 1 # c.n
    <3>1. next.st = c.st
      BY <1>2, <2>2 DEF Copyings
    <3> QED BY <3>1 DEF StoreCell
  <2> QED BY <2>1, <2>2
<1> HIDE DEF next, c
<1>5. /\ \A y \in Writers \ {x} : Pending(y)' = Pending(y)
      /\ Pending(x)' = 0
  BY <1>3, <1>4, PendingOthers DEF IInv
<1>6. Announced' = Announced + 0 - 0
  BY <1>1, <1>5, AnnouncedChange DEF IInv
<1>7. zone'.start = zone.start /\ zone'.size = zone.size
  BY DEF StoreCell, Store, IInv, ZoneTypeOK
<1>8. Announced \in Nat
  BY PendingNat DEF IInv, Announced, Writers
<1> QED BY <1>6, <1>7, <1>8 DEF HeaderAccounts, IInv

LEMMA NothingAnnounced ==
  ASSUME NEW ww, ww = [x \in Writers |-> Idle]
  PROVE  \A x \in Writers : ww[x].st # "sized"
BY DEF Idle

LEMMA HeaderInit == ZoneInit => HeaderAccounts
<1> SUFFICES ASSUME ZoneInit PROVE HeaderAccounts
  OBVIOUS
<1>1. Pending("boot") = 0 /\ Pending("console") = 0 /\ Pending("irq") = 0
  BY NothingAnnounced DEF ZoneInit, Pending, Writers
<1> QED BY <1>1 DEF HeaderAccounts, Announced, ZoneInit, ZappedZone

LEMMA HeaderStep == IInv /\ [ZoneNext]_zoneVars => HeaderAccounts'
<1> SUFFICES ASSUME IInv, [ZoneNext]_zoneVars
             PROVE  HeaderAccounts'
  OBVIOUS
<1>0. ZoneTypeOK'
  BY ZoneTypeStep DEF IInv
<1>1. CASE \E x \in Writers : WriterStep(x)
  BY <1>0, <1>1, AnnounceHeader, ClaimHeader, StoreCellHeader DEF WriterStep
<1>2. CASE Zap
  <2>1. Pending("boot")' = 0 /\ Pending("console")' = 0 /\ Pending("irq")' = 0
    BY <1>2, NothingAnnounced DEF Zap, Pending, Writers
  <2> QED BY <1>2, <2>1 DEF HeaderAccounts, Announced, Zap, ZappedZone
<1>3. CASE HardReset
  BY <1>3 DEF HardReset, HeaderAccounts, Announced, Pending, IInv
<1>4. CASE UNCHANGED zoneVars
  BY <1>4 DEF zoneVars, HeaderAccounts, Announced, Pending, IInv
<1> QED BY <1>1, <1>2, <1>3, <1>4 DEF ZoneNext

LEMMA HeaderValid == IInv => HeaderSurvives
<1> SUFFICES ASSUME IInv PROVE HeaderSurvives
  OBVIOUS
<1>1. Announced \in Nat
  BY PendingNat DEF IInv, Announced, Writers
<1>2. zone.size \in 0 .. ZoneSize /\ zone.start \in Slots
  BY DEF IInv, ZoneTypeOK
<1>3. zone.size < ZoneSize => zone.size = zone.start + Announced
  BY DEF IInv, HeaderAccounts
<1> QED BY <1>1, <1>2, <1>3, ZoneSizeAssumption
   DEF HeaderSurvives, ValidHeader, Slots, IInv

(* The inductive invariant: the types, and what the header accounts for.   *)
THEOREM IInvInvariant == ZoneSpec => []IInv
<1>1. ZoneInit => IInv
  BY ZoneTypeInit, HeaderInit DEF IInv
<1>2. IInv /\ [ZoneNext]_zoneVars => IInv'
  BY ZoneTypeStep, HeaderStep DEF IInv
<1> QED BY <1>1, <1>2, PTL DEF ZoneSpec

(* Between the two header updates of any number of writes, size accounts   *)
(* for start and for every cell announced and not yet claimed.             *)
THEOREM HeaderAccounted == ZoneSpec => []HeaderAccounts
<1>1. IInv => HeaderAccounts
  BY DEF IInv
<1> QED BY <1>1, IInvInvariant, PTL

(* A hard reset at any moment, however many writers it interrupts, leaves  *)
(* a header the next boot accepts: the log is never rejected as a whole.   *)
THEOREM HeaderAlwaysSurvives == ZoneSpec => []HeaderSurvives
BY HeaderValid, IInvInvariant, PTL

------------------------------------------------------------------------------
(***************************************************************************)
(* The ring.  A cell's number determines its slot, and the numbers in      *)
(* flight are kept apart; slots are the numbers' residues.                 *)
(***************************************************************************)
LEMMA Residue ==
  ASSUME NEW a \in Nat
  PROVE  /\ a % ZoneSize \in Slots
         /\ \E q \in Nat : a = q * ZoneSize + (a % ZoneSize)
<1> DEFINE q == a \div ZoneSize
<1>1. /\ q \in Int /\ ZoneSize * q <= a /\ a < ZoneSize * q + ZoneSize
      /\ a = ZoneSize * q + (a % ZoneSize) /\ a % ZoneSize \in 0 .. ZoneSize - 1
  BY ZoneSizeAssumption
<1> HIDE DEF q
<1>2. ZoneSize * q = q * ZoneSize /\ ZoneSize \in Nat \ {0}
  BY <1>1, ZoneSizeAssumption
<1>3. q \in Nat
  <2> SUFFICES ASSUME q <= -1 PROVE FALSE
    BY <1>1
  <2>1. (-1 - q) * ZoneSize >= 0
    BY <1>1, <1>2
  <2>2. (-1 - q) * ZoneSize = - ZoneSize - q * ZoneSize
    BY <1>1, <1>2
  <2> QED BY <1>1, <1>2, <2>1, <2>2
<1>4. a = q * ZoneSize + (a % ZoneSize)
  BY <1>1, <1>2
<1> QED BY <1>1, <1>3, <1>4 DEF Slots

(* Multiples of the ring that are closer than the ring are the same.       *)
LEMMA LapUnique ==
  ASSUME NEW a \in Int, NEW b \in Int, NEW z \in Nat \ {0},
         a * z < b * z + z, b * z < a * z + z
  PROVE  a = b
<1>1. a * z < (b + 1) * z /\ b * z < (a + 1) * z
  OBVIOUS
<1>2. CASE a > b
  <2>1. (a - (b + 1)) * z >= 0
    BY <1>2
  <2> QED BY <1>1, <2>1
<1>3. CASE b > a
  <2>1. (b - (a + 1)) * z >= 0
    BY <1>3
  <2> QED BY <1>1, <2>1
<1> QED BY <1>2, <1>3

LEMMA ResidueUnique ==
  ASSUME NEW a \in Nat, NEW q \in Nat, NEW r \in Slots, a = q * ZoneSize + r
  PROVE  a % ZoneSize = r
<1>1. PICK p \in Nat : a = p * ZoneSize + (a % ZoneSize)
  BY Residue
<1> DEFINE s == a % ZoneSize
           qz == q * ZoneSize
           pz == p * ZoneSize
<1>2. s \in 0 .. ZoneSize - 1 /\ r \in 0 .. ZoneSize - 1
  BY Residue DEF Slots
<1>3. qz \in Nat /\ pz \in Nat /\ qz + r = pz + s /\ ZoneSize \in Nat \ {0}
  BY <1>1, ZoneSizeAssumption
<1> HIDE DEF s, qz, pz
<1>4. qz < pz + ZoneSize /\ pz < qz + ZoneSize
  BY <1>2, <1>3
<1>5. p = q
  BY <1>3, <1>4, LapUnique DEF qz, pz
<1>6. qz = pz
  BY <1>5 DEF qz, pz
<1>7. s = r
  BY <1>2, <1>3, <1>6
<1> QED BY <1>7 DEF s

(* Advancing by up to a lap moves to the slot of the number that much later*)
LEMMA AdvanceAdds ==
  ASSUME NEW a \in Nat, NEW k \in 0 .. ZoneSize
  PROVE  Advance(a % ZoneSize, k) = (a + k) % ZoneSize
<1> DEFINE s == a % ZoneSize
<1>1. PICK q \in Nat : a = q * ZoneSize + s
  BY Residue
<1>2. s \in 0 .. ZoneSize - 1 /\ ZoneSize \in Nat \ {0}
  BY Residue, ZoneSizeAssumption DEF Slots
<1> DEFINE qz == q * ZoneSize
<1>3. qz \in Nat /\ (q + 1) * ZoneSize = qz + ZoneSize /\ a = qz + s
  BY <1>1, ZoneSizeAssumption
<1> HIDE DEF s, qz
<1>4. CASE s + k >= ZoneSize
  <2> DEFINE r == s + k - ZoneSize
  <2>1. r \in Slots /\ Advance(s, k) = r
    BY <1>2, <1>4 DEF Slots, Advance
  <2>2. a + k = (q + 1) * ZoneSize + r /\ q + 1 \in Nat /\ a + k \in Nat
    BY <1>2, <1>3
  <2> HIDE DEF r
  <2>3. (a + k) % ZoneSize = r
    BY <2>1, <2>2, ResidueUnique
  <2> QED BY <2>1, <2>3 DEF s
<1>5. CASE s + k < ZoneSize
  <2> DEFINE r == s + k
  <2>1. r \in Slots /\ Advance(s, k) = r
    BY <1>2, <1>5 DEF Slots, Advance
  <2>2. a + k = q * ZoneSize + r /\ a + k \in Nat
    BY <1>2, <1>3 DEF qz
  <2> HIDE DEF r
  <2>3. (a + k) % ZoneSize = r
    BY <2>1, <2>2, ResidueUnique
  <2> QED BY <2>1, <2>3 DEF s
<1> QED BY <1>2, <1>4, <1>5

(* Two cells of one slot are at least a lap apart.                         *)
LEMMA SameSlot ==
  ASSUME NEW a \in Nat, NEW b \in Nat, a % ZoneSize = b % ZoneSize, a < b
  PROVE  a + ZoneSize <= b
<1> DEFINE s == a % ZoneSize
<1>1. PICK p \in Nat : a = p * ZoneSize + s
  BY Residue
<1>2. PICK q \in Nat : b = q * ZoneSize + s
  BY Residue
<1>3. s \in Nat /\ ZoneSize \in Nat \ {0}
  BY Residue, ZoneSizeAssumption DEF Slots
<1> HIDE DEF s
<1>4. p * ZoneSize < q * ZoneSize
  BY <1>1, <1>2, <1>3
<1>5. q >= p + 1
  <2> SUFFICES ASSUME q <= p PROVE FALSE
    OBVIOUS
  <2>1. (p - q) * ZoneSize >= 0
    BY <1>3
  <2> QED BY <1>3, <1>4, <2>1
<1>6. (q - (p + 1)) * ZoneSize >= 0
  BY <1>3, <1>5
<1> QED BY <1>1, <1>2, <1>3, <1>6

------------------------------------------------------------------------------
(***************************************************************************)
(* What the ring holds.  Writers are apart in numbers even when they share *)
(* a slot, and the newest cell of every slot has been stored, is still to  *)
(* be stored by the writer that claimed it, or was stored over by a writer *)
(* that a whole lap had overtaken.                                         *)
(***************************************************************************)
Moving(x) == w[x].st = "copying"
Number(x) == w[x].off + w[x].done
Goal(x)   == w[x].off + w[x].n

Placed ==
  /\ zone.start = total % ZoneSize
  /\ \A x \in Writers :
       Moving(x) => Goal(x) <= total /\ w[x].pos = Number(x) % ZoneSize

Apart ==
  \A x, y \in Writers :
    x # y /\ Moving(x) /\ Moving(y) => Goal(x) <= w[y].off \/ Goal(y) <= w[x].off

Newest(o)     == o < total /\ ~Overtaken(o)
Holding(x, o) == Moving(x) /\ o \in Number(x) .. Goal(x) - 1
Stored(o)     == zone.data[o % ZoneSize] # Stale /\ zone.data[o % ZoneSize].off = o

Accounted(o) ==
  o % ZoneSize \in late \/ (\E x \in Writers : Holding(x, o)) \/ Stored(o)

NewestKept == \A o \in Nat : Newest(o) => Accounted(o)

RingInv == ZoneTypeOK /\ Placed /\ Apart /\ NewestKept

(* The fields of a writer that copies.                                     *)
LEMMA MovingFields ==
  ASSUME ZoneTypeOK, NEW x \in Writers, Moving(x)
  PROVE  /\ w[x].off \in Nat /\ w[x].n \in 1 .. MaxLine /\ w[x].pos \in Slots
         /\ w[x].done \in Nat /\ w[x].done < w[x].n /\ w[x].n <= ZoneSize
         /\ Number(x) \in Nat /\ Goal(x) \in Nat /\ Number(x) < Goal(x)
<1>1. w[x] \in Copyings /\ w[x].done < w[x].n
  BY CopyingState DEF Moving, ZoneTypeOK
<1>2. /\ w[x].off \in Nat /\ w[x].n \in 1 .. MaxLine /\ w[x].pos \in Slots
      /\ w[x].done \in 0 .. MaxLine - 1
  BY <1>1 DEF Copyings
<1> QED BY <1>1, <1>2, ZoneSizeAssumption, LineAssumption DEF Number, Goal

(* A claim begins at the number of cells claimed before it.                *)
LEMMA ClaimEffect ==
  ASSUME ZoneTypeOK, NEW x \in Writers, Claim(x)
  PROVE  \E n \in 1 .. MaxLine :
           /\ total' = total + n /\ total \in Nat /\ n <= ZoneSize
           /\ zone'.start = Advance(zone.start, n) /\ zone'.data = zone.data
           /\ late' = late /\ ~Moving(x)
           /\ Moving(x)' /\ w'[x].off = total /\ w'[x].done = 0 /\ w'[x].n = n
           /\ w'[x].pos = zone.start
           /\ \A y \in Writers \ {x} : w'[y] = w[y]
<1> DEFINE n == w[x].n
           c == Copying(w[x].line, n, total, zone.start, 0)
<1>1. n \in 1 .. MaxLine
  BY SizedState DEF Claim, Sizeds, ZoneTypeOK
<1>2. w' = [w EXCEPT ![x] = c] /\ total' = total + n /\ late' = late /\ w[x].st = "sized"
  BY DEF Claim
<1>3. zone'.start = Advance(zone.start, n) /\ zone'.data = zone.data
  BY DEF Claim, StartAdd, ZoneTypeOK
<1>4. c.st = "copying" /\ c.off = total /\ c.done = 0 /\ c.n = n /\ c.pos = zone.start
  BY DEF Copying
<1>5. n <= ZoneSize /\ total \in Nat
  BY <1>1, LineAssumption, ZoneSizeAssumption DEF ZoneTypeOK
<1> HIDE DEF n, c
<1>6. w'[x] = c /\ \A y \in Writers \ {x} : w'[y] = w[y]
  BY <1>2 DEF ZoneTypeOK
<1> QED BY <1>1, <1>2, <1>3, <1>4, <1>5, <1>6 DEF Moving

(* A store writes one numbered cell, and the writer goes on or is done.    *)
LEMMA StoreEffect ==
  ASSUME ZoneTypeOK, NEW x \in Writers, StoreCell(x)
  PROVE  /\ Moving(x) /\ total' = total /\ zone'.start = zone.start
         /\ zone'.data[w[x].pos].off = Number(x) /\ zone'.data[w[x].pos] # Stale
         /\ \A s \in Slots \ {w[x].pos} : zone'.data[s] = zone.data[s]
         /\ late' = IF Overtaken(Number(x)) THEN late \cup {w[x].pos}
                                            ELSE late \ {w[x].pos}
         /\ \A y \in Writers \ {x} : w'[y] = w[y]
         /\ IF Number(x) + 1 = Goal(x) THEN ~Moving(x)'
            ELSE /\ Moving(x)' /\ Number(x)' = Number(x) + 1 /\ Goal(x)' = Goal(x)
                 /\ w'[x].off = w[x].off /\ w'[x].pos = Advance(w[x].pos, 1)
<1> DEFINE c    == w[x]
           cell == Cell(c.off + c.done, c.line, c.done + 1, c.n)
           next == IF c.done + 1 = c.n THEN Idle
                   ELSE [c EXCEPT !.done = @ + 1, !.pos = Advance(@, 1)]
<1>1. Moving(x) /\ total' = total
  BY DEF StoreCell, Moving
<1>2. c \in Copyings /\ c.off \in Nat /\ c.done \in Nat /\ c.n \in Nat /\ c.pos \in Slots
  BY <1>1, CopyingState, MovingFields, LineAssumption DEF Moving, ZoneTypeOK
<1>3. c.line \in Lines /\ c.n \in 1 .. MaxLine /\ c.done + 1 \in 1 .. MaxLine
  <2>1. c.done < c.n
    BY <1>1, MovingFields
  <2> QED BY <1>2, <2>1, LineAssumption, ZoneSizeAssumption DEF Copyings
<1>4. cell \in Cells /\ cell.off = Number(x) /\ cell # Stale
  <2>1. c.off + c.done \in Nat
    BY <1>2
  <2>2. cell \in Cells
    BY <1>3, <2>1 DEF Cell, Cells
  <2> QED BY <2>2, StaleAssumption DEF Cell, Number
<1>5. zone' = [zone EXCEPT !.data[c.pos] = cell] /\ w' = [w EXCEPT ![x] = next]
  BY DEF StoreCell, Store
<1>6. late' = IF Overtaken(Number(x)) THEN late \cup {c.pos} ELSE late \ {c.pos}
  BY DEF StoreCell, Number
<1> HIDE DEF cell
<1>7. /\ zone'.data[c.pos] = cell /\ zone'.start = zone.start
      /\ \A s \in Slots \ {c.pos} : zone'.data[s] = zone.data[s]
  <2> HIDE DEF c
  <2> QED BY <1>2, <1>5 DEF ZoneTypeOK
<1>8. IF Number(x) + 1 = Goal(x) THEN next.st # "copying"
      ELSE /\ next.st = "copying" /\ next.off = c.off /\ next.n = c.n
           /\ next.done = c.done + 1 /\ next.pos = Advance(c.pos, 1)
  <2>1. Number(x) + 1 = Goal(x) <=> c.done + 1 = c.n
    BY <1>2 DEF Number, Goal
  <2>2. CASE c.done + 1 = c.n
    BY <2>1, <2>2 DEF Idle
  <2>3. CASE c.done + 1 # c.n
    <3>1. next = [c EXCEPT !.done = @ + 1, !.pos = Advance(@, 1)]
      BY <2>3
    <3>2. /\ next.st = c.st /\ next.off = c.off /\ next.n = c.n
          /\ next.done = c.done + 1 /\ next.pos = Advance(c.pos, 1)
      BY <1>2, <3>1 DEF Copyings
    <3> QED BY <1>1, <2>1, <2>3, <3>2 DEF Moving
  <2> QED BY <2>2, <2>3
<1> HIDE DEF next
<1>9. w'[x] = next /\ \A y \in Writers \ {x} : w'[y] = w[y]
  BY <1>5 DEF ZoneTypeOK
<1>10. IF Number(x) + 1 = Goal(x) THEN ~Moving(x)'
       ELSE /\ Moving(x)' /\ Number(x)' = Number(x) + 1 /\ Goal(x)' = Goal(x)
            /\ w'[x].off = c.off /\ w'[x].pos = Advance(c.pos, 1)
  BY <1>2, <1>8, <1>9 DEF Moving, Number, Goal
<1> QED BY <1>1, <1>4, <1>6, <1>7, <1>9, <1>10

LEMMA ClaimRing ==
  ASSUME RingInv, ZoneTypeOK', NEW x \in Writers, Claim(x)
  PROVE  RingInv'
<1>1. PICK n \in 1 .. MaxLine :
           /\ total' = total + n /\ total \in Nat /\ n <= ZoneSize
           /\ zone'.start = Advance(zone.start, n) /\ zone'.data = zone.data
           /\ late' = late /\ ~Moving(x)
           /\ Moving(x)' /\ w'[x].off = total /\ w'[x].done = 0 /\ w'[x].n = n
           /\ w'[x].pos = zone.start
           /\ \A y \in Writers \ {x} : w'[y] = w[y]
  BY ClaimEffect DEF RingInv
<1>2. n \in Nat /\ n \in 0 .. ZoneSize
  BY <1>1, LineAssumption, ZoneSizeAssumption
<1>3. \A y \in Writers \ {x} :
        /\ Moving(y)' = Moving(y) /\ Number(y)' = Number(y) /\ Goal(y)' = Goal(y)
        /\ w'[y].off = w[y].off /\ w'[y].pos = w[y].pos
  BY <1>1 DEF Moving, Number, Goal
<1>4. Number(x)' = total /\ Goal(x)' = total'
  BY <1>1, <1>2 DEF Number, Goal
<1>5. Placed'
  <2>1. zone.start = total % ZoneSize
    BY DEF RingInv, Placed
  <2>2. zone'.start = total' % ZoneSize
    BY <1>1, <1>2, <2>1, AdvanceAdds
  <2>3. ASSUME NEW y \in Writers, Moving(y)'
        PROVE  Goal(y)' <= total' /\ w'[y].pos = Number(y)' % ZoneSize
    <3>1. CASE y = x
      BY <1>1, <1>2, <1>4, <2>1, <3>1
    <3>2. CASE y # x
      <4>1. Moving(y) /\ Goal(y) <= total /\ w[y].pos = Number(y) % ZoneSize
        BY <1>3, <2>3, <3>2 DEF RingInv, Placed
      <4>2. Goal(y) \in Nat
        BY <4>1, MovingFields DEF RingInv
      <4> QED BY <1>1, <1>2, <1>3, <3>2, <4>1, <4>2
    <3> QED BY <3>1, <3>2
  <2> QED BY <2>2, <2>3 DEF Placed
<1>6. Apart'
  <2> SUFFICES ASSUME NEW y \in Writers, NEW z \in Writers, y # z, Moving(y)', Moving(z)'
               PROVE  Goal(y)' <= w'[z].off \/ Goal(z)' <= w'[y].off
    BY DEF Apart
  <2>1. CASE y = x
    BY <1>1, <1>3, <2>1 DEF RingInv, Placed
  <2>2. CASE z = x
    BY <1>1, <1>3, <2>2 DEF RingInv, Placed
  <2>3. CASE y # x /\ z # x
    BY <1>3, <2>3 DEF RingInv, Apart
  <2> QED BY <2>1, <2>2, <2>3
<1>7. NewestKept'
  <2> SUFFICES ASSUME NEW o \in Nat, Newest(o)' PROVE Accounted(o)'
    BY DEF NewestKept
  <2>1. CASE o >= total
    <3>1. Holding(x, o)'
      BY <1>1, <1>2, <1>4, <2>1 DEF Holding, Newest
    <3> QED BY <3>1 DEF Accounted
  <2>2. CASE o < total
    <3>1. Newest(o)
      BY <1>1, <1>2, <2>2, ZoneSizeAssumption DEF Newest, Overtaken
    <3>2. Accounted(o)
      BY <3>1 DEF RingInv, NewestKept
    <3>3. CASE \E y \in Writers : Holding(y, o)
      <4>1. PICK y \in Writers : Holding(y, o)
        BY <3>3
      <4>2. Holding(y, o)'
        BY <1>1, <1>3, <4>1 DEF Holding
      <4> QED BY <4>2 DEF Accounted
    <3> QED BY <1>1, <3>2, <3>3 DEF Accounted, Stored
  <2> QED BY <1>1, <2>1, <2>2
<1> QED BY <1>5, <1>6, <1>7 DEF RingInv

LEMMA StorePlaced ==
  ASSUME RingInv, ZoneTypeOK', NEW x \in Writers, StoreCell(x)
  PROVE  Placed' /\ Apart'
<1>1. /\ total' = total /\ zone'.start = zone.start /\ Moving(x)
      /\ \A y \in Writers \ {x} : w'[y] = w[y]
      /\ Moving(x)' => /\ Number(x)' = Number(x) + 1 /\ Goal(x)' = Goal(x)
                       /\ w'[x].off = w[x].off /\ w'[x].pos = Advance(w[x].pos, 1)
  BY StoreEffect DEF RingInv
<1>2. \A y \in Writers \ {x} :
        /\ Moving(y)' = Moving(y) /\ Number(y)' = Number(y) /\ Goal(y)' = Goal(y)
        /\ w'[y].off = w[y].off /\ w'[y].pos = w[y].pos
  BY <1>1 DEF Moving, Number, Goal
<1>3. Goal(x) <= total /\ w[x].pos = Number(x) % ZoneSize /\ Number(x) \in Nat
  BY <1>1, MovingFields DEF RingInv, Placed
<1>4. Advance(w[x].pos, 1) = (Number(x) + 1) % ZoneSize
  <2>1. 1 \in 0 .. ZoneSize
    BY ZoneSizeAssumption
  <2> QED BY <1>3, <2>1, AdvanceAdds
<1>5. Placed'
  <2>1. ASSUME NEW y \in Writers, Moving(y)'
        PROVE  Goal(y)' <= total' /\ w'[y].pos = Number(y)' % ZoneSize
    <3>1. CASE y = x
      BY <1>1, <1>3, <1>4, <2>1, <3>1
    <3>2. CASE y # x
      BY <1>1, <1>2, <2>1, <3>2 DEF RingInv, Placed
    <3> QED BY <3>1, <3>2
  <2> QED BY <1>1, <2>1 DEF RingInv, Placed
<1>6. Apart'
  <2> SUFFICES ASSUME NEW y \in Writers, NEW z \in Writers, y # z, Moving(y)', Moving(z)'
               PROVE  Goal(y)' <= w'[z].off \/ Goal(z)' <= w'[y].off
    BY DEF Apart
  <2>1. /\ Moving(y) /\ Moving(z) /\ Goal(y)' = Goal(y) /\ Goal(z)' = Goal(z)
        /\ w'[y].off = w[y].off /\ w'[z].off = w[z].off
    BY <1>1, <1>2
  <2> QED BY <2>1 DEF RingInv, Apart
<1> QED BY <1>5, <1>6

(* The cell a store leaves is the newest of its slot, unless it came late. *)
LEMMA StoreKeeps ==
  ASSUME RingInv, ZoneTypeOK', NEW x \in Writers, StoreCell(x)
  PROVE  NewestKept'
<1> DEFINE pos == w[x].pos
<1>1. /\ Moving(x) /\ total' = total
      /\ zone'.data[pos].off = Number(x) /\ zone'.data[pos] # Stale
      /\ \A s \in Slots \ {pos} : zone'.data[s] = zone.data[s]
      /\ late' = IF Overtaken(Number(x)) THEN late \cup {pos} ELSE late \ {pos}
      /\ \A y \in Writers \ {x} : w'[y] = w[y]
      /\ Number(x) + 1 # Goal(x) =>
           Moving(x)' /\ Number(x)' = Number(x) + 1 /\ Goal(x)' = Goal(x)
  BY StoreEffect DEF RingInv
<1>2. /\ Number(x) \in Nat /\ Goal(x) \in Nat /\ Number(x) < Goal(x)
      /\ Goal(x) <= total /\ pos = Number(x) % ZoneSize
  BY <1>1, MovingFields DEF RingInv, Placed
<1>3. total \in Nat /\ ZoneSize \in Nat \ {0}
  BY ZoneSizeAssumption DEF RingInv, ZoneTypeOK
<1> HIDE DEF pos
<1> SUFFICES ASSUME NEW o \in Nat, Newest(o)' PROVE Accounted(o)'
  BY DEF NewestKept
<1>4. o < total /\ o + ZoneSize >= total
  BY <1>1, <1>3 DEF Newest, Overtaken
<1>5. Accounted(o)
  BY <1>3, <1>4 DEF RingInv, NewestKept, Newest, Overtaken
<1>6. CASE o % ZoneSize = pos
  <2>1. CASE Overtaken(Number(x))
    BY <1>1, <1>6, <2>1 DEF Accounted
  <2>2. CASE ~Overtaken(Number(x))
    <3>1. Number(x) + ZoneSize >= total
      BY <1>2, <1>3, <2>2 DEF Overtaken
    <3>2. ~(o < Number(x))
      BY <1>2, <1>3, <1>4, <1>6, SameSlot
    <3>3. ~(Number(x) < o)
      BY <1>2, <1>3, <1>4, <1>6, <3>1, SameSlot
    <3>4. o = Number(x)
      BY <1>2, <3>2, <3>3
    <3> QED BY <1>1, <1>6, <3>4 DEF Accounted, Stored
  <2> QED BY <2>1, <2>2
<1>7. CASE o % ZoneSize # pos
  <2>1. CASE o % ZoneSize \in late
    BY <1>1, <1>7, <2>1 DEF Accounted
  <2>2. CASE Stored(o)
    <3>1. o % ZoneSize \in Slots
      BY Residue
    <3> QED BY <1>1, <1>7, <2>2, <3>1 DEF Accounted, Stored
  <2>3. CASE \E y \in Writers : Holding(y, o)
    <3>1. PICK y \in Writers : Holding(y, o)
      BY <2>3
    <3>2. Holding(y, o)'
      <4>1. CASE y = x
        <5>1. o # Number(x) /\ o \in Number(x) .. Goal(x) - 1
          BY <1>2, <1>7, <3>1, <4>1 DEF Holding
        <5>2. Number(x) + 1 # Goal(x) /\ o \in Number(x) + 1 .. Goal(x) - 1
          BY <1>2, <5>1
        <5> QED BY <1>1, <4>1, <5>2 DEF Holding
      <4>2. CASE y # x
        BY <1>1, <3>1, <4>2 DEF Holding, Moving, Number, Goal
      <4> QED BY <4>1, <4>2
    <3> QED BY <3>2 DEF Accounted
  <2> QED BY <1>5, <2>1, <2>2, <2>3 DEF Accounted
<1> QED BY <1>6, <1>7

LEMMA AnnounceRing ==
  ASSUME RingInv, ZoneTypeOK', NEW x \in Writers, NEW line \in Lines, NEW n \in 1 .. MaxLine,
         Announce(x, line, n)
  PROVE  RingInv'
<1>1. /\ w' = [w EXCEPT ![x] = Sized(line, n)] /\ total' = total /\ late' = late
      /\ zone'.start = zone.start /\ zone'.data = zone.data /\ ~Moving(x)
  BY DEF Announce, SizeAdd, RingInv, ZoneTypeOK, Busy, Moving
<1>2. ~Moving(x)'
  BY <1>1 DEF Moving, Sized, RingInv, ZoneTypeOK
<1>3. \A y \in Writers \ {x} : w'[y] = w[y]
  BY <1>1 DEF RingInv, ZoneTypeOK
<1>4. \A y \in Writers :
        /\ Moving(y)' = Moving(y)
        /\ Moving(y) => w'[y] = w[y] /\ Number(y)' = Number(y) /\ Goal(y)' = Goal(y)
  BY <1>1, <1>2, <1>3 DEF Moving, Number, Goal
<1>5. Placed' /\ Apart'
  BY <1>1, <1>4 DEF RingInv, Placed, Apart
<1>6. NewestKept'
  <2> SUFFICES ASSUME NEW o \in Nat, Newest(o)' PROVE Accounted(o)'
    BY DEF NewestKept
  <2>1. Accounted(o)
    BY <1>1 DEF RingInv, NewestKept, Newest, Overtaken
  <2>2. \A y \in Writers : Holding(y, o) => Holding(y, o)'
    BY <1>4 DEF Holding
  <2> QED BY <1>1, <2>1, <2>2 DEF Accounted, Stored
<1> QED BY <1>5, <1>6 DEF RingInv

(* A zapped ring with idle writers: no number was claimed, start is slot 0.*)
LEMMA ZappedRing ==
  ASSUME NEW z, NEW ww, z = ZappedZone, ww = [x \in Writers |-> Idle]
  PROVE  z.start = 0 % ZoneSize /\ \A x \in Writers : ww[x].st # "copying"
<1>1. 0 % ZoneSize = 0
  <2>1. 0 \in Slots /\ 0 \in Nat /\ 0 = 0 * ZoneSize + 0
    BY ZoneSizeAssumption DEF Slots
  <2> QED BY <2>1, ResidueUnique
<1> QED BY <1>1 DEF ZappedZone, Idle

LEMMA RingInit == ZoneInit => RingInv
<1> SUFFICES ASSUME ZoneInit PROVE RingInv
  OBVIOUS
<1>1. total = 0 /\ zone.start = 0 % ZoneSize /\ \A x \in Writers : ~Moving(x)
  BY ZappedRing DEF ZoneInit, Moving
<1> QED BY <1>1, ZoneTypeInit DEF RingInv, Placed, Apart, NewestKept, Newest

LEMMA ZapRing == ASSUME Zap, ZoneTypeOK' PROVE RingInv'
<1>1. total' = 0 /\ zone'.start = 0 % ZoneSize /\ \A x \in Writers : ~Moving(x)'
  BY ZappedRing DEF Zap, Moving
<1> QED BY <1>1 DEF RingInv, Placed, Apart, NewestKept, Newest

LEMMA StillRing ==
  ASSUME RingInv, ZoneTypeOK', UNCHANGED <<zone, w, total, late>> PROVE RingInv'
<1>1. \A x \in Writers : /\ Moving(x)' = Moving(x) /\ Number(x)' = Number(x)
                         /\ Goal(x)' = Goal(x)
  BY DEF Moving, Number, Goal
<1>2. Placed' /\ Apart'
  BY <1>1 DEF RingInv, Placed, Apart
<1>3. \A o \in Nat : Newest(o)' = Newest(o) /\ Accounted(o)' = Accounted(o)
  BY <1>1 DEF Newest, Overtaken, Accounted, Holding, Stored
<1> QED BY <1>2, <1>3 DEF RingInv, NewestKept

LEMMA RingStep == RingInv /\ [ZoneNext]_zoneVars => RingInv'
<1> SUFFICES ASSUME RingInv, [ZoneNext]_zoneVars PROVE RingInv'
  OBVIOUS
<1>0. ZoneTypeOK'
  BY ZoneTypeStep DEF RingInv
<1>1. ASSUME NEW x \in Writers, WriterStep(x) PROVE RingInv'
  <2>1. CASE \E line \in Lines, n \in 1 .. MaxLine : Announce(x, line, n)
    BY <1>0, <2>1, AnnounceRing
  <2>2. CASE Claim(x)
    BY <1>0, <2>2, ClaimRing
  <2>3. CASE StoreCell(x)
    BY <1>0, <2>3, StorePlaced, StoreKeeps DEF RingInv
  <2> QED BY <1>1, <2>1, <2>2, <2>3 DEF WriterStep
<1>2. CASE Zap
  BY <1>0, <1>2, ZapRing
<1>3. CASE HardReset
  BY <1>0, <1>3, StillRing DEF HardReset
<1>4. CASE UNCHANGED zoneVars
  BY <1>0, <1>4, StillRing DEF zoneVars
<1> QED BY <1>1, <1>2, <1>3, <1>4 DEF ZoneNext

(* The ring's inductive invariant: where every writer stands, that the     *)
(* numbers in flight are apart, and where the newest cell of a slot is.    *)
THEOREM RingInvariant == ZoneSpec => []RingInv
BY RingInit, RingStep, PTL DEF ZoneSpec

(* A slot in flight is the slot of a number its writer has still to store. *)
LEMMA InFlightNumber ==
  ASSUME RingInv, NEW x \in Writers, NEW s \in InFlight(x)
  PROVE  \E a \in Nat : Holding(x, a) /\ s = a % ZoneSize
<1>1. Moving(x)
  BY DEF InFlight, Moving
<1>2. PICK k \in 0 .. Left(x) - 1 : s = Advance(w[x].pos, k)
  BY <1>1 DEF InFlight, Moving
<1>3. /\ w[x].off \in Nat /\ w[x].n \in Nat /\ w[x].done \in Nat /\ w[x].n <= ZoneSize
      /\ w[x].pos = Number(x) % ZoneSize /\ Number(x) \in Nat
  BY <1>1, MovingFields, LineAssumption DEF RingInv, Placed
<1>4. k \in 0 .. ZoneSize /\ Number(x) + k \in Number(x) .. Goal(x) - 1
  BY <1>2, <1>3, ZoneSizeAssumption DEF Left, Number, Goal
<1>5. s = (Number(x) + k) % ZoneSize
  BY <1>2, <1>3, <1>4, AdvanceAdds
<1> QED BY <1>1, <1>3, <1>4, <1>5 DEF Holding

(* Numbers of two writers that meet in a slot are a lap apart.             *)
LEMMA MeetingLaps ==
  ASSUME RingInv, NEW x \in Writers, NEW y \in Writers, NEW a \in Nat, NEW b \in Nat,
         Holding(x, a), Holding(y, b), a % ZoneSize = b % ZoneSize, a < b
  PROVE  total - Number(x) > ZoneSize
<1>1. a + ZoneSize <= b
  BY SameSlot
<1>2. /\ Number(x) \in Nat /\ Number(x) <= a
      /\ Goal(y) \in Nat /\ b < Goal(y) /\ Goal(y) <= total /\ Moving(x) /\ Moving(y)
  BY MovingFields DEF Holding, RingInv, Placed
<1>3. total \in Nat /\ ZoneSize \in Nat
  BY ZoneSizeAssumption DEF RingInv, ZoneTypeOK
<1> QED BY <1>1, <1>2, <1>3

LEMMA RingDisjoint == RingInv => ClaimsDisjoint
<1> SUFFICES ASSUME RingInv, NEW x \in Writers, NEW y \in Writers, x # y,
                    InFlight(x) \cap InFlight(y) # {}
             PROVE  \E z \in {x, y} : total - (w[z].off + w[z].done) > ZoneSize
  BY DEF ClaimsDisjoint
<1>1. PICK s : s \in InFlight(x) /\ s \in InFlight(y)
  OBVIOUS
<1>2. PICK a \in Nat : Holding(x, a) /\ s = a % ZoneSize
  BY <1>1, InFlightNumber
<1>3. PICK b \in Nat : Holding(y, b) /\ s = b % ZoneSize
  BY <1>1, InFlightNumber
<1>4. a # b
  <2>1. /\ w[x].off \in Nat /\ w[y].off \in Nat /\ w[x].done \in Nat /\ w[y].done \in Nat
        /\ Number(x) <= a /\ a < Goal(x) /\ Number(y) <= b /\ b < Goal(y)
        /\ Goal(x) \in Nat /\ Goal(y) \in Nat /\ Moving(x) /\ Moving(y)
    BY <1>2, <1>3, MovingFields DEF Holding, RingInv
  <2>2. Goal(x) <= w[y].off \/ Goal(y) <= w[x].off
    BY <2>1 DEF RingInv, Apart
  <2>3. w[x].off <= a /\ w[y].off <= b
    BY <2>1 DEF Number
  <2> QED BY <2>1, <2>2, <2>3
<1>5. CASE a < b
  BY <1>2, <1>3, <1>5, MeetingLaps DEF Number
<1>6. CASE b < a
  BY <1>2, <1>3, <1>6, MeetingLaps DEF Number
<1> QED BY <1>4, <1>5, <1>6

(* Two writes in flight never share a slot unless one of them has been     *)
(* overtaken by a whole lap, for every ring size and every set of lines.   *)
THEOREM ClaimsAlwaysDisjoint == ZoneSpec => []ClaimsDisjoint
BY RingDisjoint, RingInvariant, PTL

(* Every slot of a claimed number has a newest one, and only one.          *)
LEMMA NewestExists ==
  ASSUME NEW t \in Nat, NEW s \in Slots, s < t
  PROVE  \E o \in 0 .. t - 1 : o % ZoneSize = s /\ o + ZoneSize >= t
<1> DEFINE d == t - 1 - s
           r == d % ZoneSize
           o == t - 1 - r
<1>1. s \in Nat /\ d \in Nat /\ d = t - 1 - s /\ ZoneSize \in Nat \ {0}
  BY ZoneSizeAssumption DEF Slots
<1> HIDE DEF d
<1>2. PICK q \in Nat : d = q * ZoneSize + r
  BY <1>1, Residue
<1>3. r \in 0 .. ZoneSize - 1
  BY <1>1, Residue DEF Slots
<1> DEFINE qz == q * ZoneSize
<1>4. qz \in Nat /\ d = qz + r
  BY <1>1, <1>2
<1> HIDE DEF r, qz
<1>5. o = qz + s /\ o \in 0 .. t - 1 /\ o + ZoneSize >= t
  BY <1>1, <1>3, <1>4
<1> HIDE DEF o
<1>6. o % ZoneSize = s
  BY <1>5, ResidueUnique DEF qz
<1> QED BY <1>5, <1>6

LEMMA LastClaimedIs ==
  ASSUME total \in Nat, NEW s \in Slots, s < total
  PROVE  LastClaimed(s) \in Nat /\ LastClaimed(s) % ZoneSize = s /\ Newest(LastClaimed(s))
<1>1. \E o \in 0 .. total - 1 : o % ZoneSize = s /\ o + ZoneSize >= total
  BY NewestExists
<1>2. /\ LastClaimed(s) \in 0 .. total - 1 /\ LastClaimed(s) % ZoneSize = s
      /\ LastClaimed(s) + ZoneSize >= total
  BY <1>1 DEF LastClaimed
<1> HIDE DEF LastClaimed
<1> QED BY <1>2, ZoneSizeAssumption DEF Newest, Overtaken

(* A number still to be stored and not claimed over is one a reset tears.  *)
LEMMA HeldIsTorn ==
  ASSUME RingInv, NEW x \in Writers, NEW o \in Nat, Holding(x, o), ~Overtaken(o)
  PROVE  o % ZoneSize \in Torn
<1> DEFINE j == o - Number(x)
<1>1. /\ Moving(x) /\ w[x].off \in Nat /\ w[x].n \in Nat /\ w[x].done \in Nat
      /\ w[x].n <= ZoneSize /\ w[x].pos = Number(x) % ZoneSize /\ Number(x) \in Nat
      /\ o \in Number(x) .. Goal(x) - 1
  BY MovingFields, LineAssumption DEF RingInv, Placed, Holding
<1>2. j \in 0 .. Left(x) - 1 /\ j \in 0 .. ZoneSize /\ Number(x) + j = o
  BY <1>1, ZoneSizeAssumption DEF Left, Number, Goal
<1> HIDE DEF j
<1>3. Advance(w[x].pos, j) = o % ZoneSize
  BY <1>1, <1>2, AdvanceAdds
<1>4. ~Overtaken(w[x].off + w[x].done + j)
  BY <1>2 DEF Number
<1>5. o % ZoneSize \in TornBy(x)
  BY <1>1, <1>2, <1>3, <1>4 DEF TornBy, Moving
<1> QED BY <1>5 DEF Torn

LEMMA RingTorn == RingInv => TornOnlyInFlight
<1> SUFFICES ASSUME RingInv, NEW s \in Slots, s < total, s \notin late, s \notin Torn
             PROVE  zone.data[s] # Stale /\ zone.data[s].off = LastClaimed(s)
  <2>1. \A s \in Slots : RingInv => (s >= total \/ s < total)
    BY ZoneSizeAssumption DEF RingInv, ZoneTypeOK, Slots
  <2> QED BY <2>1 DEF TornOnlyInFlight
<1> DEFINE o == LastClaimed(s)
<1>1. o \in Nat /\ o % ZoneSize = s /\ Newest(o)
  BY LastClaimedIs DEF RingInv, ZoneTypeOK
<1> HIDE DEF o
<1>2. Accounted(o) /\ ~Overtaken(o)
  BY <1>1 DEF RingInv, NewestKept, Newest
<1>3. ~\E x \in Writers : Holding(x, o)
  BY <1>1, <1>2, HeldIsTorn
<1>4. Stored(o)
  BY <1>1, <1>2, <1>3 DEF Accounted
<1> QED BY <1>1, <1>4 DEF Stored, o

(* Whenever a hard reset falls, a claimed slot that no write in flight     *)
(* covers and no overtaken writer stored into holds the cell claimed there *)
(* last.                                                                   *)
THEOREM OnlyInFlightTorn == ZoneSpec => []TornOnlyInFlight
BY RingTorn, RingInvariant, PTL


------------------------------------------------------------------------------
(***************************************************************************)
(* The boot.  The boot thread is always in a segment of the program, and   *)
(* the texts are numbered: so every line it writes is one of its lines.    *)
(***************************************************************************)
BootPlaced == boot \in [seg : Segments, pc : Int] /\ texts \in Nat

LEMMA OpLine ==
  ASSUME BootPlaced, Ready("mark")
  PROVE  Op.line \in Lines
<1>1. Op \in ToSet(Program[boot.seg])
  BY DEF Ready, Op, OpAt, ToSet
<1>2. Op \in ScriptOps /\ Op.op = "mark"
  BY <1>1 DEF ScriptOps, Ready, BootPlaced
<1>3. Op.line \in AllLines
  BY <1>2 DEF ScriptLines, AllLines
<1> QED BY <1>3, LinesAssumption

LEMMA StartPlaced ==
  ASSUME NEW s \in Segments
  PROVE  At(s, 1) \in [seg : Segments, pc : Int]
BY DEF At

LEMMA NextPlaced == BootPlaced => NextOp \in [seg : Segments, pc : Int]
BY DEF BootPlaced, NextOp

LEMMA FixedInSegments == "freeable" \in Segments /\ "panic" \in Segments
BY DEF Segments, FixedSegments

LEMMA PlacedStep == BootPlaced /\ [Next]_vars => BootPlaced'
<1> SUFFICES ASSUME BootPlaced, [Next]_vars
             PROVE  BootPlaced'
  OBVIOUS
<1>1. CASE CreateZone \/ RegisterConsole \/ MarkDropped \/ StatementReturns
  BY <1>1, NextPlaced DEF CreateZone, RegisterConsole, MarkDropped, StatementReturns, BootPlaced
<1>2. CASE CreateFails
  BY <1>2 DEF CreateFails, BootPlaced
<1>3. CASE MarkBegins \/ MarkClaims
  BY <1>3 DEF MarkBegins, MarkClaims, bootVars, BootPlaced
<1>4. CASE MarkStores
  BY <1>4, NextPlaced DEF MarkStores, BootPlaced
<1>5. CASE StatementPanics
  BY <1>5, StartPlaced, FixedInSegments DEF StatementPanics, BootPlaced
<1>6. CASE TakeBranch
  BY <1>6, StartPlaced DEF TakeBranch, BootPlaced
<1>7. CASE ConsoleBegins \/ ConsoleWrites \/ FirstIrq \/ IrqWrites \/ Reset
  BY <1>7 DEF ConsoleBegins, ConsoleWrites, FirstIrq, IrqWrites, Reset, bootVars, BootPlaced
<1>8. CASE BootAgain
  BY <1>8, StartPlaced, FixedInSegments DEF BootAgain, BootPlaced
<1>9. CASE UNCHANGED vars
  BY <1>9 DEF vars, bootVars, BootPlaced
<1> QED BY <1>1, <1>2, <1>3, <1>4, <1>5, <1>6, <1>7, <1>8, <1>9 DEF Next, BootThread

------------------------------------------------------------------------------
LEMMA BootThreadZone ==
  ASSUME BootPlaced, BootThread
  PROVE  [ZoneNext]_zoneVars
<1>1. CASE CreateZone
  BY <1>1 DEF CreateZone, ZoneNext
<1>2. CASE MarkBegins
  <2>1. MarkCells \in 1 .. MaxLine /\ Op.line \in Lines
    BY <1>2, RecorderAssumption, OpLine DEF MarkBegins
  <2>2. WriterStep("boot")
    BY <1>2, <2>1 DEF MarkBegins, WriterStep
  <2> QED BY <2>2 DEF ZoneNext, Writers
<1>3. CASE MarkClaims
  BY <1>3 DEF MarkClaims, WriterStep, ZoneNext, Writers
<1>4. CASE MarkStores
  BY <1>4 DEF MarkStores, WriterStep, ZoneNext, Writers
<1>5. CASE \/ CreateFails \/ RegisterConsole \/ MarkDropped
           \/ StatementReturns \/ StatementPanics \/ TakeBranch
  BY <1>5 DEF CreateFails, RegisterConsole, MarkDropped, StatementReturns,
              StatementPanics, TakeBranch
<1> QED BY <1>1, <1>2, <1>3, <1>4, <1>5 DEF BootThread

LEMMA ConsoleZone ==
  ASSUME BootPlaced, ConsoleBegins \/ ConsoleWrites
  PROVE  [ZoneNext]_zoneVars
<1>1. CASE ConsoleBegins
  <2>1. texts + 1 \in 1 .. MaxTexts
    BY <1>1, RecorderAssumption DEF ConsoleBegins, BootPlaced
  <2>2. TextLine(texts + 1) \in Lines
    BY <2>1, LinesAssumption DEF AllLines
  <2>3. WriterStep("console")
    BY <1>1, <2>2, RecorderAssumption DEF ConsoleBegins, WriterStep
  <2> QED BY <2>3 DEF ZoneNext, Writers
<1>2. CASE ConsoleWrites
  BY <1>2 DEF ConsoleWrites, WriterStep, ZoneNext, Writers
<1> QED BY <1>1, <1>2

LEMMA IrqZone ==
  ASSUME FirstIrq \/ IrqWrites
  PROVE  [ZoneNext]_zoneVars
<1>1. CASE FirstIrq
  <2>1. IrqLine \in Lines /\ MarkCells \in 1 .. MaxLine
    BY LinesAssumption, RecorderAssumption DEF AllLines
  <2>2. CASE live
    <3>1. WriterStep("irq")
      BY <1>1, <2>1, <2>2 DEF FirstIrq, WriterStep
    <3> QED BY <3>1 DEF ZoneNext, Writers
  <2>3. CASE ~live
    BY <1>1, <2>3 DEF FirstIrq
  <2> QED BY <2>2, <2>3
<1>2. CASE IrqWrites
  BY <1>2 DEF IrqWrites, WriterStep, ZoneNext, Writers
<1> QED BY <1>1, <1>2

LEMMA ZoneStepOfBoot == BootPlaced /\ [Next]_vars => [ZoneNext]_zoneVars
<1> SUFFICES ASSUME BootPlaced, [Next]_vars
             PROVE  [ZoneNext]_zoneVars
  OBVIOUS
<1>1. CASE BootThread
  BY <1>1, BootThreadZone
<1>2. CASE ConsoleBegins \/ ConsoleWrites
  BY <1>2, ConsoleZone
<1>3. CASE FirstIrq \/ IrqWrites
  BY <1>3, IrqZone
<1>4. CASE Reset
  BY <1>4 DEF Reset, ZoneNext
<1>5. CASE BootAgain
  BY <1>5 DEF BootAgain
<1>6. CASE UNCHANGED vars
  BY <1>6 DEF vars
<1> QED BY <1>1, <1>2, <1>3, <1>4, <1>5, <1>6 DEF Next

(* A diagnostic boot is a behaviour of its zone: whatever is instrumented  *)
(* and wherever the boot hangs, panics or is reset, the zone sees only     *)
(* whole writer steps, creations and resets.                               *)
THEOREM BootImplementsZone == Spec => ZoneSpec
<1>1. BootInit => BootPlaced /\ ZoneInit
  BY StartPlaced, FixedInSegments DEF BootInit, BootPlaced
<1> QED BY <1>1, PlacedStep, ZoneStepOfBoot, PTL DEF Spec, ZoneSpec

(* So in every boot of every instrumented program, a hard reset at any     *)
(* moment leaves a log the recovery's decoder accepts as a whole.          *)
THEOREM BootHeaderSurvives == Spec => []HeaderSurvives
BY BootImplementsZone, HeaderAlwaysSurvives, PTL

(* ... and no slot of that log is torn or mixed but those a write was      *)
(* going to, or that an overtaken writer stored into.                      *)
THEOREM BootTearsOnlyInFlight == Spec => [](ClaimsDisjoint /\ TornOnlyInFlight)
BY BootImplementsZone, ClaimsAlwaysDisjoint, OnlyInFlightTorn, PTL

------------------------------------------------------------------------------
(***************************************************************************)
(* Induction, from the well-foundedness of < : stated for a set, which the *)
(* provers can instantiate, and not for a predicate.                       *)
(***************************************************************************)
Less == {x \in Nat \X Nat : x[1] < x[2]}

LEMMA Smallest ==
  ASSUME NEW T \in SUBSET Nat, T # {}
  PROVE  \E x \in T : \A y \in T : x <= y
<1>1. Less = OpToRel(<, Nat)
  BY DEF Less, OpToRel
<1>2. IsWellFoundedOn(Less, Nat)
  BY <1>1, NatLessThanWellFounded
<1>3. PICK x \in T : \A y \in T : ~(<<y, x>> \in Less)
  BY <1>2, WFMin
<1>4. ASSUME NEW y \in T, y < x PROVE FALSE
  <2>1. <<y, x>> \in Nat \X Nat /\ <<y, x>>[1] < <<y, x>>[2]
    BY <1>4
  <2> QED BY <1>3, <2>1 DEF Less
<1> QED BY <1>4

LEMMA Induction ==
  ASSUME NEW T, 0 \in T, \A n \in Nat : n \in T => n + 1 \in T
  PROVE  Nat \subseteq T
<1> SUFFICES ASSUME Nat \ T # {} PROVE FALSE
  OBVIOUS
<1>1. PICK x \in Nat \ T : \A y \in Nat \ T : x <= y
  BY Smallest
<1>2. x - 1 \in Nat /\ x - 1 \notin Nat \ T
  BY <1>1
<1> QED BY <1>1, <1>2

(***************************************************************************)
(* The instrumented program.  A fragment of it is well marked when a BEGIN *)
(* line stands just before its initcall and nowhere else, and every        *)
(* initcall just after its BEGIN line and before its END line.             *)
(***************************************************************************)
InitTags == {"BEGIN", "END"}

BeginLine(f) == Line("BEGIN", f, 1)
EndLine(f)   == Line("END", f, 1)

IsList(s) == \E S : s \in Seq(S)

BeginsWell(s) ==
  \A i \in DOMAIN s : s[i].op = "mark" /\ s[i].line.tag = "BEGIN" =>
    \E f \in InitcallNames :
      s[i] = Mark(BeginLine(f)) /\ i + 1 \in DOMAIN s /\ s[i + 1] = Run(f)

RunsWell(s) ==
  \A i \in DOMAIN s : \A f \in InitcallNames : s[i] = Run(f) =>
    /\ i - 1 \in DOMAIN s /\ s[i - 1] = Mark(BeginLine(f))
    /\ i + 1 \in DOMAIN s /\ s[i + 1] = Mark(EndLine(f))

(* A copy of a triplet stands behind the copies before it and in front of  *)
(* those after it.                                                         *)
CopiesWell(s) ==
  \A i \in DOMAIN s : s[i].op = "mark" /\ s[i].line.tag \in TripletTags =>
    \E tag, of, c :
      /\ c \in 1 .. 3 /\ s[i] = Mark(Line(tag, of, c))
      /\ c > 1 => i - 1 \in DOMAIN s /\ s[i - 1] = Mark(Line(tag, of, c - 1))
      /\ c < 3 => i + 1 \in DOMAIN s /\ s[i + 1] = Mark(Line(tag, of, c + 1))

(* What a failed creation skips ends in the CONSOLE line.                  *)
CreatesWell(s) ==
  \A i \in DOMAIN s : s[i].op = "create" =>
    i + 3 \in DOMAIN s /\ s[i + 3] = Mark(Line("CONSOLE", "zone", 1))

Tripled(s) == CopiesWell(s) /\ CreatesWell(s)

WellMarked(s) == IsList(s) /\ BeginsWell(s) /\ RunsWell(s) /\ Tripled(s)

(* A fragment without initcalls and their lines.                           *)
Aside(op) == ~(op.op = "mark" /\ op.line.tag \in InitTags) /\ \A f \in InitcallNames : op # Run(f)

Plain(s) == IsList(s) /\ Tripled(s) /\ \A i \in DOMAIN s : Aside(s[i])

LEMMA JoinedList ==
  ASSUME NEW s, NEW t, IsList(s), IsList(t)
  PROVE  /\ IsList(s \o t)
         /\ Len(s) \in Nat /\ Len(t) \in Nat
         /\ DOMAIN s = 1 .. Len(s) /\ DOMAIN t = 1 .. Len(t)
         /\ DOMAIN (s \o t) = 1 .. Len(s) + Len(t)
         /\ \A i \in 1 .. Len(s) + Len(t) :
              (s \o t)[i] = IF i <= Len(s) THEN s[i] ELSE t[i - Len(s)]
<1>1. PICK S : s \in Seq(S)
  BY DEF IsList
<1>2. PICK R : t \in Seq(R)
  BY DEF IsList
<1> DEFINE U == S \cup R
<1>3. s \in Seq(U) /\ t \in Seq(U)
  BY <1>1, <1>2
<1> HIDE DEF U
<1>4. /\ s \o t \in Seq(U) /\ Len(s \o t) = Len(s) + Len(t)
      /\ \A i \in 1 .. Len(s) + Len(t) :
           (s \o t)[i] = IF i <= Len(s) THEN s[i] ELSE t[i - Len(s)]
  BY <1>3, ConcatProperties
<1>5. Len(s) \in Nat /\ Len(t) \in Nat /\ DOMAIN s = 1 .. Len(s) /\ DOMAIN t = 1 .. Len(t)
  BY <1>3
<1>6. DOMAIN (s \o t) = 1 .. Len(s \o t)
  BY <1>4
<1> QED BY <1>4, <1>5, <1>6 DEF IsList

(* Fragments one after the other stay what they are.                       *)
LEMMA JoinedTripled ==
  ASSUME NEW s, NEW t, IsList(s), IsList(t), Tripled(s), Tripled(t)
  PROVE  Tripled(s \o t)
<1> DEFINE u == s \o t
           m == Len(s)
           n == Len(t)
<1>1. /\ m \in Nat /\ n \in Nat
      /\ DOMAIN s = 1 .. m /\ DOMAIN t = 1 .. n /\ DOMAIN u = 1 .. m + n
      /\ \A i \in 1 .. m + n : u[i] = IF i <= m THEN s[i] ELSE t[i - m]
  BY JoinedList
<1> HIDE DEF u, m, n
<1>2. \A i \in 1 .. m : i \in DOMAIN u /\ u[i] = s[i]
  BY <1>1
<1>3. \A i \in 1 .. n : i + m \in DOMAIN u /\ u[i + m] = t[i]
  BY <1>1
<1>4. \A i \in DOMAIN u : i \in 1 .. m \/ (i > m /\ i - m \in 1 .. n /\ i = (i - m) + m)
  BY <1>1
<1>5. CopiesWell(u)
  <2> SUFFICES ASSUME NEW i \in DOMAIN u, u[i].op = "mark", u[i].line.tag \in TripletTags
               PROVE  \E tag, of, c :
                        /\ c \in 1 .. 3 /\ u[i] = Mark(Line(tag, of, c))
                        /\ c > 1 => i - 1 \in DOMAIN u /\ u[i - 1] = Mark(Line(tag, of, c - 1))
                        /\ c < 3 => i + 1 \in DOMAIN u /\ u[i + 1] = Mark(Line(tag, of, c + 1))
    BY DEF CopiesWell
  <2>1. CASE i \in 1 .. m
    <3>0. i \in DOMAIN s /\ s[i].op = "mark" /\ s[i].line.tag \in TripletTags /\ CopiesWell(s)
      BY <1>1, <1>2, <2>1 DEF Tripled
    <3>1. PICK tag, of, c :
            /\ c \in 1 .. 3 /\ s[i] = Mark(Line(tag, of, c))
            /\ c > 1 => i - 1 \in DOMAIN s /\ s[i - 1] = Mark(Line(tag, of, c - 1))
            /\ c < 3 => i + 1 \in DOMAIN s /\ s[i + 1] = Mark(Line(tag, of, c + 1))
      BY <3>0 DEF CopiesWell
    <3>2. /\ c > 1 => i - 1 \in DOMAIN u /\ u[i - 1] = Mark(Line(tag, of, c - 1))
          /\ c < 3 => i + 1 \in DOMAIN u /\ u[i + 1] = Mark(Line(tag, of, c + 1))
      BY <1>1, <1>2, <3>1
    <3> QED BY <1>2, <2>1, <3>1, <3>2
  <2>2. CASE i > m
    <3> DEFINE j == i - m
    <3>1. /\ j \in 1 .. n /\ u[i] = t[j] /\ i = j + m
          /\ i + 1 = (j + 1) + m /\ i - 1 = (j - 1) + m
      BY <1>1, <1>3, <1>4, <2>2
    <3> HIDE DEF j
    <3>0. j \in DOMAIN t /\ t[j].op = "mark" /\ t[j].line.tag \in TripletTags /\ CopiesWell(t)
      BY <1>1, <3>1 DEF Tripled
    <3>2. PICK tag, of, c :
            /\ c \in 1 .. 3 /\ t[j] = Mark(Line(tag, of, c))
            /\ c > 1 => j - 1 \in DOMAIN t /\ t[j - 1] = Mark(Line(tag, of, c - 1))
            /\ c < 3 => j + 1 \in DOMAIN t /\ t[j + 1] = Mark(Line(tag, of, c + 1))
      BY <3>0 DEF CopiesWell
    <3>3. /\ c > 1 => i - 1 \in DOMAIN u /\ u[i - 1] = Mark(Line(tag, of, c - 1))
          /\ c < 3 => i + 1 \in DOMAIN u /\ u[i + 1] = Mark(Line(tag, of, c + 1))
      BY <1>1, <1>3, <3>1, <3>2
    <3> QED BY <3>1, <3>2, <3>3
  <2> QED BY <1>4, <2>1, <2>2
<1>6. CreatesWell(u)
  <2> SUFFICES ASSUME NEW i \in DOMAIN u, u[i].op = "create"
               PROVE  i + 3 \in DOMAIN u /\ u[i + 3] = Mark(Line("CONSOLE", "zone", 1))
    BY DEF CreatesWell
  <2>1. CASE i \in 1 .. m
    <3>1. i + 3 \in DOMAIN s /\ s[i + 3] = Mark(Line("CONSOLE", "zone", 1))
      BY <1>1, <1>2, <2>1 DEF Tripled, CreatesWell
    <3> QED BY <1>1, <1>2, <2>1, <3>1
  <2>2. CASE i > m
    <3> DEFINE j == i - m
    <3>1. j \in 1 .. n /\ u[i] = t[j] /\ i = j + m /\ i + 3 = (j + 3) + m
      BY <1>1, <1>3, <1>4, <2>2
    <3> HIDE DEF j
    <3>2. j + 3 \in DOMAIN t /\ t[j + 3] = Mark(Line("CONSOLE", "zone", 1))
      BY <1>1, <3>1 DEF Tripled, CreatesWell
    <3> QED BY <1>1, <1>3, <3>1, <3>2
  <2> QED BY <1>4, <2>1, <2>2
<1> QED BY <1>5, <1>6 DEF Tripled, u

LEMMA JoinedMarked ==
  ASSUME NEW s, NEW t, WellMarked(s), WellMarked(t)
  PROVE  WellMarked(s \o t)
<1> DEFINE u == s \o t
           m == Len(s)
           n == Len(t)
<1>1. /\ IsList(u) /\ m \in Nat /\ n \in Nat
      /\ DOMAIN s = 1 .. m /\ DOMAIN t = 1 .. n /\ DOMAIN u = 1 .. m + n
      /\ \A i \in 1 .. m + n : u[i] = IF i <= m THEN s[i] ELSE t[i - m]
  BY JoinedList DEF WellMarked
<1> HIDE DEF u, m, n
<1>2. \A i \in 1 .. m : i \in DOMAIN u /\ u[i] = s[i]
  BY <1>1
<1>3. \A i \in 1 .. n : i + m \in DOMAIN u /\ u[i + m] = t[i]
  BY <1>1
<1>4. \A i \in DOMAIN u : i \in 1 .. m \/ (i > m /\ i - m \in 1 .. n /\ i = (i - m) + m)
  BY <1>1
<1>5. BeginsWell(u)
  <2> SUFFICES ASSUME NEW i \in DOMAIN u, u[i].op = "mark", u[i].line.tag = "BEGIN"
               PROVE  \E f \in InitcallNames :
                        u[i] = Mark(BeginLine(f)) /\ i + 1 \in DOMAIN u /\ u[i + 1] = Run(f)
    BY DEF BeginsWell
  <2>1. CASE i \in 1 .. m
    <3>1. PICK f \in InitcallNames :
            s[i] = Mark(BeginLine(f)) /\ i + 1 \in DOMAIN s /\ s[i + 1] = Run(f)
      BY <1>1, <1>2, <2>1 DEF WellMarked, BeginsWell
    <3> QED BY <1>1, <1>2, <2>1, <3>1
  <2>2. CASE i > m
    <3> DEFINE j == i - m
    <3>1. j \in 1 .. n /\ u[i] = t[j] /\ i = j + m /\ i + 1 = (j + 1) + m
      BY <1>1, <1>3, <1>4, <2>2
    <3> HIDE DEF j
    <3>2. PICK f \in InitcallNames :
            t[j] = Mark(BeginLine(f)) /\ j + 1 \in DOMAIN t /\ t[j + 1] = Run(f)
      BY <1>1, <3>1 DEF WellMarked, BeginsWell
    <3> QED BY <1>1, <1>3, <3>1, <3>2
  <2> QED BY <1>4, <2>1, <2>2
<1>6. RunsWell(u)
  <2> SUFFICES ASSUME NEW i \in DOMAIN u, NEW f \in InitcallNames, u[i] = Run(f)
               PROVE  /\ i - 1 \in DOMAIN u /\ u[i - 1] = Mark(BeginLine(f))
                      /\ i + 1 \in DOMAIN u /\ u[i + 1] = Mark(EndLine(f))
    BY DEF RunsWell
  <2>1. CASE i \in 1 .. m
    <3>1. /\ i - 1 \in DOMAIN s /\ s[i - 1] = Mark(BeginLine(f))
          /\ i + 1 \in DOMAIN s /\ s[i + 1] = Mark(EndLine(f))
      BY <1>1, <1>2, <2>1 DEF WellMarked, RunsWell
    <3> QED BY <1>1, <1>2, <2>1, <3>1
  <2>2. CASE i > m
    <3> DEFINE j == i - m
    <3>1. /\ j \in 1 .. n /\ u[i] = t[j] /\ i = j + m
          /\ i + 1 = (j + 1) + m /\ i - 1 = (j - 1) + m
      BY <1>1, <1>3, <1>4, <2>2
    <3> HIDE DEF j
    <3>2. /\ j - 1 \in DOMAIN t /\ t[j - 1] = Mark(BeginLine(f))
          /\ j + 1 \in DOMAIN t /\ t[j + 1] = Mark(EndLine(f))
      BY <1>1, <3>1 DEF WellMarked, RunsWell
    <3> QED BY <1>1, <1>3, <3>1, <3>2
  <2> QED BY <1>4, <2>1, <2>2
<1>7. Tripled(s \o t)
  BY JoinedTripled DEF WellMarked
<1> QED BY <1>1, <1>5, <1>6, <1>7 DEF WellMarked, u

LEMMA JoinedPlain ==
  ASSUME NEW s, NEW t, Plain(s), Plain(t)
  PROVE  Plain(s \o t)
<1> DEFINE u == s \o t
           m == Len(s)
           n == Len(t)
<1>1. /\ IsList(u) /\ m \in Nat /\ n \in Nat
      /\ DOMAIN s = 1 .. m /\ DOMAIN t = 1 .. n /\ DOMAIN u = 1 .. m + n
      /\ \A i \in 1 .. m + n : u[i] = IF i <= m THEN s[i] ELSE t[i - m]
  BY JoinedList DEF Plain
<1> HIDE DEF u, m, n
<1>2. ASSUME NEW i \in DOMAIN u PROVE Aside(u[i])
  <2>1. CASE i <= m
    BY <1>1, <2>1 DEF Plain
  <2>2. CASE i > m
    <3>1. i - m \in 1 .. n /\ u[i] = t[i - m]
      BY <1>1, <2>2
    <3> QED BY <1>1, <3>1 DEF Plain
  <2> QED BY <1>1, <2>1, <2>2
<1>3. Tripled(s \o t)
  BY JoinedTripled DEF Plain
<1> QED BY <1>1, <1>2, <1>3 DEF Plain, u

LEMMA PlainMarked ==
  ASSUME NEW s, Plain(s)
  PROVE  WellMarked(s)
BY DEF Plain, Aside, WellMarked, BeginsWell, RunsWell, InitTags

(* FlattenSeq joins fragments.                                             *)
Flat(ss, f, k) ==
  f = [i \in 1 .. k |-> IF i = 1 THEN ss[i] ELSE f[i - 1] \o ss[i]]

LEMMA FlattenMarked ==
  ASSUME NEW ss, IsList(ss), \A i \in DOMAIN ss : WellMarked(ss[i])
  PROVE  WellMarked(FlattenSeq(ss))
<1> DEFINE n == Len(ss)
<1>1. n \in Nat /\ DOMAIN ss = 1 .. n
  BY DEF IsList
<1> HIDE DEF n
<1>2. CASE n = 0
  <2>1. FlattenSeq(ss) = ss
    BY <1>2 DEF FlattenSeq, n
  <2> QED BY <1>1, <1>2, <2>1
          DEF WellMarked, BeginsWell, RunsWell, Tripled, CopiesWell, CreatesWell
<1>3. CASE n # 0
  <2> DEFINE T == {k \in Nat : k <= n => \E f : Flat(ss, f, k)}
             flat == CHOOSE f : Flat(ss, f, n)
             W == {k \in Nat : \A i \in 1 .. n : i <= k => WellMarked(flat[i])}
  <2>1. 0 \in T
    <3>1. Flat(ss, [i \in 1 .. 0 |-> 0], 0)
      BY DEF Flat
    <3> QED BY <3>1
  <2>2. ASSUME NEW k \in Nat, k \in T PROVE k + 1 \in T
    <3> SUFFICES ASSUME k + 1 <= n PROVE \E f : Flat(ss, f, k + 1)
      OBVIOUS
    <3>1. PICK f : Flat(ss, f, k)
      BY <1>1, <2>2
    <3> DEFINE last == IF k = 0 THEN ss[1] ELSE f[k] \o ss[k + 1]
               g    == [i \in 1 .. k + 1 |-> IF i = k + 1 THEN last ELSE f[i]]
    <3>2. ASSUME NEW i \in 1 .. k + 1
          PROVE  g[i] = IF i = 1 THEN ss[i] ELSE g[i - 1] \o ss[i]
      <4>1. CASE i = k + 1
        BY <4>1
      <4>2. CASE i # k + 1
        <5>1. i \in 1 .. k /\ g[i] = f[i] /\ (i # 1 => g[i - 1] = f[i - 1])
          BY <4>2
        <5>2. f[i] = IF i = 1 THEN ss[i] ELSE f[i - 1] \o ss[i]
          BY <3>1, <5>1 DEF Flat
        <5> QED BY <5>1, <5>2
      <4> QED BY <4>1, <4>2
    <3>3. Flat(ss, g, k + 1)
      <4> HIDE DEF last
      <4>1. g = [i \in 1 .. k + 1 |-> g[i]]
        OBVIOUS
      <4> HIDE DEF g
      <4> QED BY <3>2, <4>1 DEF Flat
    <3> QED BY <3>3
  <2>3. n \in T
    <3> HIDE DEF T
    <3> QED BY <1>1, <2>1, <2>2, Induction
  <2>4. Flat(ss, flat, n)
    BY <1>1, <2>3
  <2> HIDE DEF T
  <2>5. FlattenSeq(ss) = (CHOOSE f : Flat(ss, f, n))[n]
    BY <1>3, Zenon DEF FlattenSeq, Flat, n
  <2>6. FlattenSeq(ss) = flat[n]
    BY <2>5
  <2> HIDE DEF flat
  <2>7. \A i \in 1 .. n : flat[i] = IF i = 1 THEN ss[i] ELSE flat[i - 1] \o ss[i]
    BY <2>4 DEF Flat
  <2>8. 0 \in W
    OBVIOUS
  <2>9. ASSUME NEW k \in Nat, k \in W PROVE k + 1 \in W
    <3> SUFFICES ASSUME k + 1 \in 1 .. n PROVE WellMarked(flat[k + 1])
      BY <2>9
    <3>1. WellMarked(ss[k + 1])
      BY <1>1
    <3>2. CASE k = 0
      BY <2>7, <3>1, <3>2
    <3>3. CASE k # 0
      <4>1. k \in 1 .. n /\ (k + 1) - 1 = k /\ k + 1 # 1
        BY <1>1, <3>3
      <4>2. WellMarked(flat[k])
        BY <2>9, <4>1
      <4>3. flat[k + 1] = flat[k] \o ss[k + 1]
        <5> HIDE DEF W
        <5> QED BY <2>7, <4>1
      <4> QED BY <3>1, <4>2, <4>3, JoinedMarked
    <3> QED BY <3>2, <3>3
  <2>10. n \in W
    <3> HIDE DEF W
    <3> QED BY <1>1, <2>8, <2>9, Induction
  <2> QED BY <1>1, <1>3, <2>6, <2>10
<1> QED BY <1>2, <1>3

------------------------------------------------------------------------------
(* The pieces of the program, from the single operations up.               *)
LEMMA SingleList ==
  ASSUME NEW op
  PROVE  IsList(<<op>>) /\ DOMAIN <<op>> = 1 .. 1 /\ <<op>>[1] = op
<1>1. <<op>> \in Seq({op}) /\ DOMAIN <<op>> = 1 .. 1 /\ <<op>>[1] = op
  OBVIOUS
<1> HIDE DEF IsList
<1>2. IsList(<<op>>)
  BY <1>1 DEF IsList
<1> QED BY <1>1, <1>2

LEMMA AsideMark ==
  ASSUME NEW tag, NEW of, NEW copy, tag \notin InitTags
  PROVE  Aside(Mark(Line(tag, of, copy)))
BY DEF Aside, Mark, Line, Run

LEMMA AsideOthers ==
  /\ Aside(Create) /\ Aside(Register)
  /\ \A T : Aside(Goto(T))
  /\ \A x \in Statements : Aside(Run(x))
<1>1. \A x \in Statements, f \in InitcallNames : Run(x) # Run(f)
  BY ScriptAssumption DEF Run
<1> QED BY <1>1 DEF Aside, Create, Register, Goto, Run

(* An operation that needs no other next to it.                            *)
Alone(op) == op.op # "create" /\ ~(op.op = "mark" /\ op.line.tag \in TripletTags)

LEMMA TripledSingle ==
  ASSUME NEW op, Alone(op)
  PROVE  Tripled(<<op>>)
<1> PICK s : s = <<op>>
  OBVIOUS
<1>1. DOMAIN s = 1 .. 1 /\ s[1] = op
  BY SingleList
<1>2. \A i \in DOMAIN s : Alone(s[i])
  BY <1>1
<1>3. Tripled(s)
  BY <1>2 DEF Tripled, CopiesWell, CreatesWell, Alone
<1> QED BY <1>3

LEMMA PlainSingle ==
  ASSUME NEW op, Aside(op), Alone(op)
  PROVE  Plain(<<op>>)
<1>1. IsList(<<op>>) /\ DOMAIN <<op>> = 1 .. 1 /\ <<op>>[1] = op
  BY SingleList
<1> QED BY <1>1, TripledSingle DEF Plain

LEMMA PlainEmpty == Plain(<<>>)
<1>1. << >> \in Seq({}) /\ DOMAIN << >> = {}
  OBVIOUS
<1> QED BY <1>1 DEF Plain, IsList, Tripled, CopiesWell, CreatesWell

LEMMA PlainNote ==
  ASSUME NEW tag, NEW of, tag \notin InitTags, tag \notin TripletTags
  PROVE  Plain(Note(tag, of))
<1>1. Alone(Mark(Line(tag, of, 1)))
  BY DEF Alone, Mark, Line
<1> QED BY <1>1, AsideMark, PlainSingle DEF Note

LEMMA PlainTriplet ==
  ASSUME NEW tag, NEW of, tag \notin InitTags
  PROVE  Plain(Triplet(tag, of))
<1>1. CASE FlightRecorder
  <2> DEFINE s == [c \in 1 .. 3 |-> Mark(Line(tag, of, c))]
             S == {Mark(Line(tag, of, c)) : c \in 1 .. 3}
  <2>1. s \in Seq(S) /\ DOMAIN s = 1 .. 3
    OBVIOUS
  <2>2. \A i \in 1 .. 3 : Aside(s[i])
    BY AsideMark
  <2>4. \A i \in 1 .. 3 : s[i] = Mark(Line(tag, of, i)) /\ s[i].op = "mark"
    BY DEF Mark
  <2> HIDE DEF s, S
  <2>5. CopiesWell(s)
    <3>1. ASSUME NEW i \in DOMAIN s
          PROVE  \E x, y, c :
                   /\ c \in 1 .. 3 /\ s[i] = Mark(Line(x, y, c))
                   /\ c > 1 => i - 1 \in DOMAIN s /\ s[i - 1] = Mark(Line(x, y, c - 1))
                   /\ c < 3 => i + 1 \in DOMAIN s /\ s[i + 1] = Mark(Line(x, y, c + 1))
      <4>1. i \in 1 .. 3 /\ s[i] = Mark(Line(tag, of, i))
        BY <2>1, <2>4
      <4>2. /\ i > 1 => i - 1 \in DOMAIN s /\ s[i - 1] = Mark(Line(tag, of, i - 1))
            /\ i < 3 => i + 1 \in DOMAIN s /\ s[i + 1] = Mark(Line(tag, of, i + 1))
        BY <2>1, <2>4, <4>1
      <4> QED BY <4>1, <4>2
    <3> QED BY <3>1 DEF CopiesWell
  <2>6. CreatesWell(s)
    BY <2>1, <2>4 DEF CreatesWell
  <2>3. Plain(s)
    BY <2>1, <2>2, <2>5, <2>6 DEF Plain, IsList, Tripled
  <2> QED BY <1>1, <2>3 DEF Triplet, s
<1>2. CASE ~FlightRecorder
  BY <1>2, PlainEmpty DEF Triplet
<1> QED BY <1>1, <1>2

LEMMA PlainRun ==
  ASSUME NEW x \in Statements
  PROVE  Plain(<<Run(x)>>)
<1>1. Alone(Run(x))
  BY DEF Alone, Run
<1> QED BY <1>1, AsideOthers, PlainSingle

LEMMA PlainAround ==
  ASSUME NEW x \in Statements
  PROVE  Plain(Around(x))
<1>1. Plain(Triplet("before", x)) /\ Plain(Triplet("after", x))
  BY PlainTriplet DEF InitTags
<1>2. Plain(Triplet("before", x) \o <<Run(x)>>)
  BY <1>1, PlainRun, JoinedPlain
<1> QED BY <1>1, <1>2, JoinedPlain DEF Around

(* do_one_initcall() is the piece the definitions are about.               *)
LEMMA OneInitcallMarked ==
  ASSUME NEW f \in InitcallNames
  PROVE  WellMarked(DoOneInitcall(f))
<1> DEFINE a == Mark(BeginLine(f))
           b == Run(f)
           c == Mark(EndLine(f))
           s == DoOneInitcall(f)
<1>1. s = (<<a>> \o <<b>>) \o <<c>>
  BY DEF DoOneInitcall, Note, BeginLine, EndLine
<1> HIDE DEF a, b, c, s
<1>2. IsList(s) /\ DOMAIN s = 1 .. 3 /\ s[1] = a /\ s[2] = b /\ s[3] = c
  <2> DEFINE t == <<a>> \o <<b>>
  <2>1. /\ IsList(<<a>>) /\ IsList(<<b>>) /\ IsList(<<c>>)
        /\ Len(<<a>>) = 1 /\ Len(<<b>>) = 1 /\ Len(<<c>>) = 1
        /\ <<a>>[1] = a /\ <<b>>[1] = b /\ <<c>>[1] = c
    BY SingleList
  <2>2. /\ IsList(t) /\ DOMAIN t = 1 .. 2
        /\ \A i \in 1 .. 2 : t[i] = IF i <= 1 THEN <<a>>[i] ELSE <<b>>[i - 1]
    BY <2>1, JoinedList
  <2> HIDE DEF t
  <2>3. /\ IsList(t \o <<c>>) /\ Len(t) \in Nat /\ DOMAIN t = 1 .. Len(t)
        /\ DOMAIN (t \o <<c>>) = 1 .. Len(t) + 1
        /\ \A i \in 1 .. Len(t) + 1 :
             (t \o <<c>>)[i] = IF i <= Len(t) THEN t[i] ELSE <<c>>[i - Len(t)]
    BY <2>1, <2>2, JoinedList
  <2>4. Len(t) = 2
    BY <2>2, <2>3
  <2>5. s = t \o <<c>>
    BY <1>1 DEF t
  <2>6. s[1] = t[1] /\ s[2] = t[2] /\ s[3] = <<c>>[1]
    BY <2>3, <2>4, <2>5
  <2>7. t[1] = <<a>>[1] /\ t[2] = <<b>>[1]
    BY <2>2
  <2> QED BY <2>1, <2>3, <2>4, <2>5, <2>6, <2>7
<1>3. BeginsWell(s)
  <2>1. b.op # "mark" /\ c.line.tag # "BEGIN"
    BY DEF b, c, Run, Mark, EndLine, Line
  <2>2. \A i \in DOMAIN s : s[i].op = "mark" /\ s[i].line.tag = "BEGIN" => i = 1
    BY <1>2, <2>1
  <2> QED BY <1>2, <2>2 DEF BeginsWell, a, b
<1>4. RunsWell(s)
  <2>1. \A g \in InitcallNames : Run(g) # a /\ Run(g) # c /\ (Run(g) = b => g = f)
    BY DEF a, b, c, Run, Mark
  <2>2. \A i \in DOMAIN s : \A g \in InitcallNames : s[i] = Run(g) => i = 2 /\ g = f
    BY <1>2, <2>1
  <2> QED BY <1>2, <2>2 DEF RunsWell, a, c
<1>5. Tripled(s)
  <2>1. Alone(a) /\ Alone(b) /\ Alone(c)
    BY DEF a, b, c, Alone, Mark, Run, BeginLine, EndLine, Line, TripletTags
  <2>2. \A i \in DOMAIN s : Alone(s[i])
    BY <1>2, <2>1
  <2> QED BY <2>2 DEF Tripled, CopiesWell, CreatesWell, Alone
<1> QED BY <1>2, <1>3, <1>4, <1>5 DEF WellMarked, s

LEMMA LevelMarked ==
  ASSUME NEW fs, fs \in Seq(ToSet(fs)), ToSet(fs) \subseteq InitcallNames
  PROVE  WellMarked(DoLevel(fs))
<1> DEFINE ss == [i \in DOMAIN fs |-> DoOneInitcall(fs[i])]
           S  == {DoOneInitcall(f) : f \in ToSet(fs)}
<1>1. ss \in Seq(S) /\ DOMAIN ss = DOMAIN fs
  <2>1. Len(fs) \in Nat /\ DOMAIN fs = 1 .. Len(fs) /\ \A i \in DOMAIN fs : fs[i] \in ToSet(fs)
    BY DEF ToSet
  <2>2. \A i \in DOMAIN fs : ss[i] \in S
    BY <2>1
  <2> QED BY <2>1, <2>2
<1>2. \A i \in DOMAIN ss : WellMarked(ss[i])
  <2>1. \A i \in DOMAIN fs : fs[i] \in InitcallNames
    BY DEF ToSet
  <2> QED BY <2>1, OneInitcallMarked
<1> HIDE DEF ss, S
<1>3. IsList(ss)
  BY <1>1 DEF IsList
<1>4. WellMarked(FlattenSeq(ss))
  BY <1>2, <1>3, FlattenMarked
<1> QED BY <1>4 DEF DoLevel, ss

LEMMA InitcallsMarked == WellMarked(DoInitcalls)
<1> DEFINE ss == [l \in DOMAIN Initcalls |-> Note("LEVEL", l) \o DoLevel(Initcalls[l])]
           S  == {Note("LEVEL", l) \o DoLevel(Initcalls[l]) : l \in DOMAIN Initcalls}
<1>1. ss \in Seq(S) /\ DOMAIN ss = DOMAIN Initcalls
  <2>1. Len(Initcalls) \in Nat /\ DOMAIN Initcalls = 1 .. Len(Initcalls)
    BY ScriptAssumption
  <2>2. \A l \in DOMAIN Initcalls : ss[l] \in S
    OBVIOUS
  <2>3. DOMAIN ss = 1 .. Len(Initcalls)
    BY <2>1
  <2> HIDE DEF S
  <2>4. ss \in [1 .. Len(Initcalls) -> S]
    BY <2>2, <2>3
  <2> HIDE DEF ss
  <2> QED BY <2>1, <2>3, <2>4
<1>2. ASSUME NEW l \in DOMAIN ss PROVE WellMarked(ss[l])
  <2>1. Initcalls[l] \in Seq(ToSet(Initcalls[l])) /\ ToSet(Initcalls[l]) \subseteq InitcallNames
    BY <1>1, ScriptAssumption DEF InitcallNames
  <2>2. WellMarked(DoLevel(Initcalls[l]))
    BY <2>1, LevelMarked
  <2>3. WellMarked(Note("LEVEL", l))
    BY PlainNote, PlainMarked DEF InitTags, TripletTags
  <2> QED BY <1>1, <2>2, <2>3, JoinedMarked
<1> HIDE DEF ss, S
<1>3. IsList(ss)
  BY <1>1 DEF IsList
<1>4. WellMarked(FlattenSeq(ss))
  BY <1>2, <1>3, FlattenMarked
<1> QED BY <1>4 DEF DoInitcalls, ss

------------------------------------------------------------------------------
(* A segment ends in its branch: no breadcrumb is its last operation.      *)
Ended(s) == WellMarked(s) /\ \A i \in DOMAIN s : s[i].op = "mark" => i + 1 \in DOMAIN s

LEMMA EndedByGoto ==
  ASSUME NEW s, NEW T, WellMarked(s)
  PROVE  Ended(s \o <<Goto(T)>>)
<1> DEFINE t == <<Goto(T)>>
           u == s \o t
<1>0. Alone(Goto(T))
  BY DEF Alone, Goto
<1>1. Plain(t) /\ WellMarked(t) /\ IsList(t) /\ Len(t) = 1 /\ t[1] = Goto(T)
  BY <1>0, AsideOthers, PlainSingle, PlainMarked, SingleList
<1> HIDE DEF t
<1>2. WellMarked(u)
  BY <1>1, JoinedMarked
<1>3. /\ Len(s) \in Nat /\ DOMAIN u = 1 .. Len(s) + 1
      /\ \A i \in 1 .. Len(s) + 1 : u[i] = IF i <= Len(s) THEN s[i] ELSE t[i - Len(s)]
  BY <1>1, JoinedList DEF WellMarked
<1> HIDE DEF u
<1>4. u[Len(s) + 1] = Goto(T)
  BY <1>1, <1>3
<1>5. u[Len(s) + 1].op # "mark"
  BY <1>4 DEF Goto
<1>6. ASSUME NEW i \in DOMAIN u, u[i].op = "mark" PROVE i + 1 \in DOMAIN u
  <2>1. i # Len(s) + 1
    BY <1>5, <1>6
  <2> QED BY <1>3, <2>1
<1> QED BY <1>2, <1>6 DEF Ended, u, t

LEMMA PlainJoins ==
  ASSUME NEW s, NEW t, WellMarked(s), Plain(t)
  PROVE  WellMarked(s \o t)
BY PlainMarked, JoinedMarked

(* One more operation at the end of a fragment.                            *)
Extends(t, s, n, m, op) ==
  /\ IsList(t) /\ DOMAIN t = 1 .. m /\ t[m] = op
  /\ \A i \in 1 .. n : t[i] = s[i]

LEMMA JoinedOne ==
  ASSUME NEW s, IsList(s), NEW n \in Nat, DOMAIN s = 1 .. n, NEW op,
         NEW t, t = s \o <<op>>, NEW m, m = n + 1
  PROVE  Extends(t, s, n, m, op)
<1> PICK q : q = <<op>>
  OBVIOUS
<1>1. IsList(q) /\ DOMAIN q = 1 .. 1 /\ q[1] = op
  BY SingleList
<1>2. Len(s) = n
  BY DEF IsList
<1>3. Len(q) = 1
  BY <1>1 DEF IsList
<1>4. /\ IsList(t) /\ DOMAIN t = 1 .. Len(s) + Len(q)
      /\ \A i \in 1 .. Len(s) + Len(q) : t[i] = IF i <= Len(s) THEN s[i] ELSE q[i - Len(s)]
  BY <1>1, JoinedList
<1>5. t[n + 1] = op
  <2>1. n + 1 \in 1 .. n + 1 /\ ~(n + 1 <= n) /\ (n + 1) - n = 1
    OBVIOUS
  <2> QED BY <1>1, <1>2, <1>3, <1>4, <2>1
<1>6. \A i \in 1 .. n : t[i] = s[i]
  BY <1>2, <1>3, <1>4
<1> QED BY <1>2, <1>3, <1>4, <1>5, <1>6 DEF Extends

LEMMA DiagInitPlain == Plain(DiagInit)
<1> DEFINE a == Create
           b == Mark(Line("READY", "zone", 1))
           c == Register
           d == Mark(Line("CONSOLE", "zone", 1))
<1>0. DiagInit = ((<<a>> \o <<b>>) \o <<c>>) \o <<d>>
  BY DEF DiagInit, Note
<1>2. Aside(a) /\ Aside(b) /\ Aside(c) /\ Aside(d)
  BY AsideOthers, AsideMark DEF InitTags
<1>3. Alone(b) /\ Alone(c) /\ Alone(d)
  BY DEF Alone, Mark, Line, Register, TripletTags
<1>4. a.op # "mark" /\ b.op # "create" /\ c.op # "create" /\ d.op # "create"
  BY DEF Create, Register, Mark
<1>5. d = Mark(Line("CONSOLE", "zone", 1))
  OBVIOUS
<1> HIDE DEF a, b, c, d
<1> PICK ab, abc, s : ab = <<a>> \o <<b>> /\ abc = ab \o <<c>> /\ s = abc \o <<d>>
  OBVIOUS
<1>1. DiagInit = s
  BY <1>0
<1>6. IsList(s) /\ DOMAIN s = 1 .. 4 /\ s[1] = a /\ s[2] = b /\ s[3] = c /\ s[4] = d
  <2> PICK q : q = <<a>>
    OBVIOUS
  <2>1. IsList(q) /\ DOMAIN q = 1 .. 1 /\ q[1] = a
    BY SingleList
  <2>2. Extends(ab, q, 1, 2, b)
    <3>1. IsList(q) /\ DOMAIN q = 1 .. 1
      BY <2>1
    <3>2. ab = q \o <<b>>
      OBVIOUS
    <3>3. 1 \in Nat /\ 2 = 1 + 1
      OBVIOUS
    <3> QED BY <3>1, <3>2, <3>3, JoinedOne, Zenon
  <2>3. IsList(ab) /\ DOMAIN ab = 1 .. 2 /\ ab[2] = b /\ \A i \in 1 .. 1 : ab[i] = q[i]
    BY <2>2, Zenon DEF Extends
  <2>4. ab[1] = a
    BY <2>1, <2>3
  <2>5. Extends(abc, ab, 2, 3, c)
    <3>1. IsList(ab) /\ DOMAIN ab = 1 .. 2
      BY <2>3
    <3>2. abc = ab \o <<c>>
      OBVIOUS
    <3>3. 2 \in Nat /\ 3 = 2 + 1
      OBVIOUS
    <3> QED BY <3>1, <3>2, <3>3, JoinedOne, Zenon
  <2>6. IsList(abc) /\ DOMAIN abc = 1 .. 3 /\ abc[3] = c /\ \A i \in 1 .. 2 : abc[i] = ab[i]
    BY <2>5, Zenon DEF Extends
  <2>7. abc[1] = a /\ abc[2] = b
    <3>1. 1 \in 1 .. 2 /\ 2 \in 1 .. 2
      OBVIOUS
    <3>2. abc[1] = ab[1] /\ abc[2] = ab[2]
      BY <2>6, <3>1, Zenon
    <3> QED BY <2>3, <2>4, <3>2, Zenon
  <2>8. Extends(s, abc, 3, 4, d)
    <3>1. IsList(abc) /\ DOMAIN abc = 1 .. 3
      BY <2>6
    <3>2. s = abc \o <<d>>
      OBVIOUS
    <3>3. 3 \in Nat /\ 4 = 3 + 1
      OBVIOUS
    <3> QED BY <3>1, <3>2, <3>3, JoinedOne, Zenon
  <2>9. IsList(s) /\ DOMAIN s = 1 .. 4 /\ s[4] = d /\ \A i \in 1 .. 3 : s[i] = abc[i]
    BY <2>8, Zenon DEF Extends
  <2>10. s[1] = a /\ s[2] = b /\ s[3] = c
    <3>1. 1 \in 1 .. 3 /\ 2 \in 1 .. 3 /\ 3 \in 1 .. 3
      OBVIOUS
    <3>2. s[1] = abc[1] /\ s[2] = abc[2] /\ s[3] = abc[3]
      BY <2>9, <3>1, Zenon
    <3> QED BY <2>6, <2>7, <3>2, Zenon
  <2> QED BY <2>9, <2>10
<1>7. \A i \in DOMAIN s : Aside(s[i])
  BY <1>2, <1>6
<1>8. CopiesWell(s)
  <2>1. \A i \in DOMAIN s : s[i].op # "mark" \/ Alone(s[i])
    BY <1>3, <1>4, <1>6
  <2> QED BY <2>1 DEF CopiesWell, Alone
<1>9. CreatesWell(s)
  <2>1. \A i \in DOMAIN s : s[i].op = "create" => i = 1
    BY <1>4, <1>6
  <2> QED BY <1>5, <1>6, <2>1 DEF CreatesWell
<1>10. Plain(s)
  BY <1>6, <1>7, <1>8, <1>9 DEF Plain, Tripled
<1> QED BY <1>1, <1>10

LEMMA StartKernelPlain == Plain(StartKernel)
<1> DEFINE a == DiagInit \o Note("START", "mm_init")
           b == a \o << Run("init_IRQ") >>
           c == b \o Note("START", "init_IRQ")
           d == c \o Note("REST", "rcu_scheduler_starting")
           e == d \o Note("REST", "kernel_init")
<1>1. e = StartKernel
  BY DEF StartKernel
<1>2. Plain(<<Run("init_IRQ")>>)
  BY PlainRun DEF Statements
<1>3. \A tag \in {"START", "REST"} : \A x : Plain(Note(tag, x))
  BY PlainNote DEF InitTags, TripletTags
<1>4. Plain(a)
  BY <1>3, DiagInitPlain, JoinedPlain
<1> HIDE DEF a
<1>5. Plain(b)
  BY <1>2, <1>4, JoinedPlain
<1> HIDE DEF b
<1>6. Plain(c)
  BY <1>3, <1>5, JoinedPlain
<1> HIDE DEF c
<1>7. Plain(d)
  BY <1>3, <1>6, JoinedPlain
<1> HIDE DEF d
<1>8. Plain(e)
  BY <1>3, <1>7, JoinedPlain
<1> QED BY <1>1, <1>8

LEMMA BasicSetupMarked == WellMarked(BasicSetup)
<1> DEFINE early == IF EarlyCreate THEN <<>> ELSE DiagInit \o Note("AFTER", "driver_init")
           a == << Run("driver_init") >> \o early
           b == a \o Note("BEFORE", "init_irq_proc")
           c == b \o << Run("init_irq_proc") >>
           d == c \o Note("AFTER", "init_irq_proc")
           e == d \o Note("BEFORE", "do_ctors")
           f == e \o << Run("do_ctors") >>
           g == f \o Note("AFTER", "do_ctors")
           h == g \o << Run("usermodehelper_enable") >>
           i == h \o Note("AFTER", "usermodehelper_enable")
           j == i \o DoInitcalls
           k == j \o Note("AFTER", "do_initcalls")
<1>1. k = BasicSetup
  BY DEF BasicSetup
<1>2. /\ Plain(<<Run("driver_init")>>) /\ Plain(<<Run("init_irq_proc")>>)
      /\ Plain(<<Run("do_ctors")>>) /\ Plain(<<Run("usermodehelper_enable")>>)
  BY PlainRun DEF Statements
<1>3. \A tag \in {"AFTER", "BEFORE"} : \A x : Plain(Note(tag, x))
  BY PlainNote DEF InitTags, TripletTags
<1>4. Plain(early)
  <2>1. Plain(DiagInit \o Note("AFTER", "driver_init"))
    BY <1>3, DiagInitPlain, JoinedPlain
  <2> QED BY <2>1, PlainEmpty
<1> HIDE DEF early
<1>5. Plain(a)
  BY <1>2, <1>4, JoinedPlain
<1> HIDE DEF a
<1>6. Plain(b)
  BY <1>3, <1>5, JoinedPlain
<1> HIDE DEF b
<1>7. Plain(c)
  BY <1>2, <1>6, JoinedPlain
<1> HIDE DEF c
<1>8. Plain(d)
  BY <1>3, <1>7, JoinedPlain
<1> HIDE DEF d
<1>9. Plain(e)
  BY <1>3, <1>8, JoinedPlain
<1> HIDE DEF e
<1>10. Plain(f)
  BY <1>2, <1>9, JoinedPlain
<1> HIDE DEF f
<1>11. Plain(g)
  BY <1>3, <1>10, JoinedPlain
<1> HIDE DEF g
<1>12. Plain(h)
  BY <1>2, <1>11, JoinedPlain
<1> HIDE DEF h
<1>13. Plain(i)
  BY <1>3, <1>12, JoinedPlain
<1> HIDE DEF i
<1>14. WellMarked(j)
  BY <1>13, PlainMarked, InitcallsMarked, JoinedMarked
<1> HIDE DEF j
<1>15. WellMarked(k)
  BY <1>3, <1>14, PlainJoins
<1> QED BY <1>1, <1>15

LEMMA FreeableEnded == Ended(FreeableSegment)
<1> DEFINE early == IF EarlyCreate THEN StartKernel ELSE <<>>
           a == early \o Triplet("before", "kernel_init_freeable")
           b == a \o DoLevel(EarlyInitcalls)
           c == b \o Triplet("before", "do_basic_setup")
           d == c \o BasicSetup
           e == d \o Triplet("after", "do_basic_setup")
           f == e \o Around("kunit_run_all_tests")
           g == f \o Around("console_on_rootfs")
           h == g \o Triplet("before", "init_eaccess")
           i == h \o <<Run("init_eaccess")>>
           T == {"no_ramdisk_init", "finalise"}
<1>1. FreeableSegment = i \o <<Goto(T)>>
  BY DEF FreeableSegment
<1> HIDE DEF T
<1>2. \A tag \in {"before", "after"} : \A x : Plain(Triplet(tag, x))
  BY PlainTriplet DEF InitTags
<1>3. Plain(early)
  BY StartKernelPlain, PlainEmpty
<1> HIDE DEF early
<1>4. Plain(a)
  BY <1>2, <1>3, JoinedPlain
<1> HIDE DEF a
<1>5. WellMarked(b)
  <2>1. WellMarked(DoLevel(EarlyInitcalls))
    BY ScriptAssumption, LevelMarked DEF InitcallNames
  <2> QED BY <1>4, <2>1, PlainMarked, JoinedMarked
<1> HIDE DEF b
<1>6. WellMarked(c)
  BY <1>2, <1>5, PlainJoins
<1> HIDE DEF c
<1>7. WellMarked(d)
  BY <1>6, BasicSetupMarked, JoinedMarked
<1> HIDE DEF d
<1>8. WellMarked(e)
  BY <1>2, <1>7, PlainJoins
<1> HIDE DEF e
<1>9. /\ Plain(Around("kunit_run_all_tests")) /\ Plain(Around("console_on_rootfs"))
      /\ Plain(<<Run("init_eaccess")>>)
  BY PlainAround, PlainRun DEF Statements
<1>10. WellMarked(f)
  BY <1>8, <1>9, PlainJoins
<1> HIDE DEF f
<1>11. WellMarked(g)
  BY <1>9, <1>10, PlainJoins
<1> HIDE DEF g
<1>12. WellMarked(h)
  BY <1>2, <1>11, PlainJoins
<1> HIDE DEF h
<1>13. WellMarked(i)
  BY <1>9, <1>12, PlainJoins
<1> HIDE DEF i
<1> QED BY <1>1, <1>13, EndedByGoto

LEMMA NoRamdiskInitEnded == Ended(NoRamdiskInitSegment)
<1>1. Plain(Triplet("failed", "init_eaccess")) /\ Plain(Around("prepare_namespace"))
  BY PlainTriplet, PlainAround DEF InitTags, Statements
<1>2. WellMarked(Triplet("failed", "init_eaccess") \o Around("prepare_namespace"))
  BY <1>1, JoinedPlain, PlainMarked
<1> QED BY <1>2, EndedByGoto DEF NoRamdiskInitSegment

LEMMA FinaliseEnded == Ended(FinaliseSegment)
<1> DEFINE ss == [i \in DOMAIN Finalisers |-> Around(Finalisers[i])]
           S  == {Around(x) : x \in ToSet(Finalisers)}
           a  == Around("integrity_load_keys") \o Triplet("after", "kernel_init_freeable")
<1>1. IsList(ss) /\ DOMAIN ss = DOMAIN Finalisers
  <2>1. /\ Len(Finalisers) \in Nat /\ DOMAIN Finalisers = 1 .. Len(Finalisers)
        /\ \A i \in DOMAIN Finalisers : Finalisers[i] \in ToSet(Finalisers)
    BY ScriptAssumption DEF ToSet
  <2>2. \A i \in DOMAIN Finalisers : ss[i] \in S
    BY <2>1
  <2>3. ss \in [1 .. Len(Finalisers) -> S]
    BY <2>1, <2>2
  <2> HIDE DEF ss, S
  <2>4. ss \in Seq(S)
    BY <2>1, <2>3
  <2> QED BY <2>1, <2>3, <2>4 DEF IsList
<1>2. \A i \in DOMAIN ss : WellMarked(ss[i])
  <2>1. \A i \in DOMAIN Finalisers : Finalisers[i] \in Statements
    BY DEF Statements, ToSet
  <2> QED BY <2>1, PlainAround, PlainMarked
<1> HIDE DEF ss, S
<1>3. WellMarked(FlattenSeq(ss))
  BY <1>1, <1>2, FlattenMarked
<1>4. WellMarked(a)
  <2>1. Plain(Around("integrity_load_keys")) /\ Plain(Triplet("after", "kernel_init_freeable"))
    BY PlainTriplet, PlainAround DEF InitTags, Statements
  <2> QED BY <2>1, JoinedPlain, PlainMarked
<1> HIDE DEF a
<1>5. WellMarked(a \o FlattenSeq(ss))
  BY <1>3, <1>4, JoinedMarked
<1>6. Ended((a \o FlattenSeq(ss)) \o <<Goto({InitPaths[1]})>>)
  BY <1>5, EndedByGoto
<1> QED BY <1>6 DEF FinaliseSegment, a, ss

LEMMA ExecEnded ==
  ASSUME NEW i
  PROVE  Ended(ExecSegment(i))
<1> DEFINE T == {"user", IF i = Len(InitPaths) THEN "panic" ELSE InitPaths[i + 1]}
           a == Triplet("exec_begin", InitPaths[i]) \o <<Run("kernel_execve")>>
           b == a \o Triplet("exec_returned", InitPaths[i])
<1>1. ExecSegment(i) = b \o <<Goto(T)>>
  BY DEF ExecSegment
<1> HIDE DEF T
<1>2. /\ Plain(Triplet("exec_begin", InitPaths[i])) /\ Plain(<<Run("kernel_execve")>>)
      /\ Plain(Triplet("exec_returned", InitPaths[i]))
  BY PlainTriplet, PlainRun DEF InitTags, Statements
<1>3. Plain(a)
  BY <1>2, JoinedPlain
<1> HIDE DEF a
<1>4. WellMarked(b)
  BY <1>2, <1>3, JoinedPlain, PlainMarked
<1> HIDE DEF b
<1> QED BY <1>1, <1>4, EndedByGoto

LEMMA UserEnded == Ended(UserSegment)
<1> DEFINE op == Run("userspace")
           T  == {"group_exit", "exit"}
<1>1. WellMarked(<<op>>)
  BY PlainRun, PlainMarked DEF Statements
<1>2. UserSegment = <<op, Goto(T)>>
  BY DEF UserSegment
<1> HIDE DEF op, T
<1>3. <<op, Goto(T)>> = <<op>> \o <<Goto(T)>>
  OBVIOUS
<1> QED BY <1>1, <1>2, <1>3, EndedByGoto

LEMMA GroupExitEnded == Ended(GroupExitSegment)
<1>1. WellMarked(Triplet("GROUP", "pid1"))
  BY PlainTriplet, PlainMarked DEF InitTags
<1> QED BY <1>1, EndedByGoto DEF GroupExitSegment

LEMMA ExitEnded == Ended(ExitSegment)
<1> DEFINE a == Triplet("ENTRY", "pid1") \o <<Run("do_exit")>>
           b == a \o Triplet("FINAL", "pid1")
<1>1. /\ Plain(Triplet("ENTRY", "pid1")) /\ Plain(<<Run("do_exit")>>)
      /\ Plain(Triplet("FINAL", "pid1"))
  BY PlainTriplet, PlainRun DEF InitTags, Statements
<1>2. Plain(a)
  BY <1>1, JoinedPlain
<1> HIDE DEF a
<1>3. WellMarked(b)
  BY <1>1, <1>2, JoinedPlain, PlainMarked
<1>4. ExitSegment = b \o <<Goto({"panic"})>>
  BY DEF ExitSegment, a
<1> HIDE DEF b
<1> QED BY <1>3, <1>4, EndedByGoto

------------------------------------------------------------------------------
(* panic() marks and stops: it runs nothing and goes nowhere.              *)
Stops(s) ==
  \A i \in DOMAIN s :
    s[i] = Goto({}) \/ (s[i].op = "mark" /\ s[i].line.tag \notin InitTags)

LEMMA TripletMarks ==
  ASSUME NEW tag, NEW of, tag \notin InitTags
  PROVE  IsList(Triplet(tag, of)) /\ Stops(Triplet(tag, of))
<1>1. IsList(Triplet(tag, of))
  BY PlainTriplet DEF Plain
<1>2. CASE FlightRecorder
  <2>1. Triplet(tag, of) = [c \in 1 .. 3 |-> Mark(Line(tag, of, c))]
    BY <1>2 DEF Triplet
  <2>2. \A c : Mark(Line(tag, of, c)).op = "mark" /\ Mark(Line(tag, of, c)).line.tag = tag
    BY DEF Mark, Line
  <2>3. Stops([c \in 1 .. 3 |-> Mark(Line(tag, of, c))])
    BY <2>2 DEF Stops
  <2> QED BY <1>1, <2>1, <2>3
<1>3. CASE ~FlightRecorder
  <2>1. Triplet(tag, of) = <<>> /\ DOMAIN <<>> = {}
    BY <1>3 DEF Triplet
  <2> QED BY <1>1, <2>1 DEF Stops
<1> QED BY <1>2, <1>3

LEMMA JoinedStops ==
  ASSUME NEW s, NEW t, IsList(s), IsList(t), Stops(s), Stops(t)
  PROVE  IsList(s \o t) /\ Stops(s \o t)
<1> DEFINE u == s \o t
           m == Len(s)
           n == Len(t)
<1>1. /\ IsList(u) /\ m \in Nat /\ n \in Nat
      /\ DOMAIN s = 1 .. m /\ DOMAIN t = 1 .. n /\ DOMAIN u = 1 .. m + n
      /\ \A i \in 1 .. m + n : u[i] = IF i <= m THEN s[i] ELSE t[i - m]
  BY JoinedList
<1> HIDE DEF u, m, n
<1>2. ASSUME NEW i \in DOMAIN u
      PROVE  u[i] = Goto({}) \/ (u[i].op = "mark" /\ u[i].line.tag \notin InitTags)
  <2>1. CASE i <= m
    BY <1>1, <2>1 DEF Stops
  <2>2. CASE i > m
    <3>1. i - m \in 1 .. n /\ u[i] = t[i - m]
      BY <1>1, <2>2
    <3> QED BY <1>1, <3>1 DEF Stops
  <2> QED BY <1>1, <2>1, <2>2
<1> QED BY <1>1, <1>2 DEF Stops, u

LEMMA PanicSegmentStops == Ended(PanicSegment) /\ Stops(PanicSegment)
<1> DEFINE a == Triplet("irq_off", "panic")
           b == Triplet("reason", "panic")
<1>1. /\ Plain(a) /\ Plain(b) /\ IsList(a) /\ IsList(b) /\ Stops(a) /\ Stops(b)
  BY PlainTriplet, TripletMarks DEF InitTags
<1>2. PanicSegment = (a \o b) \o <<Goto({})>>
  BY DEF PanicSegment
<1> HIDE DEF a, b
<1>3. WellMarked(a \o b) /\ IsList(a \o b) /\ Stops(a \o b)
  BY <1>1, JoinedPlain, PlainMarked, JoinedStops
<1>4. IsList(<<Goto({})>>) /\ Stops(<<Goto({})>>)
  BY SingleList DEF Stops
<1> QED BY <1>2, <1>3, <1>4, EndedByGoto, JoinedStops

(* So every segment of every instrumented program.                         *)
LEMMA ProgramEnded ==
  /\ \A s \in Segments : Ended(Program[s])
  /\ Stops(Program["panic"])
<1>1. ASSUME NEW s \in Segments PROVE Ended(Program[s])
  <2>1. CASE s \in FixedSegments
    <3>1. CASE s = "freeable"
      BY <3>1, FreeableEnded DEF Program
    <3>2. CASE s = "no_ramdisk_init"
      BY <3>2, NoRamdiskInitEnded DEF Program
    <3>3. CASE s = "finalise"
      BY <3>3, FinaliseEnded DEF Program
    <3>4. CASE s = "user"
      BY <3>4, UserEnded DEF Program
    <3>5. CASE s = "group_exit"
      BY <3>5, GroupExitEnded DEF Program
    <3>6. CASE s = "exit"
      BY <3>6, ExitEnded DEF Program
    <3>7. CASE s = "panic"
      BY <3>7, PanicSegmentStops DEF Program
    <3> QED BY <2>1, <3>1, <3>2, <3>3, <3>4, <3>5, <3>6, <3>7 DEF FixedSegments
  <2>2. CASE s \notin FixedSegments
    <3>1. Program[s] = ExecSegment(CHOOSE i \in DOMAIN InitPaths : InitPaths[i] = s)
      BY <2>2 DEF Program, FixedSegments
    <3> QED BY <3>1, ExecEnded
  <2> QED BY <2>1, <2>2
<1>2. Program["panic"] = PanicSegment
  BY DEF Program, Segments, FixedSegments
<1> QED BY <1>1, <1>2, PanicSegmentStops

------------------------------------------------------------------------------
(***************************************************************************)
(* What the cells of the ring say.  Filled: a cell is where its number     *)
(* puts it.  OwnCells: the cells with numbers of a write in progress are   *)
(* that write's.  SizeAccounts: size is the cells claimed and announced,   *)
(* held to the ring.                                                       *)
(***************************************************************************)
Span(e, n, line) ==
  \A s \in Slots :
    zone.data[s] # Stale /\ zone.data[s].off \in e .. e + n - 1 =>
      zone.data[s] = Cell(zone.data[s].off, line, zone.data[s].off - e + 1, n)

Filled ==
  \A s \in Slots :
    zone.data[s] # Stale => zone.data[s].off < total /\ zone.data[s].off % ZoneSize = s

OwnCells == \A x \in Writers : Moving(x) => Span(w[x].off, w[x].n, w[x].line)

Clamp(k) == IF k > ZoneSize THEN ZoneSize ELSE k

SizeAccounts == zone.size = Clamp(total + Announced)

CellInv == RingInv /\ Filled /\ OwnCells /\ SizeAccounts

(* A line the ring was given whole: nobody is still writing its numbers.   *)
Whole(e, n, line) ==
  /\ e + n <= total
  /\ \A x \in Writers : Moving(x) => Goal(x) <= e \/ e + n <= w[x].off
  /\ Span(e, n, line)

LEMMA CellOff ==
  ASSUME ZoneTypeOK, NEW s \in Slots, zone.data[s] # Stale
  PROVE  zone.data[s] \in Cells /\ zone.data[s].off \in Nat
BY DEF ZoneTypeOK, Cells

LEMMA StoreWrites ==
  ASSUME ZoneTypeOK, NEW x \in Writers, StoreCell(x)
  PROVE  /\ w[x].pos \in Slots
         /\ zone'.data[w[x].pos] = Cell(Number(x), w[x].line, Number(x) - w[x].off + 1, w[x].n)
         /\ \A s \in Slots \ {w[x].pos} : zone'.data[s] = zone.data[s]
         /\ zone'.size = zone.size /\ total' = total
         /\ \A y \in Writers \ {x} : w'[y] = w[y]
         /\ Moving(x)' => w'[x].line = w[x].line /\ w'[x].n = w[x].n /\ w'[x].off = w[x].off
<1> DEFINE c    == w[x]
           cell == Cell(c.off + c.done, c.line, c.done + 1, c.n)
           next == IF c.done + 1 = c.n THEN Idle
                   ELSE [c EXCEPT !.done = @ + 1, !.pos = Advance(@, 1)]
<1>1. c \in Copyings
  BY CopyingState DEF ZoneTypeOK, StoreCell
<1>2. c.pos \in Slots /\ c.off \in Nat /\ c.done \in Nat
  BY <1>1, LineAssumption, ZoneSizeAssumption DEF Copyings
<1>3. /\ zone' = [zone EXCEPT !.data[c.pos] = cell] /\ w' = [w EXCEPT ![x] = next]
      /\ total' = total
  BY DEF StoreCell, Store
<1>4. next.st = "copying" => next.line = c.line /\ next.n = c.n /\ next.off = c.off
  <2>1. CASE c.done + 1 = c.n
    BY <2>1 DEF Idle
  <2>2. CASE c.done + 1 # c.n
    <3>1. next = [c EXCEPT !.done = @ + 1, !.pos = Advance(@, 1)]
      BY <2>2
    <3> QED BY <1>1, <3>1 DEF Copyings
  <2> QED BY <2>1, <2>2
<1>5. cell = Cell(Number(x), c.line, Number(x) - c.off + 1, c.n)
  <2>1. Number(x) - c.off + 1 = c.done + 1
    BY <1>2 DEF Number
  <2> QED BY <2>1 DEF Number
<1> HIDE DEF cell, next, c
<1>6. /\ zone'.data[c.pos] = cell /\ zone'.size = zone.size
      /\ \A s \in Slots \ {c.pos} : zone'.data[s] = zone.data[s]
  BY <1>2, <1>3 DEF ZoneTypeOK
<1>7. w'[x] = next /\ \A y \in Writers \ {x} : w'[y] = w[y]
  BY <1>3 DEF ZoneTypeOK
<1> QED BY <1>2, <1>3, <1>4, <1>5, <1>6, <1>7 DEF Moving, c

(* A store leaves the lines alone whose numbers it does not write.         *)
LEMMA SpanKept ==
  ASSUME ZoneTypeOK, NEW x \in Writers, StoreCell(x), NEW e \in Nat, NEW n \in Nat, NEW line,
         Span(e, n, line),
         \/ Number(x) \notin e .. e + n - 1
         \/ e = w[x].off /\ n = w[x].n /\ line = w[x].line
  PROVE  Span(e, n, line)'
<1> DEFINE pos == w[x].pos
           k   == Number(x)
<1>1. /\ zone'.data[pos] = Cell(k, w[x].line, k - w[x].off + 1, w[x].n)
      /\ \A s \in Slots \ {pos} : zone'.data[s] = zone.data[s]
  BY StoreWrites
<1> HIDE DEF pos, k
<1> SUFFICES ASSUME NEW s \in Slots, zone'.data[s] # Stale, zone'.data[s].off \in e .. e + n - 1
             PROVE  zone'.data[s] = Cell(zone'.data[s].off, line, zone'.data[s].off - e + 1, n)
  BY DEF Span
<1>2. CASE s = pos
  <2>1. zone'.data[s].off = k
    BY <1>1, <1>2 DEF Cell
  <2>2. e = w[x].off /\ n = w[x].n /\ line = w[x].line
    BY <2>1 DEF k
  <2> QED BY <1>1, <1>2, <2>1, <2>2
<1>3. CASE s # pos
  BY <1>1, <1>3 DEF Span
<1> QED BY <1>2, <1>3

LEMMA StillSpan ==
  ASSUME NEW e, NEW n, NEW line, Span(e, n, line), zone'.data = zone.data
  PROVE  Span(e, n, line)'
BY DEF Span

LEMMA AnnouncedNat == ZoneTypeOK => Announced \in Nat
BY PendingNat DEF Announced, Writers

LEMMA AnnounceCells ==
  ASSUME CellInv, RingInv', NEW x \in Writers, NEW line \in Lines, NEW n \in 1 .. MaxLine,
         Announce(x, line, n)
  PROVE  CellInv'
<1>1. ZoneTypeOK /\ ZoneTypeOK'
  BY DEF CellInv, RingInv
<1>2. /\ w' = [w EXCEPT ![x] = Sized(line, n)] /\ total' = total
      /\ zone'.data = zone.data /\ zone'.size = Clamp(zone.size + n) /\ ~Moving(x)
  BY <1>1 DEF Announce, SizeAdd, ZoneTypeOK, Busy, Moving, Clamp
<1>3. \A y \in Writers : Moving(y)' => Moving(y) /\ w'[y] = w[y]
  <2>1. Sized(line, n).st = "sized"
    BY DEF Sized
  <2>2. w'[x] = Sized(line, n) /\ \A y \in Writers \ {x} : w'[y] = w[y]
    BY <1>1, <1>2 DEF ZoneTypeOK
  <2> QED BY <2>1, <2>2 DEF Moving
<1>4. Filled'
  BY <1>2 DEF CellInv, Filled
<1>5. OwnCells'
  BY <1>2, <1>3, StillSpan DEF CellInv, OwnCells
<1>6. Announced' = Announced + n
  <2>1. Pending(x) = 0
    BY DEF Announce, Busy, Pending
  <2>2. Sized(line, n).st = "sized" /\ Sized(line, n).n = n
    BY DEF Sized
  <2>3. (\A y \in Writers \ {x} : Pending(y)' = Pending(y)) /\ Pending(x)' = n
    BY <1>1, <1>2, <2>2, PendingOthers
  <2>4. Announced' = Announced + n - 0
    BY <1>1, <2>1, <2>3, AnnouncedChange
  <2> QED BY <1>1, <2>4, AnnouncedNat, LineAssumption, ZoneSizeAssumption
<1>7. SizeAccounts'
  <2>1. total \in Nat /\ n \in Nat /\ Announced \in Nat /\ ZoneSize \in Nat
    BY <1>1, AnnouncedNat, LineAssumption, ZoneSizeAssumption DEF ZoneTypeOK
  <2>2. zone.size = Clamp(total + Announced)
    BY DEF CellInv, SizeAccounts
  <2> HIDE DEF Announced
  <2>3. Clamp(zone.size + n) = Clamp(total + (Announced + n))
    BY <2>1, <2>2 DEF Clamp
  <2> QED BY <1>2, <1>6, <2>3 DEF SizeAccounts, Clamp
<1> QED BY <1>4, <1>5, <1>7 DEF CellInv

LEMMA ClaimCells ==
  ASSUME CellInv, RingInv', NEW x \in Writers, Claim(x)
  PROVE  CellInv'
<1>1. ZoneTypeOK /\ ZoneTypeOK' /\ total \in Nat
  BY DEF CellInv, RingInv, ZoneTypeOK
<1>2. PICK n \in 1 .. MaxLine :
           /\ total' = total + n
           /\ zone'.data = zone.data
           /\ w'[x].off = total /\ w'[x].n = n /\ Moving(x)'
           /\ \A y \in Writers \ {x} : w'[y] = w[y]
  BY <1>1, ClaimEffect
<1>3. n \in Nat
  BY LineAssumption, ZoneSizeAssumption
<1>4. Filled'
  <2> SUFFICES ASSUME NEW s \in Slots, zone.data[s] # Stale
               PROVE  zone.data[s].off < total + n /\ zone.data[s].off % ZoneSize = s
    BY <1>2 DEF Filled
  <2>1. zone.data[s].off < total /\ zone.data[s].off % ZoneSize = s /\ zone.data[s].off \in Nat
    BY <1>1, CellOff DEF CellInv, Filled
  <2> QED BY <1>1, <1>3, <2>1
<1>5. OwnCells'
  <2> SUFFICES ASSUME NEW y \in Writers, Moving(y)'
               PROVE  Span(w[y].off, w[y].n, w[y].line)'
    BY DEF OwnCells
  <2>1. CASE y = x
    <3>1. \A s \in Slots : zone'.data[s] # Stale => zone'.data[s].off < total /\ zone'.data[s].off \in Nat
      BY <1>1, <1>2, CellOff DEF CellInv, Filled
    <3>2. \A s \in Slots : zone'.data[s] # Stale => zone'.data[s].off \notin total .. total + n - 1
      BY <1>1, <1>3, <3>1
    <3> QED BY <1>2, <2>1, <3>2 DEF Span
  <2>2. CASE y # x
    <3>1. w'[y] = w[y] /\ Moving(y)
      BY <1>2, <2>2 DEF Moving
    <3>2. Span(w[y].off, w[y].n, w[y].line)
      BY <3>1 DEF CellInv, OwnCells
    <3> QED BY <1>2, <3>1, <3>2 DEF Span
  <2> QED BY <2>1, <2>2
<1>6. SizeAccounts'
  <2> DEFINE m == w[x].n
             c == Copying(w[x].line, m, total, zone.start, 0)
  <2>1. Pending(x) = m /\ m \in 1 .. MaxLine
    BY <1>1, SizedState DEF Claim, Pending, Sizeds, ZoneTypeOK
  <2>2. w' = [w EXCEPT ![x] = c] /\ c.st = "copying" /\ total' = total + m
    BY DEF Claim, Copying
  <2> HIDE DEF c, m
  <2>3. (\A y \in Writers \ {x} : Pending(y)' = Pending(y)) /\ Pending(x)' = 0
    BY <1>1, <2>2, PendingOthers
  <2>4. Announced' = Announced + 0 - m
    BY <1>1, <2>1, <2>3, AnnouncedChange
  <2>5. zone'.size = zone.size
    BY <1>1 DEF Claim, StartAdd, ZoneTypeOK
  <2>6. Announced \in Nat /\ m \in Nat
    BY <1>1, <2>1, AnnouncedNat, LineAssumption, ZoneSizeAssumption
  <2>7. total' + Announced' = total + Announced
    BY <1>1, <2>2, <2>4, <2>6
  <2> QED BY <2>5, <2>7 DEF CellInv, SizeAccounts, Clamp
<1> QED BY <1>4, <1>5, <1>6 DEF CellInv

LEMMA StoreCells ==
  ASSUME CellInv, RingInv', NEW x \in Writers, StoreCell(x)
  PROVE  CellInv'
<1> DEFINE pos == w[x].pos
           k   == Number(x)
<1>1. ZoneTypeOK /\ ZoneTypeOK' /\ RingInv /\ total \in Nat
  BY DEF CellInv, RingInv, ZoneTypeOK
<1>2. /\ zone'.data[pos] = Cell(k, w[x].line, k - w[x].off + 1, w[x].n)
      /\ \A s \in Slots \ {pos} : zone'.data[s] = zone.data[s]
      /\ zone'.size = zone.size /\ total' = total
      /\ \A y \in Writers \ {x} : w'[y] = w[y]
      /\ Moving(x)' => w'[x].line = w[x].line /\ w'[x].n = w[x].n /\ w'[x].off = w[x].off
  BY <1>1, StoreWrites
<1>3. /\ Moving(x) /\ k \in Nat /\ Goal(x) \in Nat /\ k < Goal(x) /\ Goal(x) <= total
      /\ pos = k % ZoneSize /\ w[x].off \in Nat /\ w[x].n \in Nat /\ w[x].off <= k
  <2>1. Moving(x)
    BY DEF StoreCell, Moving
  <2> QED BY <1>1, <2>1, MovingFields, LineAssumption, ZoneSizeAssumption DEF RingInv, Placed, Number
<1> HIDE DEF pos, k
<1>4. Filled'
  <2> SUFFICES ASSUME NEW s \in Slots, zone'.data[s] # Stale
               PROVE  zone'.data[s].off < total /\ zone'.data[s].off % ZoneSize = s
    BY <1>2 DEF Filled
  <2>1. CASE s = pos
    <3>1. zone'.data[s].off = k
      BY <1>2, <2>1 DEF Cell
    <3> QED BY <1>1, <1>3, <2>1, <3>1
  <2>2. CASE s # pos
    BY <1>2, <2>2 DEF CellInv, Filled
  <2> QED BY <2>1, <2>2
<1>5. OwnCells'
  <2> SUFFICES ASSUME NEW y \in Writers, Moving(y)'
               PROVE  Span(w[y].off, w[y].n, w[y].line)'
    BY DEF OwnCells
  <2>1. CASE y = x
    <3>1. Span(w[x].off, w[x].n, w[x].line)
      BY <1>3 DEF CellInv, OwnCells
    <3>2. Span(w[x].off, w[x].n, w[x].line) => \A e, n, line :
             e = w[x].off /\ n = w[x].n /\ line = w[x].line => Span(e, n, line)'
      BY <1>1, <1>3, SpanKept
    <3> QED BY <1>2, <2>1, <3>1, <3>2 DEF Span
  <2>2. CASE y # x
    <3>1. w'[y] = w[y] /\ Moving(y)
      BY <1>2, <2>2 DEF Moving
    <3> PICK e, n, line : e = w[y].off /\ n = w[y].n /\ line = w[y].line
      OBVIOUS
    <3>2. Span(e, n, line) /\ e \in Nat /\ n \in Nat
      BY <1>1, <3>1, MovingFields, LineAssumption, ZoneSizeAssumption DEF CellInv, OwnCells
    <3>3. k \notin e .. e + n - 1
      <4>1. Goal(x) <= w[y].off \/ Goal(y) <= w[x].off
        BY <1>1, <1>3, <2>2, <3>1 DEF RingInv, Apart
      <4> QED BY <1>3, <3>2, <4>1 DEF Goal
    <3>4. w'[y].off = e /\ w'[y].n = n /\ w'[y].line = line
      BY <3>1
    <3>5. Span(e, n, line)'
      BY <1>1, <3>2, <3>3, SpanKept DEF k
    <3> QED BY <3>4, <3>5 DEF Span
  <2> QED BY <2>1, <2>2
<1>6. SizeAccounts'
  <2> DEFINE next == IF w[x].done + 1 = w[x].n THEN Idle
                     ELSE [w[x] EXCEPT !.done = @ + 1, !.pos = Advance(@, 1)]
  <2>1. Pending(x) = 0
    BY <1>3 DEF Moving, Pending
  <2>2. w' = [w EXCEPT ![x] = next]
    BY DEF StoreCell
  <2>3. next.st # "sized"
    <3>1. w[x] \in Copyings
      BY <1>1, CopyingState DEF ZoneTypeOK, StoreCell
    <3> QED BY <3>1 DEF Copyings, Idle
  <2> HIDE DEF next
  <2>4. (\A y \in Writers \ {x} : Pending(y)' = Pending(y)) /\ Pending(x)' = 0
    BY <1>1, <2>2, <2>3, PendingOthers
  <2>5. Announced' = Announced + 0 - 0
    BY <1>1, <2>1, <2>4, AnnouncedChange
  <2>6. Announced \in Nat
    BY <1>1, AnnouncedNat
  <2>7. total' + Announced' = total + Announced
    BY <1>1, <1>2, <2>5, <2>6
  <2> QED BY <1>2, <2>7 DEF CellInv, SizeAccounts, Clamp
<1> QED BY <1>4, <1>5, <1>6 DEF CellInv

------------------------------------------------------------------------------
(* A ring just zapped, with its writers idle, holds no cell.               *)
LEMMA ZappedCells ==
  ASSUME NEW z, NEW ww, z = ZappedZone, ww = [x \in Writers |-> Idle]
  PROVE  /\ \A s \in Slots : z.data[s] = Stale
         /\ z.size = 0
         /\ \A x \in Writers : ww[x].st # "copying" /\ ww[x].st # "sized"
BY DEF ZappedZone, Idle

LEMMA CellInit == ZoneInit => CellInv
<1> SUFFICES ASSUME ZoneInit PROVE CellInv
  OBVIOUS
<1>1. /\ \A s \in Slots : zone.data[s] = Stale
      /\ zone.size = 0 /\ total = 0
      /\ \A x \in Writers : ~Moving(x) /\ w[x].st # "sized"
  BY ZappedCells DEF ZoneInit, Moving
<1>2. Announced = 0
  BY <1>1 DEF Announced, Pending, Writers
<1>3. SizeAccounts
  BY <1>1, <1>2, ZoneSizeAssumption DEF SizeAccounts, Clamp
<1> QED BY <1>1, <1>3, RingInit DEF CellInv, Filled, OwnCells

LEMMA ZapCells == ASSUME Zap, RingInv' PROVE CellInv'
<1>1. /\ \A s \in Slots : zone'.data[s] = Stale
      /\ zone'.size = 0 /\ total' = 0
      /\ \A x \in Writers : ~Moving(x)' /\ w'[x].st # "sized"
  BY ZappedCells DEF Zap, Moving
<1>2. Announced' = 0
  BY <1>1 DEF Announced, Pending, Writers
<1>3. SizeAccounts'
  BY <1>1, <1>2, ZoneSizeAssumption DEF SizeAccounts, Clamp
<1> QED BY <1>1, <1>3 DEF CellInv, Filled, OwnCells

LEMMA StillCells ==
  ASSUME CellInv, RingInv', UNCHANGED <<zone, w, total, late>>
  PROVE  CellInv'
<1>1. Announced' = Announced /\ \A x \in Writers : Moving(x)' = Moving(x)
  BY DEF Announced, Pending, Moving
<1> QED BY <1>1 DEF CellInv, Filled, OwnCells, Span, SizeAccounts, Clamp

LEMMA CellStep == CellInv /\ [ZoneNext]_zoneVars => CellInv'
<1> SUFFICES ASSUME CellInv, [ZoneNext]_zoneVars PROVE CellInv'
  OBVIOUS
<1>0. RingInv'
  BY RingStep DEF CellInv
<1>1. ASSUME NEW x \in Writers, WriterStep(x) PROVE CellInv'
  BY <1>0, <1>1, AnnounceCells, ClaimCells, StoreCells DEF WriterStep
<1>2. CASE Zap
  BY <1>0, <1>2, ZapCells
<1>3. CASE HardReset
  BY <1>0, <1>3, StillCells DEF HardReset
<1>4. CASE UNCHANGED zoneVars
  BY <1>0, <1>4, StillCells DEF zoneVars
<1> QED BY <1>1, <1>2, <1>3, <1>4 DEF ZoneNext

------------------------------------------------------------------------------
(***************************************************************************)
(* Reading the log.  The newest cell of a slot is read at a position that  *)
(* grows with its number, whether or not the ring has wrapped.             *)
(***************************************************************************)
Position(o) == o + zone.size - total + 1

LEMMA SizeBounds ==
  ASSUME CellInv
  PROVE  /\ total \in Nat /\ ZoneSize \in Nat \ {0} /\ zone.size \in Nat /\ zone.start \in Nat
         /\ zone.size <= ZoneSize /\ zone.start < ZoneSize
         /\ zone.size = ZoneSize \/ (zone.size >= total /\ total < ZoneSize)
         /\ total >= ZoneSize => zone.size = ZoneSize
<1>1. /\ total \in Nat /\ ZoneSize \in Nat \ {0} /\ zone.size \in 0 .. ZoneSize
      /\ zone.start \in 0 .. ZoneSize - 1
  BY ZoneSizeAssumption DEF CellInv, RingInv, ZoneTypeOK, Slots
<1>2. Announced \in Nat
  BY AnnouncedNat DEF CellInv, RingInv
<1>3. zone.size = Clamp(total + Announced)
  BY DEF CellInv, SizeAccounts
<1> HIDE DEF Announced
<1> QED BY <1>1, <1>2, <1>3 DEF Clamp

LEMMA PositionRead ==
  ASSUME CellInv, NEW o \in Nat, Newest(o)
  PROVE  Position(o) \in 1 .. zone.size /\ LogSlot(zone, Position(o)) = o % ZoneSize
<1> DEFINE start == zone.start
           size  == zone.size
           v     == start + Position(o) - 1
<1>1. /\ total \in Nat /\ ZoneSize \in Nat \ {0} /\ size \in Nat /\ start \in Nat
      /\ size <= ZoneSize /\ start < ZoneSize
      /\ size = ZoneSize \/ (size >= total /\ total < ZoneSize)
      /\ total >= ZoneSize => size = ZoneSize
  BY SizeBounds
<1>2. PICK q \in Nat : total = q * ZoneSize + start
  BY <1>1, Residue DEF CellInv, RingInv, Placed
<1> PICK qz : qz = q * ZoneSize
  OBVIOUS
<1>3. o < total /\ o + ZoneSize >= total
  BY <1>1 DEF Newest, Overtaken
<1>4. qz \in Nat /\ total = qz + start
  BY <1>1, <1>2
<1>5. v = start + o + size - total
  BY <1>1 DEF Position
<1>6. LogSlot(zone, Position(o)) = IF v < size THEN v ELSE v - size
  <2>1. \A j : LogSlot(zone, j) =
          IF start + j - 1 < size THEN start + j - 1 ELSE start + j - 1 - size
    BY DEF LogSlot
  <2>2. Position(o) \in Int /\ start \in Int /\ size \in Int
    BY <1>1 DEF Position
  <2> HIDE DEF start, size
  <2> QED BY <2>1, <2>2
<1>7. Position(o) \in 1 .. size
  BY <1>1, <1>3 DEF Position
<1> HIDE DEF start, size, v
<1>8. CASE q = 0
  <2>1. qz = 0
    BY <1>1, <1>8
  <2>2. v = o + size /\ v - size = o /\ ~(v < size)
    BY <1>1, <1>4, <1>5, <2>1
  <2>3. o \in Slots /\ o = 0 * ZoneSize + o
    BY <1>1, <1>3, <1>4, <2>1 DEF Slots
  <2>4. o % ZoneSize = o
    BY <2>3, ResidueUnique
  <2> QED BY <1>6, <1>7, <2>2, <2>4 DEF size
<1>9. CASE q # 0
  <2>1. q - 1 \in Nat /\ (q - 1) * ZoneSize = qz - ZoneSize /\ qz >= ZoneSize
    <3>1. (q - 1) * ZoneSize = qz - ZoneSize
      BY <1>1
    <3>2. q - 1 \in Nat
      BY <1>9
    <3>3. (q - 1) * ZoneSize >= 0
      BY <1>1, <3>2
    <3> QED BY <1>1, <1>4, <3>1, <3>2, <3>3
  <2>2. size = ZoneSize /\ v = o + ZoneSize - qz
    BY <1>1, <1>4, <1>5, <2>1
  <2>3. CASE o < qz
    <3> PICK r : r = o + ZoneSize - qz
      OBVIOUS
    <3>1. r \in Slots /\ v < size /\ v = r
      BY <1>1, <1>3, <1>4, <2>1, <2>2, <2>3 DEF Slots
    <3>2. o = (q - 1) * ZoneSize + r
      BY <1>1, <1>4, <2>1
    <3>3. o % ZoneSize = r
      BY <2>1, <3>1, <3>2, ResidueUnique
    <3> QED BY <1>6, <1>7, <3>1, <3>3 DEF size
  <2>4. CASE o >= qz
    <3> PICK r : r = o - qz
      OBVIOUS
    <3>1. r \in Slots /\ ~(v < size) /\ v - size = r
      BY <1>1, <1>3, <1>4, <2>1, <2>2, <2>4 DEF Slots
    <3>2. o = q * ZoneSize + r
      BY <1>1, <1>4
    <3>3. o % ZoneSize = r
      BY <3>1, <3>2, ResidueUnique
    <3> QED BY <1>6, <1>7, <3>1, <3>3 DEF size
  <2> QED BY <1>4, <2>3, <2>4
<1> QED BY <1>8, <1>9

(* The log reads every slot of the ring at most once.                      *)
LEMMA SlotOnce ==
  ASSUME CellInv, NEW i \in 1 .. zone.size
  PROVE  /\ LogSlot(zone, i) \in Slots
         /\ \A j \in 1 .. zone.size : LogSlot(zone, i) = LogSlot(zone, j) => i = j
<1> DEFINE start == zone.start
           size  == zone.size
<1>1. /\ ZoneSize \in Nat \ {0} /\ size \in Nat /\ start \in Nat
      /\ size <= ZoneSize /\ start < ZoneSize
  BY SizeBounds
<1>2. \A j : LogSlot(zone, j) =
        IF start + j - 1 < size THEN start + j - 1 ELSE start + j - 1 - size
  BY DEF LogSlot
<1> HIDE DEF start, size
<1>3. i \in 1 .. size
  BY DEF size
<1>4. LogSlot(zone, i) \in Slots
  BY <1>1, <1>2, <1>3 DEF Slots
<1>5. ASSUME NEW j \in 1 .. size, LogSlot(zone, i) = LogSlot(zone, j) PROVE i = j
  BY <1>1, <1>2, <1>3, <1>5
<1> QED BY <1>4, <1>5 DEF size

LEMMA NewestOnce ==
  ASSUME total \in Nat, NEW a \in Nat, NEW b \in Nat, Newest(a), Newest(b),
         a % ZoneSize = b % ZoneSize
  PROVE  a = b
<1>1. a + ZoneSize >= total /\ b + ZoneSize >= total /\ a < total /\ b < total
  BY ZoneSizeAssumption DEF Newest, Overtaken
<1>2. ~(a < b) /\ ~(b < a)
  BY <1>1, SameSlot, ZoneSizeAssumption
<1> QED BY <1>2

(* A newest cell that no writer has still to store is torn by no reset.    *)
LEMMA UnheldIsUntorn ==
  ASSUME RingInv, NEW o \in Nat, Newest(o), \A x \in Writers : ~Holding(x, o)
  PROVE  o % ZoneSize \notin Torn
<1> SUFFICES ASSUME NEW x \in Writers, o % ZoneSize \in TornBy(x) PROVE FALSE
  BY DEF Torn
<1>1. Moving(x)
  BY DEF TornBy, Moving
<1>2. PICK k \in 0 .. Left(x) - 1 :
        o % ZoneSize = Advance(w[x].pos, k) /\ ~Overtaken(w[x].off + w[x].done + k)
  BY <1>1 DEF TornBy, Moving
<1>3. /\ w[x].off \in Nat /\ w[x].n \in Nat /\ w[x].done \in Nat /\ w[x].n <= ZoneSize
      /\ w[x].pos = Number(x) % ZoneSize /\ Number(x) \in Nat /\ Goal(x) <= total
      /\ total \in Nat
  BY <1>1, MovingFields, LineAssumption, ZoneSizeAssumption DEF RingInv, Placed, ZoneTypeOK
<1> PICK a : a = Number(x) + k
  OBVIOUS
<1>4. k \in 0 .. ZoneSize /\ a \in Nat /\ a \in Number(x) .. Goal(x) - 1 /\ a < total
  BY <1>2, <1>3, ZoneSizeAssumption DEF Left, Number, Goal
<1>5. o % ZoneSize = a % ZoneSize /\ Newest(a) /\ Holding(x, a)
  BY <1>1, <1>2, <1>3, <1>4, AdvanceAdds DEF Newest, Holding, Number
<1>6. a = o
  BY <1>3, <1>4, <1>5, NewestOnce
<1> QED BY <1>5, <1>6

(* A line the ring was given whole and that was not lapped is in the log.  *)
LEMMA WholeCells ==
  ASSUME CellInv, late = {}, NEW e \in Nat, NEW n \in 1 .. MaxLine, NEW line,
         Whole(e, n, line), ~Overtaken(e), NEW o \in e .. e + n - 1
  PROVE  /\ o \in Nat /\ Newest(o) /\ o % ZoneSize \notin Torn
         /\ zone.data[o % ZoneSize] = Cell(o, line, o - e + 1, n)
         /\ zone.data[o % ZoneSize] # Stale
<1>1. total \in Nat /\ ZoneSize \in Nat \ {0} /\ n \in Nat
  BY SizeBounds, LineAssumption
<1>2. o \in Nat /\ Newest(o)
  BY <1>1 DEF Whole, Newest, Overtaken
<1>3. ASSUME NEW x \in Writers, Holding(x, o) PROVE FALSE
  <2>1. /\ Moving(x) /\ w[x].off \in Nat /\ w[x].done \in Nat /\ Goal(x) \in Nat
        /\ w[x].off <= o /\ o < Goal(x)
    BY <1>3, MovingFields DEF CellInv, RingInv, Holding, Number
  <2> QED BY <1>1, <1>2, <2>1 DEF Whole
<1>4. o % ZoneSize \notin Torn
  BY <1>2, <1>3, UnheldIsUntorn DEF CellInv
<1>5. Stored(o)
  BY <1>2, <1>3 DEF CellInv, RingInv, NewestKept, Accounted
<1>6. o % ZoneSize \in Slots
  BY <1>2, Residue
<1> QED BY <1>2, <1>4, <1>5, <1>6 DEF Stored, Whole, Span

ShownWhole(e, n, line) ==
  \A k \in 0 .. n - 1 :
    /\ Newest(e + k) /\ zone.data[(e + k) % ZoneSize] # Stale
    /\ zone.data[(e + k) % ZoneSize] = Cell(e + k, line, k + 1, n)

LEMMA ShownInLog ==
  ASSUME CellInv, NEW e \in Nat, NEW n \in 1 .. MaxLine, NEW line, ShownWhole(e, n, line)
  PROVE  /\ Position(e) \in DOMAIN OldLog(zone)
         /\ IntactAt(OldLog(zone), Position(e))
         /\ OldLog(zone)[Position(e)].line = line /\ OldLog(zone)[Position(e)].n = n
         /\ OldLog(zone)[Position(e)].off = e
         /\ \A k \in 0 .. n - 1 : LogSlot(zone, Position(e) + k) = (e + k) % ZoneSize
<1> DEFINE log == OldLog(zone)
           p   == Position(e)
<1>1. total \in Nat /\ zone.size \in Nat /\ n \in Nat /\ n > 0
  BY SizeBounds, LineAssumption
<1>2. DOMAIN log = 1 .. zone.size /\ \A i \in 1 .. zone.size : log[i] = zone.data[LogSlot(zone, i)]
  BY DEF OldLog
<1>3. ASSUME NEW k \in 0 .. n - 1
      PROVE  /\ p + k \in 1 .. zone.size /\ LogSlot(zone, p + k) = (e + k) % ZoneSize
             /\ log[p + k] = Cell(e + k, line, k + 1, n) /\ log[p + k] # Stale
  <2> PICK o : o = e + k
    OBVIOUS
  <2>1. /\ o \in Nat /\ Newest(o) /\ zone.data[o % ZoneSize] # Stale
        /\ zone.data[o % ZoneSize] = Cell(o, line, k + 1, n)
    BY <1>1, <1>3 DEF ShownWhole
  <2>2. Position(o) \in 1 .. zone.size /\ LogSlot(zone, Position(o)) = o % ZoneSize
    BY <2>1, PositionRead
  <2>3. Position(o) = p + k
    BY <1>1, <2>1 DEF Position
  <2> HIDE DEF log, p
  <2> QED BY <1>2, <2>1, <2>2, <2>3
<1>4. p \in Int /\ p + 0 = p
  BY <1>1 DEF Position
<1> HIDE DEF log, p
<1>5. p \in DOMAIN log /\ log[p] = Cell(e, line, 1, n) /\ log[p] # Stale
  <2>1. 0 \in 0 .. n - 1
    BY <1>1
  <2>2. /\ p + 0 \in 1 .. zone.size /\ log[p + 0] = Cell(e + 0, line, 0 + 1, n)
        /\ log[p + 0] # Stale
    BY <1>3, <2>1
  <2> QED BY <1>2, <1>4, <2>2
<1>6. /\ log[p].part = 1 /\ log[p].n = n /\ log[p].line = line /\ log[p].off = e
  BY <1>5 DEF Cell
<1>7. p + log[p].n - 1 \in DOMAIN log
  <2>1. n - 1 \in 0 .. n - 1 /\ p + (n - 1) = p + log[p].n - 1
    BY <1>1, <1>4, <1>6
  <2> QED BY <1>2, <1>3, <2>1
<1>8. IntactAt(log, p)
  <2>1. \A k \in 0 .. n - 1 : log[p + k] = Cell(e + k, line, k + 1, n)
    BY <1>3
  <2> QED BY <1>5, <1>6, <1>7, <2>1 DEF IntactAt
<1> QED BY <1>3, <1>5, <1>6, <1>8 DEF log, p

LEMMA WholeInLog ==
  ASSUME CellInv, late = {}, NEW e \in Nat, NEW n \in 1 .. MaxLine, NEW line,
         Whole(e, n, line), ~Overtaken(e)
  PROVE  /\ Position(e) \in DOMAIN OldLog(zone)
         /\ IntactAt(OldLog(zone), Position(e))
         /\ OldLog(zone)[Position(e)].line = line /\ OldLog(zone)[Position(e)].n = n
         /\ LineSlots(zone, Position(e), n) \cap Torn = {}
<1>1. n \in Nat
  BY LineAssumption
<1>2. ASSUME NEW k \in 0 .. n - 1
      PROVE  /\ Newest(e + k) /\ zone.data[(e + k) % ZoneSize] # Stale
             /\ zone.data[(e + k) % ZoneSize] = Cell(e + k, line, k + 1, n)
             /\ (e + k) % ZoneSize \notin Torn
  <2> PICK o : o = e + k
    OBVIOUS
  <2>1. o \in e .. e + n - 1 /\ o - e + 1 = k + 1
    BY <1>1, <1>2
  <2>2. /\ Newest(o) /\ o % ZoneSize \notin Torn /\ zone.data[o % ZoneSize] # Stale
        /\ zone.data[o % ZoneSize] = Cell(o, line, o - e + 1, n)
    BY <2>1, WholeCells
  <2> QED BY <2>1, <2>2
<1>3. ShownWhole(e, n, line)
  BY <1>2 DEF ShownWhole
<1>4. \A k \in 0 .. n - 1 : LogSlot(zone, Position(e) + k) \notin Torn
  BY <1>2, <1>3, ShownInLog
<1>5. LineSlots(zone, Position(e), n) \cap Torn = {}
  BY <1>4 DEF LineSlots
<1> QED BY <1>3, <1>5, ShownInLog

(* Conversely, a line read whole from the log, clear of the writes in      *)
(* flight, is read where its number is read and is nobody's to finish.     *)
LEMMA IntactIsNewest ==
  ASSUME CellInv, late = {}, NEW i \in 1 .. zone.size,
         IntactAt(OldLog(zone), i),
         LineSlots(zone, i, OldLog(zone)[i].n) \cap Torn = {}
  PROVE  LET c == OldLog(zone)[i] IN
         /\ c = zone.data[LogSlot(zone, i)] /\ c # Stale /\ c \in Cells
         /\ Newest(c.off) /\ Position(c.off) = i
         /\ \A x \in Writers, k \in 0 .. c.n - 1 : ~Holding(x, c.off + k)
<1> DEFINE log == OldLog(zone)
           c   == log[i]
           s   == LogSlot(zone, i)
           b   == c.off
<1>1. DOMAIN log = 1 .. zone.size /\ \A j \in 1 .. zone.size : log[j] = zone.data[LogSlot(zone, j)]
  BY DEF OldLog
<1>2. s \in Slots /\ total \in Nat /\ zone.size \in Nat /\ ZoneSize \in Nat \ {0}
  BY SlotOnce, SizeBounds
<1> HIDE DEF log
<1>3. c = zone.data[s] /\ c # Stale /\ c \in Cells
  <2>1. c # Stale
    BY DEF IntactAt, log
  <2> QED BY <1>1, <1>2, <2>1 DEF CellInv, RingInv, ZoneTypeOK
<1>4. b \in Nat /\ b < total /\ b % ZoneSize = s /\ c.n \in Nat /\ c.n > 0
  BY <1>2, <1>3, LineAssumption DEF Cells, CellInv, Filled
<1>5. \A k \in 0 .. c.n - 1 : i + k \in 1 .. zone.size /\ LogSlot(zone, i + k) \notin Torn
  <2>1. i + c.n - 1 \in 1 .. zone.size
    BY <1>1 DEF IntactAt, log
  <2>2. \A k \in 0 .. c.n - 1 : LogSlot(zone, i + k) \in LineSlots(zone, i, c.n)
    BY DEF LineSlots
  <2> QED BY <1>2, <1>4, <2>1, <2>2 DEF log
<1> HIDE DEF c, s
<1> PICK o : o = b
  OBVIOUS
<1>6. Newest(o)
  <2> DEFINE m == LastClaimed(s)
  <2>1. m \in Nat /\ m % ZoneSize = s /\ Newest(m)
    <3>1. s < total
      <4>1. PICK q \in Nat : b = q * ZoneSize + (b % ZoneSize)
        BY <1>4, Residue
      <4>2. q * ZoneSize \in Nat /\ s \in Nat
        BY <1>2, <4>1 DEF Slots
      <4> QED BY <1>2, <1>4, <4>1, <4>2
    <3> QED BY <1>2, <3>1, LastClaimedIs
  <2> HIDE DEF m
  <2>2. Accounted(m) /\ ~Overtaken(m)
    BY <2>1 DEF CellInv, RingInv, NewestKept, Newest
  <2>3. ~\E x \in Writers : Holding(x, m)
    <3>1. s \notin Torn
      <4>1. 0 \in 0 .. c.n - 1 /\ i + 0 = i
        BY <1>4
      <4> QED BY <1>5, <4>1 DEF s
    <3> QED BY <2>1, <2>2, <3>1, HeldIsTorn DEF CellInv
  <2>4. Stored(m)
    BY <2>2, <2>3 DEF Accounted
  <2>5. b = m
    BY <1>3, <2>1, <2>4 DEF Stored
  <2> QED BY <2>1, <2>5
<1>7. Position(o) = i
  <2>1. Position(o) \in 1 .. zone.size /\ LogSlot(zone, Position(o)) = o % ZoneSize
    BY <1>4, <1>6, PositionRead
  <2> QED BY <1>4, <2>1, SlotOnce DEF s
<1>8. ASSUME NEW x \in Writers, NEW k \in 0 .. c.n - 1, Holding(x, o + k) PROVE FALSE
  <2> PICK a : a = o + k
    OBVIOUS
  <2>1. /\ a \in Nat /\ a >= o /\ Holding(x, a)
    BY <1>4, <1>8
  <2>2. a < total
    <3>1. Moving(x) /\ a < Goal(x) /\ Goal(x) <= total /\ Goal(x) \in Nat
      BY <2>1, MovingFields DEF Holding, CellInv, RingInv, Placed
    <3> QED BY <1>2, <2>1, <3>1
  <2>3. Newest(a)
    BY <1>2, <1>4, <1>6, <2>1, <2>2 DEF Newest, Overtaken
  <2>4. a % ZoneSize \in Torn
    BY <2>1, <2>3, HeldIsTorn DEF CellInv, Newest
  <2>5. LogSlot(zone, Position(a)) = a % ZoneSize
    BY <2>1, <2>3, PositionRead
  <2>6. Position(a) = i + k
    <3>1. o + zone.size - total + 1 = i
      BY <1>7 DEF Position
    <3>2. i + k = (o + k) + zone.size - total + 1
      <4>1. i \in Int /\ k \in Int /\ o \in Int
        BY <1>2, <1>4
      <4> QED BY <1>2, <3>1, <4>1
    <3> QED BY <3>2 DEF Position
  <2> QED BY <1>5, <2>4, <2>5, <2>6
<1>9. /\ c = zone.data[s] /\ c # Stale /\ c \in Cells
      /\ Newest(c.off) /\ Position(c.off) = i
      /\ \A x \in Writers, k \in 0 .. c.n - 1 : ~Holding(x, c.off + k)
  BY <1>3, <1>6, <1>7, <1>8
<1> QED BY <1>9 DEF c, s, log

------------------------------------------------------------------------------
(***************************************************************************)
(* The ring as a bounded log.  What the next boot reads are exactly the    *)
(* cells of the ring that were not lapped, so that the steps of the log    *)
(* can be found in the steps of the ring.                                  *)
(***************************************************************************)
ReadHere(s) == zone.data[s] # Stale /\ ~Overtaken(zone.data[s].off)

InRing == {zone.data[s] : s \in {r \in Slots : ReadHere(r)}}

LEMMA ReadCell ==
  ASSUME CellInv, NEW i \in ReadAt
  PROVE  /\ i \in 1 .. zone.size /\ LogSlot(zone, i) \in Slots
         /\ OldLog(zone)[i] = zone.data[LogSlot(zone, i)] /\ ReadHere(LogSlot(zone, i))
         /\ OldLog(zone)[i].off \in Nat /\ Position(OldLog(zone)[i].off) = i
<1> DEFINE s == LogSlot(zone, i)
           o == zone.data[s].off
<1>1. i \in 1 .. zone.size /\ OldLog(zone)[i] = zone.data[s]
  BY DEF ReadAt, OldLog
<1>2. ReadHere(s)
  BY <1>1 DEF ReadAt, ReadHere
<1>3. s \in Slots
  BY <1>1, SlotOnce
<1> HIDE DEF s
<1>4. o \in Nat /\ Newest(o) /\ o % ZoneSize = s
  BY <1>2, <1>3, CellOff DEF CellInv, RingInv, Filled, ReadHere, Newest
<1> HIDE DEF o
<1>5. Position(o) \in 1 .. zone.size /\ LogSlot(zone, Position(o)) = s
  BY <1>4, PositionRead
<1>6. Position(o) = i
  BY <1>1, <1>5, SlotOnce DEF s
<1> QED BY <1>1, <1>2, <1>3, <1>4, <1>6 DEF s, o

(* The positions read grow with the numbers of the cells.                  *)
LEMMA LogInOrder == CellInv => ReadInOrder
<1> SUFFICES ASSUME CellInv, NEW i \in ReadAt, NEW j \in ReadAt, i < j
             PROVE  OldLog(zone)[i].off < OldLog(zone)[j].off
  BY DEF ReadInOrder
<1> PICK a : a = OldLog(zone)[i].off
  OBVIOUS
<1> PICK b : b = OldLog(zone)[j].off
  OBVIOUS
<1>1. a \in Nat /\ b \in Nat /\ Position(a) = i /\ Position(b) = j
  BY ReadCell
<1>2. zone.size \in Nat /\ total \in Nat
  BY SizeBounds
<1>3. a < b
  BY <1>1, <1>2 DEF Position
<1> QED BY <1>3

LEMMA KeptInRing == CellInv => Kept = InRing
<1> SUFFICES ASSUME CellInv PROVE Kept = InRing
  OBVIOUS
<1>1. ASSUME NEW i \in ReadAt PROVE OldLog(zone)[i] \in InRing
  BY ReadCell DEF InRing
<1>2. ASSUME NEW s \in Slots, ReadHere(s) PROVE \E i \in ReadAt : OldLog(zone)[i] = zone.data[s]
  <2> PICK o : o = zone.data[s].off
    OBVIOUS
  <2>1. o \in Nat /\ Newest(o) /\ o % ZoneSize = s
    BY <1>2, CellOff DEF CellInv, RingInv, Filled, ReadHere, Newest
  <2> PICK i : i = Position(o)
    OBVIOUS
  <2>2. i \in 1 .. zone.size /\ LogSlot(zone, i) = s
    BY <2>1, PositionRead
  <2>3. i \in DOMAIN OldLog(zone) /\ OldLog(zone)[i] = zone.data[s]
    BY <2>2 DEF OldLog
  <2> QED BY <1>2, <2>3 DEF ReadAt, ReadHere
<1> QED BY <1>1, <1>2 DEF Kept, InRing

LEMMA KeptInRingNext == CellInv' => Kept' = InRing'
<1>1. (CellInv => Kept = InRing)'
  BY KeptInRing, PTL
<1> QED BY <1>1

(* A function made of an operator, changed in one place.                   *)
LEMMA OwedChanges ==
  ASSUME NEW x \in Writers, NEW S, OwedBy(x)' = S, \A y \in Writers \ {x} : OwedBy(y)' = OwedBy(y)
  PROVE  Owed' = [Owed EXCEPT ![x] = S]
BY DEF Owed

LEMMA OwedStays ==
  ASSUME \A y \in Writers : OwedBy(y)' = OwedBy(y)
  PROVE  Owed' = Owed
BY DEF Owed

(* A writer that neither starts to copy nor stores owes what it owed.      *)
LEMMA OwedSame == ASSUME NEW y \in Writers, w'[y] = w[y] PROVE OwedBy(y)' = OwedBy(y)
BY DEF OwedBy

LEMMA OwedNone == ASSUME NEW y \in Writers, ~Moving(y) PROVE OwedBy(y) = {}
BY DEF OwedBy, Moving

LEMMA RingStays ==
  ASSUME zone'.data = zone.data, total' = total
  PROVE  InRing' = InRing
<1>1. \A s \in Slots : ReadHere(s)' = ReadHere(s)
  BY DEF ReadHere, Overtaken
<1> QED BY <1>1 DEF InRing

LEMMA AnnounceLog ==
  ASSUME CellInv, CellInv', NEW x \in Writers, NEW line \in Lines, NEW n \in 1 .. MaxLine,
         Announce(x, line, n)
  PROVE  UNCHANGED Log!logVars
<1>1. /\ w' = [w EXCEPT ![x] = Sized(line, n)] /\ total' = total
      /\ zone'.data = zone.data /\ ~Moving(x) /\ live' = live
  BY DEF Announce, SizeAdd, CellInv, RingInv, ZoneTypeOK, Busy, Moving
<1>2. ~Moving(x)'
  BY <1>1 DEF Moving, Sized, CellInv, RingInv, ZoneTypeOK
<1>3. \A y \in Writers \ {x} : w'[y] = w[y]
  BY <1>1 DEF CellInv, RingInv, ZoneTypeOK
<1>4. OwedBy(x) = {} /\ OwedBy(x)' = {}
  BY <1>1, <1>2 DEF OwedBy, Moving
<1>5. Owed' = Owed
  BY <1>3, <1>4, OwedStays, OwedSame
<1>6. Kept' = Kept
  BY <1>1, RingStays, KeptInRing, KeptInRingNext
<1> QED BY <1>1, <1>5, <1>6 DEF Log!logVars

LEMMA ClaimLog ==
  ASSUME CellInv, CellInv', NEW x \in Writers, Claim(x)
  PROVE  \E line \in Lines, n \in 1 .. MaxLine : Log!Reserve(x, line, n)
<1>1. PICK n \in 1 .. MaxLine :
           /\ total' = total + n /\ total \in Nat /\ n <= ZoneSize
           /\ zone'.start = Advance(zone.start, n) /\ zone'.data = zone.data
           /\ late' = late /\ ~Moving(x)
           /\ Moving(x)' /\ w'[x].off = total /\ w'[x].done = 0 /\ w'[x].n = n
           /\ w'[x].pos = zone.start
           /\ \A y \in Writers \ {x} : w'[y] = w[y]
  BY ClaimEffect DEF CellInv, RingInv
<1> PICK line : line = w[x].line
  OBVIOUS
<1>2. line \in Lines /\ w'[x].line = line
  <2>1. w[x] \in Sizeds
    BY SizedState DEF Claim, CellInv, RingInv, ZoneTypeOK
  <2>2. w'[x] = Copying(w[x].line, w[x].n, total, zone.start, 0)
    BY DEF Claim, CellInv, RingInv, ZoneTypeOK
  <2> QED BY <2>1, <2>2 DEF Sizeds, Copying
<1> DEFINE S == {Cell(total + k, line, k + 1, n) : k \in 0 .. n - 1}
<1>3. OwedBy(x)' = S /\ OwedBy(x) = {}
  BY <1>1, <1>2 DEF OwedBy, Moving
<1> HIDE DEF S
<1>4. Owed' = [Owed EXCEPT ![x] = S] /\ Owed[x] = {}
  <2>1. \A y \in Writers \ {x} : OwedBy(y)' = OwedBy(y)
    BY <1>1, OwedSame
  <2> QED BY <1>3, <2>1, OwedChanges DEF Owed
<1>5. Kept' = {e \in Kept : ~Overtaken(e.off)'}
  <2>1. ASSUME NEW s \in Slots PROVE ReadHere(s)' <=> ReadHere(s) /\ ~Overtaken(zone.data[s].off)'
    <3>1. CASE zone.data[s] = Stale
      BY <1>1, <3>1 DEF ReadHere
    <3>2. CASE zone.data[s] # Stale
      <4>1. zone.data[s].off \in Nat
        BY <3>2, CellOff DEF CellInv, RingInv
      <4> PICK o : o = zone.data[s].off
        OBVIOUS
      <4>2. ~Overtaken(o)' => ~Overtaken(o)
        BY <1>1, <4>1, ZoneSizeAssumption DEF Overtaken
      <4> QED BY <1>1, <3>2, <4>2 DEF ReadHere
    <3> QED BY <3>1, <3>2
  <2>2. InRing' = {e \in InRing : ~Overtaken(e.off)'}
    BY <1>1, <2>1 DEF InRing
  <2> QED BY <2>2, KeptInRing, KeptInRingNext
<1>6. S = {Log!Entry(total + k, line, k + 1, n) : k \in 0 .. n - 1}
  BY DEF S, Log!Entry, Cell
<1>7. \A e : Log!Past(e.off, total') <=> Overtaken(e.off)'
  BY DEF Log!Past, Overtaken
<1>8. live /\ live' = live
  BY DEF Claim
<1> QED BY <1>1, <1>2, <1>4, <1>5, <1>6, <1>7, <1>8 DEF Log!Reserve

LEMMA DoneNatNext == ZoneTypeOK' => \A x \in Writers : Moving(x)' => w'[x].done \in Nat
<1>1. ZoneTypeOK => \A x \in Writers : Moving(x) => w[x].done \in Nat
  BY MovingFields
<1>2. (ZoneTypeOK => \A x \in Writers : Moving(x) => w[x].done \in Nat)'
  BY <1>1, PTL
<1> QED BY <1>2

(* The cell that is stored is the first one its writer owes.               *)
LEMMA StoreLog ==
  ASSUME CellInv, CellInv', NEW x \in Writers, StoreCell(x)
  PROVE  \E e \in Owed[x] : Log!Deliver(x, e)
<1> PICK pos : pos = w[x].pos
  OBVIOUS
<1> PICK line : line = w[x].line
  OBVIOUS
<1> PICK n : n = w[x].n
  OBVIOUS
<1> PICK off : off = w[x].off
  OBVIOUS
<1> PICK done : done = w[x].done
  OBVIOUS
<1> PICK k : k = Number(x)
  OBVIOUS
<1> DEFINE e == Cell(off + done, line, done + 1, n)
<1>1. /\ off \in Nat /\ done \in Nat /\ n \in Nat /\ done < n /\ k = off + done
      /\ pos \in Slots /\ k \in Nat /\ Moving(x)
  <2>1. Moving(x)
    BY DEF StoreCell, Moving
  <2> QED BY <2>1, MovingFields, LineAssumption, ZoneSizeAssumption
          DEF CellInv, RingInv, Number
<1>2. /\ zone'.data[pos] = e /\ total' = total
      /\ \A s \in Slots \ {pos} : zone'.data[s] = zone.data[s]
      /\ \A y \in Writers \ {x} : w'[y] = w[y]
  <2>1. k - off + 1 = done + 1
    BY <1>1
  <2> QED BY <1>1, <2>1, StoreWrites DEF CellInv, RingInv
<1>3. e.off = k /\ e # Stale
  <2>1. zone'.data[pos] # Stale
    BY StoreEffect DEF CellInv, RingInv
  <2> QED BY <1>1, <1>2, <2>1 DEF Cell
<1> DEFINE O == {Cell(off + j, line, j + 1, n) : j \in done .. n - 1}
           P == {Cell(off + j, line, j + 1, n) : j \in done + 1 .. n - 1}
<1>4. OwedBy(x) = O
  BY <1>1 DEF OwedBy, Moving
<1>5. OwedBy(x)' = P
  <2>1. CASE done + 1 = n
    <3>1. ~Moving(x)'
      BY <1>1, <2>1, StoreEffect DEF CellInv, RingInv, Number, Goal
    <3>2. P = {}
      BY <1>1, <2>1
    <3> QED BY <3>1, <3>2 DEF OwedBy, Moving
  <2>2. CASE done + 1 # n
    <3>1. Number(x) + 1 # Goal(x)
      BY <1>1, <2>2 DEF Number, Goal
    <3>2. Moving(x)' /\ Number(x)' = Number(x) + 1 /\ w'[x].off = off
      BY <3>1, StoreEffect DEF CellInv, RingInv
    <3>3. w'[x].line = line /\ w'[x].n = n
      BY <3>2, StoreWrites DEF CellInv, RingInv
    <3>4. w'[x].done = done + 1
      <4>1. w'[x].done \in Nat
        BY <3>2, DoneNatNext DEF CellInv, RingInv
      <4> QED BY <1>1, <3>2, <4>1 DEF Number
    <3> QED BY <3>2, <3>3, <3>4 DEF OwedBy, Moving
  <2> QED BY <2>1, <2>2
<1>6. e \in O /\ \A f \in O : e.off <= f.off
  <2>1. ASSUME NEW j \in done .. n - 1 PROVE e.off <= Cell(off + j, line, j + 1, n).off
    <3>1. k <= off + j
      BY <1>1
    <3> QED BY <1>3, <3>1 DEF Cell
  <2>2. done \in done .. n - 1
    BY <1>1
  <2> QED BY <2>1, <2>2
<1>7. P = O \ {e}
  <2>1. ASSUME NEW j \in done + 1 .. n - 1 PROVE Cell(off + j, line, j + 1, n) # e
    <3>1. off + j # off + done
      BY <1>1
    <3> QED BY <3>1 DEF Cell
  <2>2. \A j \in done .. n - 1 : j = done \/ j \in done + 1 .. n - 1
    BY <1>1
  <2>3. \A j \in done + 1 .. n - 1 : j \in done .. n - 1
    BY <1>1
  <2> QED BY <2>1, <2>2, <2>3
<1> HIDE DEF e, O, P
<1>8. Owed' = [Owed EXCEPT ![x] = Owed[x] \ {e}] /\ Owed[x] = O
  <2>1. \A y \in Writers \ {x} : OwedBy(y)' = OwedBy(y)
    BY <1>2, OwedSame
  <2>2. Owed' = [Owed EXCEPT ![x] = P]
    BY <1>5, <2>1, OwedChanges
  <2>3. Owed[x] = O
    BY <1>4 DEF Owed
  <2> QED BY <1>7, <2>2, <2>3
<1>9. \A s \in Slots \ {pos} : ReadHere(s)' = ReadHere(s)
  BY <1>2 DEF ReadHere, Overtaken
<1>10. k % ZoneSize = pos /\ k < total
  <2>1. k < Goal(x) /\ Goal(x) \in Nat /\ Goal(x) <= total /\ total \in Nat
    BY <1>1, MovingFields DEF CellInv, RingInv, Placed, ZoneTypeOK
  <2>2. k % ZoneSize = pos
    BY <1>1 DEF CellInv, RingInv, Placed
  <2> QED BY <1>1, <2>1, <2>2
<1>11. \A s \in Slots \ {pos} : ReadHere(s) => zone.data[s].off % ZoneSize # pos
  BY DEF CellInv, Filled, ReadHere
<1>12. live /\ live' = live
  BY DEF StoreCell
<1>13. CASE ~Overtaken(k)
  <2>1. ReadHere(pos) => zone.data[pos] = e
    <3> SUFFICES ASSUME ReadHere(pos) PROVE zone.data[pos] = e
      OBVIOUS
    <3> PICK o : o = zone.data[pos].off
      OBVIOUS
    <3>1. o \in Nat /\ Newest(o) /\ o % ZoneSize = pos /\ zone.data[pos] # Stale
      BY <1>1, CellOff DEF CellInv, RingInv, Filled, ReadHere, Newest
    <3>2. o = k
      <4>1. total \in Nat /\ Newest(k)
        BY <1>10, <1>13 DEF CellInv, RingInv, ZoneTypeOK, Newest
      <4> QED BY <1>1, <1>10, <3>1, <4>1, NewestOnce
    <3>3. Span(off, n, line)
      BY <1>1 DEF CellInv, OwnCells
    <3>4. k \in off .. off + n - 1 /\ k - off + 1 = done + 1
      BY <1>1
    <3>5. zone.data[pos] = Cell(k, line, k - off + 1, n)
      BY <1>1, <3>1, <3>2, <3>3, <3>4 DEF Span
    <3> QED BY <1>1, <3>4, <3>5 DEF e
  <2>2. ReadHere(pos)'
    BY <1>2, <1>3, <1>13 DEF ReadHere, Overtaken
  <2>3. InRing' = InRing \cup {e}
    BY <1>1, <1>2, <1>9, <2>1, <2>2 DEF InRing
  <2>4. Kept' = Kept \cup {e}
    BY <2>3, KeptInRing, KeptInRingNext
  <2>5. ~Log!Past(e.off, total)
    BY <1>3, <1>13 DEF Log!Past, Overtaken
  <2> QED BY <1>2, <1>6, <1>8, <1>12, <2>4, <2>5 DEF Log!Deliver
<1>14. CASE Overtaken(k)
  <2>1. ~ReadHere(pos)'
    BY <1>2, <1>3, <1>14 DEF ReadHere, Overtaken
  <2>2. Log!Past(e.off, total)
    BY <1>3, <1>14 DEF Log!Past, Overtaken
  <2>3. CASE ~ReadHere(pos)
    <3>1. InRing' = InRing
      BY <1>1, <1>2, <1>9, <2>1, <2>3 DEF InRing
    <3>2. Kept' = Kept
      BY <3>1, KeptInRing, KeptInRingNext
    <3> QED BY <1>2, <1>6, <1>8, <1>12, <2>2, <3>2 DEF Log!Deliver
  <2>4. CASE ReadHere(pos)
    <3> PICK f : f = zone.data[pos]
      OBVIOUS
    <3>1. f \in InRing /\ f.off % ZoneSize = pos
      BY <1>1, <2>4 DEF InRing, CellInv, Filled, ReadHere
    <3>2. \A s \in Slots \ {pos} : ReadHere(s) => zone.data[s] # f
      BY <1>11, <3>1
    <3>3. InRing' = InRing \ {f}
      BY <1>1, <1>2, <1>9, <2>1, <2>4, <3>2 DEF InRing
    <3>4. f \in Kept /\ Kept' = Kept \ {f}
      BY <3>1, <3>3, KeptInRing, KeptInRingNext
    <3> QED BY <1>2, <1>6, <1>8, <1>12, <2>2, <3>4 DEF Log!Deliver
  <2> QED BY <2>3, <2>4
<1> QED BY <1>13, <1>14

LEMMA ZappedLog ==
  ASSUME NEW z, z = ZappedZone
  PROVE  \A s \in Slots : z.data[s] = Stale
BY DEF ZappedZone

LEMMA LogInitial == ZoneInit => Log!LogInit
<1> SUFFICES ASSUME ZoneInit PROVE Log!LogInit
  OBVIOUS
<1>1. \A x \in Writers : ~Moving(x)
  BY ZappedRing DEF ZoneInit, Moving
<1>2. Owed = [x \in Writers |-> {}]
  BY <1>1, OwedNone DEF Owed
<1>3. InRing = {}
  BY ZappedLog DEF ZoneInit, InRing, ReadHere
<1> QED BY <1>2, <1>3, KeptInRing, CellInit DEF ZoneInit, Log!LogInit, Log!NothingOwed

LEMMA ZapLog == ASSUME Zap, CellInv' PROVE Log!Restart
<1>1. \A x \in Writers : ~Moving(x)'
  BY ZappedRing DEF Zap, Moving
<1>2. Owed' = [x \in Writers |-> {}]
  <2>1. \A x \in Writers : OwedBy(x)' = {}
    BY <1>1 DEF OwedBy, Moving
  <2> QED BY <2>1 DEF Owed
<1>3. InRing' = {}
  BY ZappedLog DEF Zap, InRing, ReadHere
<1> QED BY <1>2, <1>3, KeptInRingNext DEF Zap, Log!Restart, Log!NothingOwed

LEMMA SameLog ==
  ASSUME CellInv, UNCHANGED <<zone, w, total>>
  PROVE  Owed' = Owed /\ Kept' = Kept
<1>1. Owed' = Owed
  BY OwedSame, OwedStays
<1>2. ReadAt' = ReadAt
  BY DEF ReadAt, OldLog, LogSlot, Overtaken
<1> QED BY <1>1, <1>2 DEF Kept, OldLog, LogSlot

LEMMA LogStepOfZone ==
  CellInv /\ CellInv' /\ [ZoneNext]_zoneVars => [Log!LogNext]_(Log!logVars)
<1> SUFFICES ASSUME CellInv, CellInv', [ZoneNext]_zoneVars PROVE [Log!LogNext]_(Log!logVars)
  OBVIOUS
<1>1. ASSUME NEW x \in Writers, WriterStep(x) PROVE [Log!LogNext]_(Log!logVars)
  <2>1. CASE \E line \in Lines, n \in 1 .. MaxLine : Announce(x, line, n)
    BY <2>1, AnnounceLog
  <2>2. CASE Claim(x)
    BY <2>2, ClaimLog DEF Log!LogNext
  <2>3. CASE StoreCell(x)
    BY <2>3, StoreLog DEF Log!LogNext
  <2> QED BY <1>1, <2>1, <2>2, <2>3 DEF WriterStep
<1>2. CASE Zap
  BY <1>2, ZapLog DEF Log!LogNext
<1>3. CASE HardReset
  <2>1. Owed' = Owed /\ Kept' = Kept
    BY <1>3, SameLog DEF HardReset
  <2> QED BY <1>3, <2>1 DEF HardReset, Log!PowerCut, Log!LogNext
<1>4. CASE UNCHANGED zoneVars
  <2>1. Owed' = Owed /\ Kept' = Kept
    BY <1>4, SameLog DEF zoneVars
  <2> QED BY <1>4, <2>1 DEF zoneVars, Log!logVars
<1> QED BY <1>1, <1>2, <1>3, <1>4 DEF ZoneNext

(* The inductive invariant of the zone with what its cells say.            *)
THEOREM CellInvariant == ZoneSpec => []CellInv
BY CellInit, CellStep, PTL DEF ZoneSpec

(* The next boot reads cells in the order in which they were claimed.      *)
THEOREM AlwaysReadInOrder == ZoneSpec => []ReadInOrder
BY CellInvariant, LogInOrder, PTL

(* The zone, with its three writers, its laps and its resets, implements   *)
(* the bounded log.                                                        *)
THEOREM ZoneImplementsLog == ZoneSpec => KeepsBoundedLog
BY LogInitial, CellInvariant, LogStepOfZone, AlwaysReadInOrder, PTL
DEF ZoneSpec, KeepsBoundedLog, Log!LogSpec

(* So what every diagnostic boot leaves in DRAM is such a log, and the     *)
(* next boot reads it in the order in which it was written.                *)
THEOREM BootImplementsLog == Spec => KeepsBoundedLog
BY BootImplementsZone, ZoneImplementsLog

------------------------------------------------------------------------------
(***************************************************************************)
(* The boot and its log.  While the zone is this boot's, its BEGIN and END *)
(* lines tell where the boot thread is: Inside, in an initcall that has    *)
(* not returned the ring holds its BEGIN line whole and no later one; and  *)
(* Begun, a BEGIN line the ring holds is being written, is of the initcall *)
(* entered last, which has no END line yet, or has a later line after it.  *)
(***************************************************************************)
IsCall(c) == \E F, O : c \in [f : F, off : O, returned : BOOLEAN]

PowerInv ==
  /\ live => power = "up"
  /\ power = "up" /\ recent # <<>> => live
  /\ recent = <<>> => entered = NoCall
  /\ live /\ Moving("boot") => recent # <<>>
  /\ IsList(recent) /\ IsCall(entered)

Ours == live \/ recent # <<>>

OthersAside == \A x \in {"console", "irq"} : Busy(x) => w[x].line.tag \notin InitTags

MarksProgram ==
  Busy("boot") => /\ boot.pc \in DOMAIN Program[boot.seg] /\ Op.op = "mark"
                  /\ w["boot"].line = Op.line /\ w["boot"].n = MarkCells

InitCell(s) == zone.data[s] # Stale /\ zone.data[s].line.tag \in InitTags

Inside ==
  ~entered.returned =>
    /\ entered.f \in InitcallNames /\ entered.off \in Nat
    /\ Whole(entered.off, MarkCells, BeginLine(entered.f))
    /\ \A s \in Slots : InitCell(s) => zone.data[s].off < entered.off + MarkCells
    /\ \/ boot.seg = "panic"
       \/ boot.pc \in DOMAIN Program[boot.seg] /\ Op = Run(entered.f)

NoneLater == Moving("boot") => \A s \in Slots : InitCell(s) => zone.data[s].off < Goal("boot")

BeginCell(s) ==
  zone.data[s] # Stale /\ zone.data[s].line.tag = "BEGIN" /\ zone.data[s].part = 1

Unended(f) == ~entered.returned \/ Op = Mark(EndLine(f))

Followed(b) ==
  \E e \in Nat : \E line : e > b /\ line.tag \in InitTags /\ Whole(e, MarkCells, line)

BegunAt(b, f) ==
  \/ Moving("boot") /\ w["boot"].off = b
  \/ entered.off = b /\ entered.f = f /\ Unended(f)
  \/ Followed(b)

Begun == \A s \in Slots : BeginCell(s) => BegunAt(zone.data[s].off, zone.data[s].line.of)

LogInv ==
  CellInv /\ BootPlaced /\ PowerInv
  /\ (Ours => OthersAside /\ MarksProgram /\ Inside /\ NoneLater /\ Begun)

------------------------------------------------------------------------------
(* What the program says of the place the boot thread is at.               *)
LEMMA PlaceEnded ==
  ASSUME BootPlaced
  PROVE  /\ boot.seg \in Segments /\ boot.pc \in Int
         /\ Ended(Program[boot.seg])
         /\ boot.seg = "panic" => Stops(Program[boot.seg])
BY ProgramEnded DEF BootPlaced

LEMMA NextPlace ==
  ASSUME BootPlaced
  PROVE  NextOp # boot /\ NextOp.seg = boot.seg /\ NextOp.pc = boot.pc + 1
<1>1. /\ boot.pc \in Int /\ NextOp.pc = boot.pc + 1 /\ NextOp.seg = boot.seg
  BY DEF BootPlaced, NextOp
<1>2. NextOp.pc # boot.pc
  BY <1>1
<1> QED BY <1>1, <1>2

(* In panic() the boot thread marks nothing of an initcall.                *)
LEMMA PanicMarks ==
  ASSUME BootPlaced, boot.seg = "panic", boot.pc \in DOMAIN Program[boot.seg]
  PROVE  /\ Op.op = "mark" => Op.line.tag \notin InitTags
         /\ Op.op \in {"mark", "goto"} /\ (Op.op = "goto" => Op.to = {})
<1>1. Op = Goto({}) \/ (Op.op = "mark" /\ Op.line.tag \notin InitTags)
  BY PlaceEnded DEF Stops, Op, OpAt
<1> QED BY <1>1 DEF Goto

(* Lines given whole stay whole whatever is written after them.            *)
LEMMA WholeStays ==
  ASSUME CellInv, NEW x \in Writers, WriterStep(x),
         NEW e \in Nat, NEW n \in Nat, NEW line, Whole(e, n, line)
  PROVE  Whole(e, n, line)'
<1>1. ZoneTypeOK /\ total \in Nat
  BY DEF CellInv, RingInv, ZoneTypeOK
<1>2. CASE \E l \in Lines, m \in 1 .. MaxLine : Announce(x, l, m)
  <2>1. PICK l \in Lines, m \in 1 .. MaxLine : Announce(x, l, m)
    BY <1>2
  <2>2. /\ w' = [w EXCEPT ![x] = Sized(l, m)] /\ total' = total /\ zone'.data = zone.data
    BY <1>1, <2>1 DEF Announce, SizeAdd, ZoneTypeOK
  <2>3. \A y \in Writers : Moving(y)' => Moving(y) /\ w'[y] = w[y]
    <3>1. Sized(l, m).st = "sized"
      BY DEF Sized
    <3>2. w'[x] = Sized(l, m) /\ \A y \in Writers \ {x} : w'[y] = w[y]
      BY <1>1, <2>2 DEF ZoneTypeOK
    <3> QED BY <3>1, <3>2 DEF Moving
  <2>4. Span(e, n, line)'
    BY <2>2, StillSpan DEF Whole
  <2> QED BY <2>2, <2>3, <2>4 DEF Whole, Goal
<1>3. CASE Claim(x)
  <2>1. PICK m \in 1 .. MaxLine :
           /\ total' = total + m /\ zone'.data = zone.data
           /\ Moving(x)' /\ w'[x].off = total /\ w'[x].n = m
           /\ \A y \in Writers \ {x} : w'[y] = w[y]
    BY <1>1, <1>3, ClaimEffect
  <2>2. m \in Nat
    BY LineAssumption, ZoneSizeAssumption
  <2>3. Span(e, n, line)'
    BY <2>1, StillSpan DEF Whole
  <2>4. e + n <= total' /\ e + n <= w'[x].off
    BY <1>1, <2>1, <2>2 DEF Whole
  <2>5. \A y \in Writers : Moving(y)' => Goal(y)' <= e \/ e + n <= w'[y].off
    BY <2>1, <2>4 DEF Whole, Goal, Moving
  <2> QED BY <2>3, <2>4, <2>5 DEF Whole
<1>4. CASE StoreCell(x)
  <2>1. /\ Moving(x) /\ total' = total /\ \A y \in Writers \ {x} : w'[y] = w[y]
        /\ Moving(x)' => w'[x].n = w[x].n /\ w'[x].off = w[x].off
    BY <1>1, <1>4, StoreWrites, StoreEffect
  <2>2. Number(x) \notin e .. e + n - 1
    <3>1. /\ Number(x) \in Nat /\ Goal(x) \in Nat /\ Number(x) < Goal(x)
          /\ w[x].off \in Nat /\ w[x].off <= Number(x)
      BY <1>1, <2>1, MovingFields DEF Number
    <3>2. Goal(x) <= e \/ e + n <= w[x].off
      BY <2>1 DEF Whole
    <3> QED BY <3>1, <3>2
  <2>3. Span(e, n, line)'
    BY <1>1, <1>4, <2>2, SpanKept DEF Whole
  <2>4. \A y \in Writers : Moving(y)' => Goal(y)' <= e \/ e + n <= w'[y].off
    BY <2>1 DEF Whole, Goal, Moving
  <2> QED BY <2>1, <2>3, <2>4 DEF Whole
<1> QED BY <1>2, <1>3, <1>4 DEF WriterStep

LEMMA StillWhole ==
  ASSUME UNCHANGED <<zone, w, total>>, NEW e, NEW n, NEW line, Whole(e, n, line)
  PROVE  Whole(e, n, line)'
BY DEF Whole, Span, Moving, Goal

(* A writer's step changes at most one cell, to the next of its line.      *)
LEMMA CellsAfter ==
  ASSUME ZoneTypeOK, NEW x \in Writers, WriterStep(x), NEW s \in Slots
  PROVE  \/ zone'.data[s] = zone.data[s]
         \/ /\ Moving(x) /\ StoreCell(x)
            /\ zone'.data[s] = Cell(Number(x), w[x].line, Number(x) - w[x].off + 1, w[x].n)
<1>1. CASE \E l \in Lines, m \in 1 .. MaxLine : Announce(x, l, m)
  BY <1>1 DEF Announce, SizeAdd, ZoneTypeOK
<1>2. CASE Claim(x)
  BY <1>2, ClaimEffect
<1>3. CASE StoreCell(x)
  BY <1>3, StoreWrites, StoreEffect
<1> QED BY <1>1, <1>2, <1>3 DEF WriterStep

(* What a writer's step makes of its own entry.                            *)
LEMMA EntryAfter ==
  ASSUME ZoneTypeOK, NEW x \in Writers, Claim(x) \/ StoreCell(x), Busy(x)'
  PROVE  Busy(x) /\ w'[x].line = w[x].line /\ w'[x].n = w[x].n
<1>1. CASE Claim(x)
  <2> DEFINE c == Copying(w[x].line, w[x].n, total, zone.start, 0)
  <2>1. w' = [w EXCEPT ![x] = c] /\ w[x].st = "sized"
    BY <1>1 DEF Claim
  <2>2. c.line = w[x].line /\ c.n = w[x].n
    BY DEF Copying
  <2> HIDE DEF c
  <2>3. w'[x] = c
    BY <2>1 DEF ZoneTypeOK
  <2> QED BY <2>1, <2>2, <2>3 DEF Busy
<1>2. CASE StoreCell(x)
  <2>1. Moving(x)
    BY <1>2 DEF StoreCell, Moving
  <2>2. Moving(x)'
    <3> DEFINE next == IF w[x].done + 1 = w[x].n THEN Idle
                       ELSE [w[x] EXCEPT !.done = @ + 1, !.pos = Advance(@, 1)]
    <3>1. w' = [w EXCEPT ![x] = next]
      BY <1>2 DEF StoreCell
    <3>2. w[x] \in Copyings
      BY <1>2, CopyingState DEF ZoneTypeOK, StoreCell
    <3>3. next.st \in {"idle", "copying"}
      BY <3>2 DEF Copyings, Idle
    <3> HIDE DEF next
    <3>4. w'[x] = next
      BY <3>1 DEF ZoneTypeOK
    <3> QED BY <3>3, <3>4 DEF Busy, Moving
  <2> QED BY <1>2, <2>1, <2>2, StoreWrites DEF Busy, Moving
<1> QED BY <1>1, <1>2

------------------------------------------------------------------------------
LEMMA OthersKeep ==
  ASSUME ZoneTypeOK, NEW x \in Writers, WriterStep(x)
  PROVE  /\ \A y \in Writers \ {x} : w'[y] = w[y]
         /\ live /\ live' = live
         /\ ~Claim(x) => total' = total
<1>1. CASE \E l \in Lines, m \in 1 .. MaxLine : Announce(x, l, m)
  BY <1>1 DEF Announce, ZoneTypeOK
<1>2. CASE Claim(x)
  BY <1>2, ClaimEffect DEF Claim
<1>3. CASE StoreCell(x)
  BY <1>3, StoreWrites DEF StoreCell
<1> QED BY <1>1, <1>2, <1>3 DEF WriterStep

LEMMA MarkCellsNat == MarkCells \in Nat /\ MarkCells > 0 /\ MarkCells \in 1 .. MaxLine
BY RecorderAssumption, LineAssumption, ZoneSizeAssumption

LEMMA FollowedStays ==
  ASSUME CellInv, NEW x \in Writers, WriterStep(x), NEW b, Followed(b)
  PROVE  Followed(b)'
<1>1. PICK e, line : e \in Nat /\ e > b /\ line.tag \in InitTags /\ Whole(e, MarkCells, line)
  BY DEF Followed
<1>2. Whole(e, MarkCells, line)'
  BY <1>1, MarkCellsNat, WholeStays
<1> QED BY <1>1, <1>2 DEF Followed

LEMMA EnteredStays ==
  ASSUME CellInv, NEW x \in Writers, WriterStep(x), entered' = entered, entered.off \in Nat,
         Whole(entered.off, MarkCells, BeginLine(entered.f))
  PROVE  Whole(entered.off, MarkCells, BeginLine(entered.f))'
<1>1. PICK e, f : e \in Nat /\ e = entered.off /\ f = entered.f
  OBVIOUS
<1>2. Whole(e, MarkCells, BeginLine(f))'
  BY <1>1, MarkCellsNat, WholeStays
<1> QED BY <1>1, <1>2 DEF Whole, Span

(* The console and the first IRQ write no line of an initcall.             *)
OtherWrites(x) ==
  \/ \E l \in Lines, m \in 1 .. MaxLine : l.tag \notin InitTags /\ Announce(x, l, m)
  \/ Claim(x)
  \/ StoreCell(x)

LEMMA OtherStep ==
  ASSUME LogInv, CellInv', BootPlaced', PowerInv', NEW x \in {"console", "irq"},
         OtherWrites(x), UNCHANGED <<boot, entered, recent>>
  PROVE  LogInv'
<1>1. /\ x \in Writers /\ "boot" \in Writers \ {x} /\ WriterStep(x)
      /\ CellInv /\ ZoneTypeOK
  BY DEF OtherWrites, WriterStep, Writers, LogInv, CellInv, RingInv
<1>2. /\ \A y \in Writers \ {x} : w'[y] = w[y]
      /\ live /\ live' = live
  BY <1>1, OthersKeep
<1>3. OthersAside /\ MarksProgram /\ Inside /\ NoneLater /\ Begun
  BY <1>2 DEF LogInv, Ours
<1>4. OthersAside'
  <2> SUFFICES ASSUME NEW y \in {"console", "irq"}, Busy(y)'
               PROVE  w'[y].line.tag \notin InitTags
    BY DEF OthersAside
  <2>1. CASE y # x
    BY <1>2, <1>3, <2>1 DEF OthersAside, Busy, Writers
  <2>2. CASE y = x /\ (Claim(x) \/ StoreCell(x))
    BY <1>1, <1>3, <2>2, EntryAfter DEF OthersAside
  <2>3. CASE y = x /\ \E l \in Lines, m \in 1 .. MaxLine : l.tag \notin InitTags /\ Announce(x, l, m)
    <3>1. PICK l \in Lines, m \in 1 .. MaxLine : l.tag \notin InitTags /\ Announce(x, l, m)
      BY <2>3
    <3>2. w'[x] = Sized(l, m)
      BY <1>1, <3>1 DEF Announce, ZoneTypeOK
    <3> QED BY <2>3, <3>1, <3>2 DEF Sized
  <2> QED BY <2>1, <2>2, <2>3 DEF OtherWrites
<1>5. /\ w'["boot"] = w["boot"] /\ Op' = Op /\ Busy("boot")' = Busy("boot")
      /\ Moving("boot")' = Moving("boot") /\ Goal("boot")' = Goal("boot")
  BY <1>1, <1>2 DEF Op, OpAt, Busy, Moving, Goal
<1>6. MarksProgram'
  BY <1>3, <1>5 DEF MarksProgram
(* A cell of an initcall's line is one that was there.                     *)
<1>7. ASSUME NEW s \in Slots, zone'.data[s] # zone.data[s]
      PROVE  zone'.data[s].line.tag \notin InitTags
  <2>1. Moving(x) /\ zone'.data[s] = Cell(Number(x), w[x].line, Number(x) - w[x].off + 1, w[x].n)
    BY <1>1, <1>7, CellsAfter
  <2>2. w[x].line.tag \notin InitTags
    BY <1>3, <2>1 DEF OthersAside, Moving, Busy
  <2> QED BY <2>1, <2>2 DEF Cell
<1>8. \A s \in Slots : InitCell(s)' => InitCell(s) /\ zone'.data[s] = zone.data[s]
  BY <1>7 DEF InitCell
<1>9. Inside'
  <2> SUFFICES ASSUME ~entered.returned PROVE Inside'
    BY DEF Inside
  <2>6. Whole(entered.off, MarkCells, BeginLine(entered.f))'
    BY <1>1, <1>3, EnteredStays DEF Inside
  <2>7. \A s \in Slots : InitCell(s)' => zone'.data[s].off < entered'.off + MarkCells
    BY <1>3, <1>8 DEF Inside
  <2> QED BY <1>3, <1>5, <2>6, <2>7 DEF Inside
<1>10. NoneLater'
  BY <1>3, <1>5, <1>8 DEF NoneLater
<1>11. Begun'
  <2> SUFFICES ASSUME NEW s \in Slots, BeginCell(s)'
               PROVE  BegunAt(zone.data[s].off, zone.data[s].line.of)'
    BY DEF Begun
  <2>1. zone'.data[s] = zone.data[s] /\ BeginCell(s)
    BY <1>7 DEF BeginCell, InitTags
  <2> PICK b, f : b = zone.data[s].off /\ f = zone.data[s].line.of
    OBVIOUS
  <2>2. BegunAt(b, f)
    BY <1>3, <2>1 DEF Begun
  <2>3. Followed(b) => Followed(b)'
    BY <1>1, FollowedStays
  <2>4. BegunAt(b, f)'
    BY <1>5, <2>2, <2>3 DEF BegunAt, Unended
  <2> QED BY <2>1, <2>4 DEF BegunAt, Unended, Followed
<1> QED BY <1>4, <1>6, <1>9, <1>10, <1>11 DEF LogInv

------------------------------------------------------------------------------
(* The boot thread announces and claims a breadcrumb.                      *)
LEMMA MarkBeginsLog ==
  ASSUME LogInv, CellInv', BootPlaced', PowerInv', MarkBegins
  PROVE  LogInv'
<1>1. /\ Ready("mark") /\ Announce("boot", Op.line, MarkCells) /\ UNCHANGED bootVars
      /\ CellInv /\ ZoneTypeOK /\ "boot" \in Writers
  BY DEF MarkBegins, LogInv, CellInv, RingInv, Writers
<1>2. Op.line \in Lines
  BY <1>1, OpLine DEF LogInv
<1>3. WriterStep("boot") /\ live
  BY <1>1, <1>2, MarkCellsNat DEF WriterStep, Announce
<1>4. OthersAside /\ MarksProgram /\ Inside /\ NoneLater /\ Begun
  BY <1>3 DEF LogInv, Ours
<1>5. /\ w'["boot"] = Sized(Op.line, MarkCells) /\ ~Busy("boot")
      /\ \A y \in Writers \ {"boot"} : w'[y] = w[y]
      /\ zone'.data = zone.data
  BY <1>1 DEF Announce, SizeAdd, ZoneTypeOK
<1>6. /\ boot' = boot /\ entered' = entered /\ Op' = Op
      /\ ~Moving("boot") /\ ~Moving("boot")' /\ w'["boot"].line = Op.line
      /\ w'["boot"].n = MarkCells
  BY <1>1, <1>5 DEF bootVars, Op, OpAt, Moving, Busy, Sized
<1>7. OthersAside'
  BY <1>4, <1>5 DEF OthersAside, Busy, Writers
<1>8. MarksProgram'
  BY <1>1, <1>6 DEF MarksProgram, Ready
<1>9. Inside'
  BY <1>1, <1>3, <1>4, <1>5, <1>6, EnteredStays DEF Inside, InitCell
<1>10. NoneLater'
  BY <1>6 DEF NoneLater
<1>11. Begun'
  <2> SUFFICES ASSUME NEW s \in Slots, BeginCell(s)'
               PROVE  BegunAt(zone.data[s].off, zone.data[s].line.of)'
    BY DEF Begun
  <2> PICK b, f : b = zone.data[s].off /\ f = zone.data[s].line.of
    OBVIOUS
  <2>1. BegunAt(b, f)
    BY <1>4, <1>5 DEF Begun, BeginCell
  <2>2. Followed(b) => Followed(b)'
    BY <1>1, <1>3, FollowedStays
  <2>3. BegunAt(b, f)'
    BY <1>6, <2>1, <2>2 DEF BegunAt, Unended
  <2> QED BY <1>5, <2>3 DEF BegunAt, Unended, Followed
<1> QED BY <1>7, <1>8, <1>9, <1>10, <1>11 DEF LogInv

LEMMA MarkClaimsLog ==
  ASSUME LogInv, CellInv', BootPlaced', PowerInv', MarkClaims
  PROVE  LogInv'
<1>1. /\ Claim("boot") /\ boot' = boot /\ entered' = entered
      /\ CellInv /\ ZoneTypeOK /\ "boot" \in Writers /\ WriterStep("boot") /\ live
  BY DEF MarkClaims, LogInv, CellInv, RingInv, Writers, WriterStep, Claim
<1>2. OthersAside /\ MarksProgram /\ Inside /\ NoneLater /\ Begun
  BY <1>1 DEF LogInv, Ours
<1>3. PICK n \in 1 .. MaxLine :
           /\ total \in Nat
           /\ zone'.data = zone.data /\ ~Moving("boot")
           /\ Moving("boot")' /\ w'["boot"].off = total /\ w'["boot"].n = n
           /\ \A y \in Writers \ {"boot"} : w'[y] = w[y]
  BY <1>1, ClaimEffect
<1>4. Op' = Op
  BY <1>1 DEF Op, OpAt
<1>5. OthersAside'
  BY <1>2, <1>3 DEF OthersAside, Busy, Writers
<1>6. MarksProgram'
  BY <1>1, <1>2, <1>4, EntryAfter DEF MarksProgram
<1>7. Inside'
  BY <1>1, <1>2, <1>3, <1>4, EnteredStays DEF Inside, InitCell
<1>8. NoneLater'
  <2> SUFFICES ASSUME NEW s \in Slots, zone.data[s] # Stale
               PROVE  zone.data[s].off < w'["boot"].off + w'["boot"].n
    BY <1>3 DEF NoneLater, InitCell, Goal
  <2>1. zone.data[s].off < total /\ zone.data[s].off \in Nat
    BY <1>1, CellOff DEF CellInv, Filled
  <2>2. n \in Nat
    BY LineAssumption, ZoneSizeAssumption
  <2> QED BY <1>3, <2>1, <2>2
<1>9. Begun'
  <2> SUFFICES ASSUME NEW s \in Slots, BeginCell(s)'
               PROVE  BegunAt(zone.data[s].off, zone.data[s].line.of)'
    BY DEF Begun
  <2> PICK b, f : b = zone.data[s].off /\ f = zone.data[s].line.of
    OBVIOUS
  <2>1. BegunAt(b, f)
    BY <1>2, <1>3 DEF Begun, BeginCell
  <2>2. Followed(b) => Followed(b)'
    BY <1>1, FollowedStays
  <2>3. BegunAt(b, f)'
    BY <1>1, <1>3, <1>4, <2>1, <2>2 DEF BegunAt, Unended
  <2> QED BY <1>3, <2>3 DEF BegunAt, Unended, Followed
<1> QED BY <1>5, <1>6, <1>7, <1>8, <1>9 DEF LogInv

------------------------------------------------------------------------------
(* It stores a cell of it: what holds of the cells whether or not that is  *)
(* the last one.                                                           *)
LEMMA BootStores ==
  ASSUME LogInv, CellInv', MarkStores
  PROVE  /\ CellInv /\ ZoneTypeOK /\ "boot" \in Writers /\ WriterStep("boot") /\ StoreCell("boot")
         /\ Moving("boot") /\ Busy("boot")
         /\ OthersAside' /\ MarksProgram /\ Inside /\ NoneLater /\ Begun
         /\ boot.pc \in DOMAIN Program[boot.seg] /\ Op.op = "mark"
         /\ w["boot"].line = Op.line /\ w["boot"].n = MarkCells
         /\ w["boot"].off \in Nat /\ Goal("boot") = w["boot"].off + MarkCells
         /\ Goal("boot") <= total /\ total' = total
         /\ \A s \in Slots :
              \/ zone'.data[s] = zone.data[s]
              \/ \E k \in Nat :
                   /\ w["boot"].off <= k /\ k < Goal("boot")
                   /\ zone'.data[s] = Cell(k, Op.line, k - w["boot"].off + 1, MarkCells)
         /\ \A s \in Slots : InitCell(s)' => zone'.data[s].off < Goal("boot")
         /\ ~entered.returned => boot.seg = "panic" /\ Op.line.tag \notin InitTags
<1>1. /\ CellInv /\ ZoneTypeOK /\ "boot" \in Writers /\ WriterStep("boot") /\ StoreCell("boot")
      /\ Moving("boot") /\ Busy("boot") /\ live
  BY DEF MarkStores, LogInv, CellInv, RingInv, Writers, WriterStep, StoreCell, Moving, Busy
<1>2. OthersAside /\ MarksProgram /\ Inside /\ NoneLater /\ Begun
  BY <1>1 DEF LogInv, Ours
<1>3. OthersAside'
  <2>1. \A y \in Writers \ {"boot"} : w'[y] = w[y]
    BY <1>1, OthersKeep
  <2> QED BY <1>2, <2>1 DEF OthersAside, Busy, Writers
<1>4. /\ boot.pc \in DOMAIN Program[boot.seg] /\ Op.op = "mark"
      /\ w["boot"].line = Op.line /\ w["boot"].n = MarkCells
  BY <1>1, <1>2 DEF MarksProgram
<1>5. /\ w["boot"].off \in Nat /\ Goal("boot") = w["boot"].off + MarkCells
      /\ Number("boot") \in Nat /\ Number("boot") < Goal("boot") /\ w["boot"].off <= Number("boot")
      /\ Goal("boot") <= total /\ total' = total
  BY <1>1, <1>4, MovingFields, StoreWrites DEF Goal, Number, CellInv, RingInv, Placed
<1>6. ASSUME NEW s \in Slots
      PROVE  \/ zone'.data[s] = zone.data[s]
             \/ \E k \in Nat :
                  /\ w["boot"].off <= k /\ k < Goal("boot")
                  /\ zone'.data[s] = Cell(k, Op.line, k - w["boot"].off + 1, MarkCells)
  BY <1>1, <1>4, <1>5, CellsAfter
<1>7. ASSUME NEW s \in Slots, InitCell(s)' PROVE zone'.data[s].off < Goal("boot")
  <2>1. CASE zone'.data[s] = zone.data[s]
    BY <1>1, <1>2, <1>7, <2>1 DEF NoneLater, InitCell
  <2>2. CASE zone'.data[s] # zone.data[s]
    <3>1. PICK k \in Nat : k < Goal("boot")
              /\ zone'.data[s] = Cell(k, Op.line, k - w["boot"].off + 1, MarkCells)
      BY <1>6, <2>2
    <3> QED BY <3>1 DEF Cell
  <2> QED BY <2>1, <2>2
<1>8. ~entered.returned => boot.seg = "panic" /\ Op.line.tag \notin InitTags
  <2>1. Op # Run(entered.f)
    BY <1>4 DEF Run
  <2> QED BY <1>2, <1>4, <2>1, PanicMarks DEF Inside, LogInv
<1> QED BY <1>1, <1>2, <1>3, <1>4, <1>5, <1>6, <1>7, <1>8

LEMMA MarkMiddleLog ==
  ASSUME LogInv, CellInv', BootPlaced', PowerInv', MarkStores, w'["boot"] # Idle
  PROVE  LogInv'
<1>1. /\ CellInv /\ ZoneTypeOK /\ "boot" \in Writers /\ WriterStep("boot") /\ StoreCell("boot")
      /\ Moving("boot") /\ Busy("boot")
      /\ OthersAside' /\ MarksProgram /\ Inside /\ NoneLater /\ Begun
      /\ w["boot"].off \in Nat
      /\ \A s \in Slots :
              \/ zone'.data[s] = zone.data[s]
              \/ \E k \in Nat :
                   /\ w["boot"].off <= k /\ k < Goal("boot")
                   /\ zone'.data[s] = Cell(k, Op.line, k - w["boot"].off + 1, MarkCells)
      /\ \A s \in Slots : InitCell(s)' => zone'.data[s].off < Goal("boot")
      /\ ~entered.returned => boot.seg = "panic" /\ Op.line.tag \notin InitTags
  BY BootStores
<1>2. boot' = boot /\ entered' = entered /\ Op' = Op
  BY DEF MarkStores, Op, OpAt
<1>3. /\ Moving("boot")' /\ w'["boot"].off = w["boot"].off /\ Goal("boot")' = Goal("boot")
  <2>1. Busy("boot")'
    <3>1. w'["boot"] \in WriterStates
      BY <1>1 DEF CellInv, RingInv, ZoneTypeOK
    <3> QED BY <3>1 DEF WriterStates, Busy
  <2>2. w'["boot"].st # "sized"
    <3> DEFINE c == w["boot"]
               next == IF c.done + 1 = c.n THEN Idle
                       ELSE [c EXCEPT !.done = @ + 1, !.pos = Advance(@, 1)]
    <3>1. c \in Copyings /\ w' = [w EXCEPT !["boot"] = next]
      BY <1>1, CopyingState DEF ZoneTypeOK, StoreCell
    <3>2. next.st # "sized"
      BY <3>1 DEF Copyings, Idle
    <3> HIDE DEF next, c
    <3> QED BY <1>1, <3>1, <3>2 DEF ZoneTypeOK
  <2>3. Moving("boot")'
    <3>1. w'["boot"] \in WriterStates
      BY <1>1 DEF CellInv, RingInv, ZoneTypeOK
    <3> QED BY <2>1, <2>2, <3>1 DEF WriterStates, Busy, Moving
  <2> QED BY <1>1, <2>3, StoreWrites DEF Goal
<1>4. MarksProgram'
  BY <1>1, <1>2, EntryAfter DEF MarksProgram
<1>5. NoneLater'
  BY <1>1, <1>3 DEF NoneLater
<1>6. Inside'
  <2> SUFFICES ASSUME ~entered.returned PROVE Inside'
    BY <1>2 DEF Inside
  <2>1. Whole(entered.off, MarkCells, BeginLine(entered.f))'
    BY <1>1, <1>2, EnteredStays DEF Inside
  <2>2. ASSUME NEW s \in Slots, InitCell(s)' PROVE zone'.data[s].off < entered.off + MarkCells
    <3>1. ASSUME zone'.data[s] # zone.data[s] PROVE FALSE
      <4>1. PICK k \in Nat : zone'.data[s] = Cell(k, Op.line, k - w["boot"].off + 1, MarkCells)
        BY <1>1, <3>1
      <4>2. zone'.data[s].line = Op.line
        BY <4>1 DEF Cell
      <4> QED BY <1>1, <2>2, <4>2 DEF InitCell
    <3> QED BY <1>1, <2>2, <3>1 DEF Inside, InitCell
  <2> QED BY <1>1, <1>2, <2>1, <2>2 DEF Inside
<1>7. Begun'
  <2> SUFFICES ASSUME NEW s \in Slots, BeginCell(s)'
               PROVE  BegunAt(zone.data[s].off, zone.data[s].line.of)'
    BY DEF Begun
  <2> PICK b, f : b = zone'.data[s].off /\ f = zone'.data[s].line.of
    OBVIOUS
  <2>1. CASE zone'.data[s] = zone.data[s]
    <3>1. BegunAt(b, f)
      BY <1>1, <2>1 DEF Begun, BeginCell
    <3>2. Followed(b) => Followed(b)'
      BY <1>1, FollowedStays
    <3>3. BegunAt(b, f)'
      BY <1>2, <1>3, <3>1, <3>2 DEF BegunAt, Unended
    <3> QED BY <3>3 DEF BegunAt, Unended, Followed
  <2>2. CASE zone'.data[s] # zone.data[s]
    <3>1. PICK k \in Nat : zone'.data[s] = Cell(k, Op.line, k - w["boot"].off + 1, MarkCells)
      BY <1>1, <2>2
    <3>2. k - w["boot"].off + 1 = 1 /\ b = k
      BY <3>1 DEF BeginCell, Cell
    <3>3. b = w'["boot"].off
      BY <1>1, <1>3, <3>2
    <3> QED BY <1>3, <3>3 DEF BegunAt
  <2> QED BY <2>1, <2>2
<1> QED BY <1>1, <1>4, <1>5, <1>6, <1>7 DEF LogInv

------------------------------------------------------------------------------
(* With the last cell the line is whole, and no cell of an initcall's line *)
(* is after it.                                                            *)
LEMMA LastStoreWhole ==
  ASSUME LogInv, CellInv', MarkStores, w'["boot"] = Idle
  PROVE  \E e, line :
           /\ e \in Nat
           /\ e = w["boot"].off /\ line = Op.line
           /\ Whole(e, MarkCells, line)'
           /\ \A s \in Slots : InitCell(s)' => zone'.data[s].off < e + MarkCells
           /\ \A s \in Slots : BeginCell(s)' =>
                \/ zone'.data[s].off < e
                \/ zone'.data[s].off = e /\ zone'.data[s].line = line
<1>1. /\ CellInv /\ ZoneTypeOK /\ "boot" \in Writers /\ StoreCell("boot")
      /\ Moving("boot") /\ WriterStep("boot")
      /\ w["boot"].line = Op.line /\ w["boot"].n = MarkCells
      /\ w["boot"].off \in Nat /\ Goal("boot") = w["boot"].off + MarkCells
      /\ Goal("boot") <= total /\ total' = total
      /\ \A s \in Slots : InitCell(s)' => zone'.data[s].off < Goal("boot")
  BY BootStores
<1> PICK e, line : e \in Nat /\ e = w["boot"].off /\ line = Op.line
  BY <1>1
<1>2. Span(e, MarkCells, line)
  BY <1>1 DEF CellInv, OwnCells
<1>3. Span(e, MarkCells, line)'
  BY <1>1, <1>2, MarkCellsNat, SpanKept
<1>4. ASSUME NEW y \in Writers, Moving(y)' PROVE Goal(y)' <= e \/ e + MarkCells <= w'[y].off
  <2>1. y # "boot"
    BY <1>4 DEF Moving, Idle
  <2>2. w'[y] = w[y] /\ Moving(y)
    BY <1>1, <1>4, <2>1, OthersKeep DEF Moving
  <2>3. Goal(y) <= w["boot"].off \/ Goal("boot") <= w[y].off
    BY <1>1, <2>1, <2>2 DEF CellInv, RingInv, Apart
  <2> QED BY <1>1, <2>2, <2>3 DEF Goal
<1>5. Whole(e, MarkCells, line)'
  BY <1>1, <1>3, <1>4 DEF Whole
<1>6. ASSUME NEW s \in Slots, BeginCell(s)'
      PROVE  zone'.data[s].off < e \/ (zone'.data[s].off = e /\ zone'.data[s].line = line)
  <2> PICK b : b = zone'.data[s].off
    OBVIOUS
  <2>1. b \in Nat /\ zone'.data[s] # Stale /\ zone'.data[s].part = 1
    <3>1. zone'.data[s] # Stale
      BY <1>6 DEF BeginCell
    <3>2. zone'.data[s] \in Cells
      BY <3>1 DEF CellInv, RingInv, ZoneTypeOK
    <3> QED BY <1>6, <3>1, <3>2 DEF BeginCell, Cells
  <2>2. b < e + MarkCells
    BY <1>1, <1>6 DEF InitCell, BeginCell, InitTags
  <2>3. CASE b >= e
    <3>1. b \in e .. e + MarkCells - 1
      BY <2>1, <2>2, <2>3, MarkCellsNat
    <3>2. zone'.data[s] = Cell(b, line, b - e + 1, MarkCells)
      BY <1>3, <2>1, <3>1 DEF Span
    <3>3. b - e + 1 = 1 /\ zone'.data[s].line = line
      BY <2>1, <3>2 DEF Cell
    <3> QED BY <2>1, <3>3
  <2> QED BY <2>1, <2>3
<1> QED BY <1>1, <1>5, <1>6

(* What is at the place the boot thread goes on to: an initcall exactly    *)
(* when the line was its BEGIN line.                                       *)
LEMMA AfterMark ==
  ASSUME BootPlaced, boot.pc \in DOMAIN Program[boot.seg], Op.op = "mark", boot' = NextOp
  PROVE  /\ boot'.seg = boot.seg /\ boot'.pc \in DOMAIN Program[boot'.seg] /\ boot' # boot
         /\ IF Op.line.tag = "BEGIN"
            THEN \E f \in InitcallNames : Op.line = BeginLine(f) /\ OpAt(boot') = Run(f)
            ELSE OpAt(boot') \notin InitcallRuns
<1> DEFINE s == Program[boot.seg]
<1>1. boot'.seg = boot.seg /\ boot'.pc = boot.pc + 1 /\ boot' # boot /\ boot.pc \in Int
  BY NextPlace DEF BootPlaced
<1>2. Ended(s) /\ Op = s[boot.pc] /\ OpAt(boot') = s[boot.pc + 1]
  BY <1>1, PlaceEnded DEF Op, OpAt
<1> HIDE DEF s
<1>3. boot.pc \in DOMAIN s
  BY DEF s
<1>4. boot.pc + 1 \in DOMAIN s
  BY <1>2, <1>3 DEF Ended
<1>5. CASE Op.line.tag = "BEGIN"
  <2>1. PICK f \in InitcallNames : s[boot.pc] = Mark(BeginLine(f)) /\ s[boot.pc + 1] = Run(f)
    BY <1>2, <1>3, <1>5 DEF Ended, WellMarked, BeginsWell
  <2>2. Op.line = BeginLine(f)
    BY <1>2, <2>1 DEF Mark
  <2> QED BY <1>1, <1>2, <1>4, <1>5, <2>1, <2>2 DEF s
<1>6. CASE Op.line.tag # "BEGIN"
  <2>1. ASSUME NEW f \in InitcallNames, s[boot.pc + 1] = Run(f) PROVE FALSE
    <3>1. s[(boot.pc + 1) - 1] = Mark(BeginLine(f))
      BY <1>2, <1>4, <2>1 DEF Ended, WellMarked, RunsWell
    <3>2. s[boot.pc] = Mark(BeginLine(f))
      BY <1>1, <3>1
    <3> QED BY <1>2, <1>6, <3>2 DEF Mark, BeginLine, Line
  <2> QED BY <1>1, <1>2, <1>4, <1>6, <2>1 DEF s, InitcallRuns
<1> QED BY <1>5, <1>6

LEMMA MarkEndsLog ==
  ASSUME LogInv, CellInv', BootPlaced', PowerInv', MarkStores, w'["boot"] = Idle
  PROVE  LogInv'
<1>1. /\ CellInv /\ ZoneTypeOK /\ "boot" \in Writers /\ WriterStep("boot")
      /\ OthersAside' /\ Inside /\ Begun
      /\ boot.pc \in DOMAIN Program[boot.seg] /\ Op.op = "mark"
      /\ \A s \in Slots :
           \/ zone'.data[s] = zone.data[s]
           \/ \E k \in Nat : zone'.data[s] = Cell(k, Op.line, k - w["boot"].off + 1, MarkCells)
      /\ ~entered.returned => boot.seg = "panic" /\ Op.line.tag \notin InitTags
  BY BootStores
<1>2. PICK e, line :
           /\ e \in Nat
           /\ e = w["boot"].off /\ line = Op.line
           /\ Whole(e, MarkCells, line)'
           /\ \A s \in Slots : InitCell(s)' => zone'.data[s].off < e + MarkCells
           /\ \A s \in Slots : BeginCell(s)' =>
                \/ zone'.data[s].off < e
                \/ zone'.data[s].off = e /\ zone'.data[s].line = line
  BY LastStoreWhole
<1>3. boot' = NextOp
  BY DEF MarkStores
<1>4. /\ boot'.seg = boot.seg /\ boot'.pc \in DOMAIN Program[boot'.seg] /\ boot' # boot
      /\ IF line.tag = "BEGIN"
         THEN \E f \in InitcallNames : line = BeginLine(f) /\ OpAt(boot') = Run(f)
         ELSE OpAt(boot') \notin InitcallRuns
  BY <1>1, <1>2, <1>3, AfterMark DEF LogInv
<1>5. entered' = IF OpAt(boot') \in InitcallRuns THEN Entered(OpAt(boot').f, e) ELSE entered
  BY <1>2, <1>4 DEF MarkStores
<1>6. /\ ~Moving("boot")' /\ ~Busy("boot")'
  BY DEF Moving, Busy, Idle
<1>7. MarksProgram' /\ NoneLater'
  BY <1>6 DEF MarksProgram, NoneLater
<1>8. CASE line.tag = "BEGIN"
  <2>1. PICK f \in InitcallNames : line = BeginLine(f) /\ OpAt(boot') = Run(f)
    BY <1>4, <1>8
  <2>2. entered' = Entered(f, e)
    BY <1>5, <2>1 DEF InitcallRuns, Run
  <2>3. entered'.f = f /\ entered'.off = e /\ ~entered'.returned /\ Op' = Run(f)
    BY <2>1, <2>2 DEF Entered, Op, OpAt
  <2>4. Inside'
    <3>1. Whole(entered.off, MarkCells, BeginLine(entered.f))'
      BY <1>2, <2>1, <2>3 DEF Whole, Span
    <3> QED BY <1>2, <1>4, <2>3, <3>1 DEF Inside
  <2>5. Begun'
    <3> SUFFICES ASSUME NEW s \in Slots, BeginCell(s)'
                 PROVE  BegunAt(zone.data[s].off, zone.data[s].line.of)'
      BY DEF Begun
    <3>1. CASE zone'.data[s].off < e
      <4>1. e > zone'.data[s].off /\ line.tag \in InitTags
        BY <1>8, <3>1 DEF InitTags
      <4> QED BY <1>2, <4>1 DEF BegunAt, Followed
    <3>2. CASE zone'.data[s].off = e /\ zone'.data[s].line = line
      <4>1. zone'.data[s].line.of = f
        BY <2>1, <3>2 DEF BeginLine, Line
      <4> QED BY <2>3, <3>2, <4>1 DEF BegunAt, Unended
    <3> QED BY <1>2, <3>1, <3>2
  <2> QED BY <1>1, <1>7, <2>4, <2>5 DEF LogInv
<1>9. CASE line.tag # "BEGIN"
  <2>1. entered' = entered
    BY <1>4, <1>5, <1>9
  <2>2. Inside'
    <3> SUFFICES ASSUME ~entered.returned PROVE Inside'
      BY <2>1 DEF Inside
    <3>1. Whole(entered.off, MarkCells, BeginLine(entered.f))'
      BY <1>1, <2>1, EnteredStays DEF Inside
    <3>2. ASSUME NEW s \in Slots, InitCell(s)' PROVE zone'.data[s].off < entered.off + MarkCells
      <4>1. zone'.data[s] = zone.data[s]
        <5> SUFFICES ASSUME zone'.data[s] # zone.data[s] PROVE FALSE
          OBVIOUS
        <5>1. PICK k \in Nat : zone'.data[s] = Cell(k, Op.line, k - w["boot"].off + 1, MarkCells)
          BY <1>1
        <5>2. zone'.data[s].line = Op.line
          BY <5>1 DEF Cell
        <5> QED BY <1>1, <3>2, <5>2 DEF InitCell
      <4> QED BY <1>1, <3>2, <4>1 DEF Inside, InitCell
    <3> QED BY <1>1, <1>4, <2>1, <3>1, <3>2 DEF Inside
  <2>3. Begun'
    <3> SUFFICES ASSUME NEW s \in Slots, BeginCell(s)'
                 PROVE  BegunAt(zone.data[s].off, zone.data[s].line.of)'
      BY DEF Begun
    <3> PICK b, f : b = zone'.data[s].off /\ f = zone'.data[s].line.of
      OBVIOUS
    <3>1. b < e
      BY <1>2, <1>9 DEF BeginCell
    <3>2. CASE line.tag \in InitTags
      BY <1>2, <3>1, <3>2 DEF BegunAt, Followed
    <3>3. CASE line.tag \notin InitTags
      <4>1. zone'.data[s] = zone.data[s]
        <5> SUFFICES ASSUME zone'.data[s] # zone.data[s] PROVE FALSE
          OBVIOUS
        <5>1. PICK k \in Nat : zone'.data[s] = Cell(k, Op.line, k - w["boot"].off + 1, MarkCells)
          BY <1>1
        <5>2. zone'.data[s].line = line
          BY <1>2, <5>1 DEF Cell
        <5> QED BY <1>9, <5>2 DEF BeginCell
      <4>2. BegunAt(b, f)
        BY <1>1, <4>1 DEF Begun, BeginCell
      <4>3. ~(Moving("boot") /\ w["boot"].off = b)
        <5>1. b \in Nat
          <6>1. zone'.data[s] # Stale /\ zone'.data[s] \in Cells \cup {Stale}
            BY DEF BeginCell, CellInv, RingInv, ZoneTypeOK
          <6> QED BY <6>1 DEF Cells
        <5> QED BY <1>2, <3>1, <5>1
      <4>4. Followed(b) => Followed(b)'
        BY <1>1, FollowedStays
      <4>5. Op # Mark(EndLine(f))
        BY <1>2, <3>3 DEF Mark, EndLine, Line, InitTags
      <4>6. BegunAt(b, f)'
        BY <2>1, <4>2, <4>3, <4>4, <4>5 DEF BegunAt, Unended
      <4> QED BY <4>6 DEF BegunAt, Unended, Followed
    <3> QED BY <3>2, <3>3 DEF BegunAt
  <2> QED BY <1>1, <1>7, <2>2, <2>3 DEF LogInv
<1> QED BY <1>8, <1>9

------------------------------------------------------------------------------
(* The zone is live while the kernel that made it is up, and once the boot *)
(* thread has claimed a line until the reset.                              *)
LEMMA ZapIdle ==
  ASSUME Zap
  PROVE  live' /\ ~live /\ ~Moving("boot")'
BY DEF Zap, Moving, Idle, Writers

LEMMA ClaimedRecent ==
  ASSUME IsList(recent), MarkClaims
  PROVE  IsList(recent') /\ recent' # <<>>
<1> DEFINE last == [line |-> w["boot"].line, off |-> total]
           r    == Append(recent, last)
<1>1. recent' = IF Len(r) > 3 THEN Tail(r) ELSE r
  BY DEF MarkClaims
<1>2. PICK S : recent \in Seq(S)
  BY DEF IsList
<1> HIDE DEF last
<1> DEFINE U == S \cup {last}
<1>3. recent \in Seq(U) /\ last \in U
  BY <1>2
<1> HIDE DEF U
<1>4. r \in Seq(U) /\ r # <<>>
  BY <1>3, AppendProperties
<1> HIDE DEF r
<1>5. Tail(r) \in Seq(U) /\ Len(Tail(r)) = Len(r) - 1 /\ Len(r) \in Nat
  BY <1>4, HeadTailProperties
<1>6. Tail(r) = <<>> => Len(Tail(r)) = 0
  BY EmptySeq, Zenon
<1>7. Len(r) > 3 => Tail(r) # <<>>
  BY <1>5, <1>6
<1> QED BY <1>1, <1>4, <1>5, <1>7 DEF IsList

LEMMA CallForms ==
  /\ IsCall(NoCall)
  /\ \A f, off : IsCall(Entered(f, off))
  /\ \A c : IsCall(c) => LET d == [c EXCEPT !.returned = TRUE]
                         IN  IsCall(d) /\ d.returned /\ d.f = c.f /\ d.off = c.off
<1>1. NoCall \in [f : {"none"}, off : {0}, returned : BOOLEAN]
  BY DEF NoCall
<1>2. ASSUME NEW f, NEW off PROVE IsCall(Entered(f, off))
  <2>1. Entered(f, off) \in [f : {f}, off : {off}, returned : BOOLEAN]
    BY DEF Entered
  <2> QED BY <2>1 DEF IsCall
<1>3. ASSUME NEW c, IsCall(c)
      PROVE  LET d == [c EXCEPT !.returned = TRUE]
             IN  IsCall(d) /\ d.returned /\ d.f = c.f /\ d.off = c.off
  <2> DEFINE d == [c EXCEPT !.returned = TRUE]
  <2>1. PICK F, O : c \in [f : F, off : O, returned : BOOLEAN]
    BY <1>3 DEF IsCall
  <2>2. d \in [f : F, off : O, returned : BOOLEAN] /\ d.returned /\ d.f = c.f /\ d.off = c.off
    BY <2>1
  <2> HIDE DEF d
  <2>3. IsCall(d) /\ d.returned /\ d.f = c.f /\ d.off = c.off
    BY <2>2 DEF IsCall
  <2> QED BY <2>3 DEF d
<1> QED BY <1>1, <1>2, <1>3 DEF IsCall

LEMMA PowerStep ==
  ASSUME CellInv, PowerInv, [Next]_vars
  PROVE  PowerInv'
<1>0. ZoneTypeOK
  BY DEF CellInv, RingInv
<1>1. CASE CreateZone
  BY <1>1, ZapIdle DEF CreateZone, PowerInv, Ready, Running
<1>2. CASE MarkBegins
  <2>1. ~Moving("boot")'
    BY <1>0, <1>2 DEF MarkBegins, Announce, Sized, ZoneTypeOK, Moving, Writers
  <2> QED BY <1>2, <2>1 DEF MarkBegins, Announce, bootVars, PowerInv
<1>3. CASE MarkClaims
  <2>1. live /\ live' /\ power' = power /\ entered' = entered
    BY <1>3 DEF MarkClaims, Claim
  <2>2. IsList(recent') /\ recent' # <<>>
    BY <1>3, ClaimedRecent DEF PowerInv
  <2> QED BY <2>1, <2>2 DEF PowerInv
<1>4. CASE MarkStores
  <2>1. /\ live /\ live' /\ power' = power /\ recent' = recent /\ Moving("boot")
    BY <1>4 DEF MarkStores, StoreCell, Moving
  <2>2. IsCall(entered')
    <3>1. entered' = entered \/ \E f, off : entered' = Entered(f, off)
      BY <1>4 DEF MarkStores
    <3> QED BY <3>1, CallForms DEF PowerInv
  <2> QED BY <2>1, <2>2 DEF PowerInv
<1>5. CASE \/ CreateFails \/ RegisterConsole \/ MarkDropped \/ StatementPanics \/ TakeBranch
  BY <1>5 DEF CreateFails, RegisterConsole, MarkDropped, StatementPanics, TakeBranch,
              zoneVars, PowerInv, Moving
<1>6. CASE StatementReturns
  <2>1. entered = NoCall => entered' = NoCall
    <3>1. ASSUME NEW n, n = NoCall PROVE [n EXCEPT !.returned = TRUE] = n
      <4> DEFINE R == [f : {"none"}, off : {0}, returned : {TRUE}]
      <4>1. n \in R
        BY <3>1 DEF NoCall
      <4>2. [n EXCEPT !.returned = TRUE] \in R
        BY <4>1
      <4>3. ASSUME NEW a \in [f : {"none"}, off : {0}, returned : {TRUE}]
            PROVE  a = [f |-> "none", off |-> 0, returned |-> TRUE]
        OBVIOUS
      <4> HIDE DEF R
      <4> QED BY <3>1, <4>2, <4>3 DEF R, NoCall
    <3> QED BY <3>1, <1>6 DEF StatementReturns
  <2>2. IsCall(entered')
    BY <1>6, CallForms DEF StatementReturns, PowerInv
  <2> QED BY <1>6, <2>1, <2>2 DEF StatementReturns, zoneVars, PowerInv, Moving
<1>7. CASE ConsoleBegins \/ ConsoleWrites \/ FirstIrq \/ IrqWrites
  <2>1. UNCHANGED <<power, recent, entered>>
    BY <1>7 DEF ConsoleBegins, ConsoleWrites, FirstIrq, IrqWrites, bootVars
  <2>2. live' = live /\ w'["boot"] = w["boot"]
    <3>1. ASSUME NEW x \in {"console", "irq"}, NEW l, NEW n, Announce(x, l, n)
          PROVE  live' = live /\ w'["boot"] = w["boot"]
      BY <1>0, <3>1 DEF Announce, ZoneTypeOK, Writers
    <3>2. ASSUME NEW x \in {"console", "irq"}, Claim(x)
          PROVE  live' = live /\ w'["boot"] = w["boot"]
      BY <1>0, <3>2 DEF Claim, ZoneTypeOK, Writers
    <3>3. ASSUME NEW x \in {"console", "irq"}, StoreCell(x)
          PROVE  live' = live /\ w'["boot"] = w["boot"]
      BY <1>0, <3>3 DEF StoreCell, ZoneTypeOK, Writers
    <3>4. FirstIrq => Announce("irq", IrqLine, MarkCells) \/ UNCHANGED zoneVars
      BY DEF FirstIrq
    <3> QED BY <1>7, <3>1, <3>2, <3>3, <3>4
            DEF ConsoleBegins, ConsoleWrites, IrqWrites, zoneVars
  <2> QED BY <2>1, <2>2 DEF PowerInv, Moving
<1>8. CASE Reset
  <2>1. ~live' /\ power' = "off" /\ UNCHANGED <<recent, entered>>
    <3>1. live => ~live'
      BY <1>8 DEF Reset, HardReset
    <3>2. ~live => ~live'
      BY <1>8 DEF Reset, zoneVars
    <3> QED BY <1>8, <3>1, <3>2 DEF Reset
  <2> QED BY <2>1 DEF PowerInv
<1>9. CASE BootAgain
  <2>1. << >> \in Seq({})
    OBVIOUS
  <2>2. ~live' /\ recent' = <<>> /\ entered' = NoCall
    BY <1>9 DEF BootAgain, zoneVars, PowerInv
  <2> QED BY <2>1, <2>2, CallForms DEF PowerInv, IsList
<1>10. CASE UNCHANGED vars
  BY <1>10 DEF vars, zoneVars, bootVars, PowerInv, Moving
<1> QED BY <1>1, <1>2, <1>3, <1>4, <1>5, <1>6, <1>7, <1>8, <1>9, <1>10 DEF Next, BootThread

------------------------------------------------------------------------------
(* Steps that write nothing.                                               *)
StillZone == UNCHANGED <<zone, w, total, late>>

LEMMA StillLog ==
  ASSUME LogInv, CellInv', BootPlaced', PowerInv', StillZone, UNCHANGED <<boot, entered>>,
         Ours' => Ours
  PROVE  LogInv'
<1> SUFFICES ASSUME Ours, OthersAside, MarksProgram, Inside, NoneLater, Begun
             PROVE  (OthersAside /\ MarksProgram /\ Inside /\ NoneLater /\ Begun)'
  BY DEF LogInv
<1>1. /\ Op' = Op /\ \A x : Busy(x)' = Busy(x) /\ Moving(x)' = Moving(x)
      /\ Goal("boot")' = Goal("boot") /\ zone' = zone /\ w' = w
      /\ \A s : InitCell(s)' = InitCell(s) /\ BeginCell(s)' = BeginCell(s)
  BY DEF StillZone, Op, OpAt, Busy, Moving, Goal, InitCell, BeginCell
<1>2. OthersAside' /\ MarksProgram' /\ NoneLater'
  BY <1>1 DEF OthersAside, MarksProgram, NoneLater
<1>3. ~entered.returned => Whole(entered.off, MarkCells, BeginLine(entered.f))'
  BY DEF Inside, StillZone, Whole, Span, Moving, Goal
<1>4. Inside'
  BY <1>1, <1>3 DEF Inside
<1>5. \A b : Followed(b)' = Followed(b)
  BY DEF StillZone, Followed, Whole, Span, Moving, Goal
<1>6. Begun'
  BY <1>1, <1>5 DEF Begun, BegunAt, Unended
<1> QED BY <1>2, <1>4, <1>6

(* The boot thread goes on from an operation that is no breadcrumb.        *)
LEMMA StepsOn ==
  ASSUME LogInv, CellInv', BootPlaced', PowerInv', StillZone, Ours' = Ours,
         Ready("create") \/ Ready("register") \/ Ready("goto") \/ Ready("run"),
         Ours /\ ~entered'.returned => boot'.seg = "panic" /\ entered' = entered /\ ~entered.returned,
         Ours /\ ~entered.returned /\ entered'.returned =>
           Op' = Mark(EndLine(entered.f)) /\ entered'.f = entered.f /\ entered'.off = entered.off
  PROVE  LogInv'
<1> SUFFICES ASSUME Ours, OthersAside, MarksProgram, Inside, NoneLater, Begun
             PROVE  (OthersAside /\ MarksProgram /\ Inside /\ NoneLater /\ Begun)'
  BY DEF LogInv
<1>1. Op.op # "mark" /\ ~Busy("boot") /\ ~Moving("boot")
  BY DEF Ready, MarksProgram, Busy, Moving
<1>2. /\ \A x : Busy(x)' = Busy(x) /\ Moving(x)' = Moving(x)
      /\ zone' = zone /\ w' = w
      /\ \A s : InitCell(s)' = InitCell(s) /\ BeginCell(s)' = BeginCell(s)
  BY DEF StillZone, Busy, Moving, InitCell, BeginCell
<1>3. OthersAside' /\ MarksProgram' /\ NoneLater'
  BY <1>1, <1>2 DEF OthersAside, MarksProgram, NoneLater
<1>4. Inside'
  <2> SUFFICES ASSUME ~entered'.returned PROVE Inside'
    BY DEF Inside
  <2>1. entered' = entered /\ boot'.seg = "panic" /\ ~entered.returned
    OBVIOUS
  <2>2. Whole(entered.off, MarkCells, BeginLine(entered.f))'
    BY <2>1 DEF Inside, StillZone, Whole, Span, Moving, Goal
  <2> QED BY <1>2, <2>1, <2>2 DEF Inside
<1>5. \A b : Followed(b)' = Followed(b)
  BY DEF StillZone, Followed, Whole, Span, Moving, Goal
<1>6. Begun'
  <2> SUFFICES ASSUME NEW s \in Slots, BeginCell(s)'
               PROVE  BegunAt(zone.data[s].off, zone.data[s].line.of)'
    BY DEF Begun
  <2> PICK b, f : b = zone.data[s].off /\ f = zone.data[s].line.of
    OBVIOUS
  <2>1. BegunAt(b, f)
    BY <1>2 DEF Begun
  <2>2. CASE entered.off = b /\ entered.f = f /\ Unended(f)
    <3>1. ~entered.returned
      BY <1>1, <2>2 DEF Unended, Mark
    <3>2. CASE entered'.returned
      BY <1>2, <2>2, <3>1, <3>2 DEF BegunAt, Unended
    <3>3. CASE ~entered'.returned
      BY <1>2, <2>2, <3>1, <3>3 DEF BegunAt, Unended
    <3> QED BY <3>2, <3>3
  <2>3. CASE Followed(b)
    BY <1>2, <1>5, <2>3 DEF BegunAt
  <2> QED BY <1>1, <2>1, <2>2, <2>3 DEF BegunAt
<1> QED BY <1>3, <1>4, <1>6

(* Where an initcall has not returned, the boot thread runs it or is in    *)
(* panic().                                                                *)
LEMMA InsideRuns ==
  ASSUME BootPlaced, Inside, ~entered.returned, Ready("run")
  PROVE  /\ Op = Run(entered.f) /\ entered.f \in InitcallNames
         /\ Program[boot.seg][boot.pc + 1] = Mark(EndLine(entered.f))
<1> DEFINE s == Program[boot.seg]
           f == entered.f
<1>1. boot.pc \in DOMAIN s /\ Op = s[boot.pc] /\ Op.op = "run" /\ Ended(s)
  BY PlaceEnded DEF Ready, Op, OpAt
<1>2. Op = Run(f) /\ f \in InitcallNames
  <2>1. boot.seg # "panic"
    BY <1>1, PanicMarks
  <2> QED BY <2>1 DEF Inside
<1> HIDE DEF s, f
<1>3. s[boot.pc + 1] = Mark(EndLine(f))
  BY <1>1, <1>2 DEF Ended, WellMarked, RunsWell
<1> QED BY <1>2, <1>3 DEF s, f

LEMMA InsideNotElsewhere ==
  ASSUME BootPlaced, Inside, ~entered.returned,
         \/ Ready("create") \/ Ready("register")
         \/ Ready("goto") /\ Op.to # {}
  PROVE  FALSE
<1>1. boot.pc \in DOMAIN Program[boot.seg] /\ Op.op \in {"create", "register", "goto"}
  BY DEF Ready
<1>2. Op # Run(entered.f)
  BY <1>1 DEF Run
<1>3. boot.seg = "panic"
  BY <1>2 DEF Inside
<1>4. Op.op = "goto" /\ Op.to = {}
  BY <1>1, <1>3, PanicMarks
<1> QED BY <1>4 DEF Ready

------------------------------------------------------------------------------
LEMMA NotOurs ==
  ASSUME CellInv', BootPlaced', PowerInv', ~Ours'
  PROVE  LogInv'
BY DEF LogInv

LEMMA CreateZoneLog ==
  ASSUME LogInv, CellInv', BootPlaced', PowerInv', CreateZone
  PROVE  LogInv'
<1>1. /\ \A s \in Slots : zone'.data[s] = Stale
      /\ \A x \in Writers : ~Moving(x)' /\ ~Busy(x)'
  BY DEF CreateZone, Zap, ZappedZone, Moving, Busy, Idle
<1>2. entered'.returned
  <2>1. ~live /\ power = "up"
    BY DEF CreateZone, Zap, Ready, Running
  <2>2. entered = NoCall
    BY <2>1 DEF LogInv, PowerInv
  <2> QED BY <2>2 DEF CreateZone, NoCall
<1> QED BY <1>1, <1>2
        DEF LogInv, OthersAside, MarksProgram, Inside, NoneLater, Begun, BeginCell, Writers

LEMMA BootThreadLog ==
  ASSUME LogInv, CellInv', BootPlaced', PowerInv', BootThread
  PROVE  LogInv'
<1>0. BootPlaced /\ PowerInv /\ (Ours => Inside)
  BY DEF LogInv
<1>1. CASE CreateZone
  BY <1>1, CreateZoneLog
<1>2. CASE CreateFails \/ RegisterConsole \/ TakeBranch
  <2>1. /\ StillZone /\ entered' = entered /\ live' = live /\ recent' = recent
        /\ Ready("create") \/ Ready("register") \/ (Ready("goto") /\ Op.to # {})
    BY <1>2 DEF CreateFails, RegisterConsole, TakeBranch, zoneVars, StillZone
  <2>2. Ours => entered.returned
    BY <1>0, <2>1, InsideNotElsewhere
  <2>3. Ours' = Ours
    BY <2>1 DEF Ours
  <2> QED BY <2>1, <2>2, <2>3, StepsOn
<1>3. CASE MarkDropped
  <2>1. ~live' /\ recent' = <<>>
    BY <1>0, <1>3 DEF MarkDropped, Ready, Running, PowerInv, zoneVars
  <2> QED BY <2>1, NotOurs DEF Ours
<1>4. CASE MarkBegins \/ MarkClaims
  BY <1>4, MarkBeginsLog, MarkClaimsLog
<1>5. CASE MarkStores
  BY <1>5, MarkMiddleLog, MarkEndsLog
<1>6. CASE StatementReturns
  <2>1. /\ StillZone /\ live' = live /\ recent' = recent /\ Ready("run")
        /\ entered' = [entered EXCEPT !.returned = TRUE]
        /\ boot' = NextOp
    BY <1>6 DEF StatementReturns, zoneVars, StillZone
  <2>2. entered'.returned /\ entered'.f = entered.f /\ entered'.off = entered.off
    BY <1>0, <2>1, CallForms DEF PowerInv
  <2>3. Ours /\ ~entered.returned => Op' = Mark(EndLine(entered.f))
    <3> SUFFICES ASSUME Ours, ~entered.returned PROVE Op' = Mark(EndLine(entered.f))
      OBVIOUS
    <3>1. Program[boot.seg][boot.pc + 1] = Mark(EndLine(entered.f))
      BY <1>0, <2>1, InsideRuns
    <3>2. boot'.seg = boot.seg /\ boot'.pc = boot.pc + 1
      BY <1>0, <2>1, NextPlace
    <3> QED BY <3>1, <3>2 DEF Op, OpAt
  <2>4. Ours' = Ours
    BY <2>1 DEF Ours
  <2> QED BY <2>1, <2>2, <2>3, <2>4, StepsOn
<1>7. CASE StatementPanics
  <2>1. /\ StillZone /\ entered' = entered /\ live' = live /\ recent' = recent
        /\ Ready("run") /\ boot' = At("panic", 1)
    BY <1>7 DEF StatementPanics, zoneVars, StillZone
  <2>2. boot'.seg = "panic" /\ Ours' = Ours
    BY <2>1 DEF At, Ours
  <2> QED BY <2>1, <2>2, StepsOn
<1> QED BY <1>1, <1>2, <1>3, <1>4, <1>5, <1>6, <1>7 DEF BootThread

(* The other contexts, the reset and the next boot.                        *)
LEMMA OthersLog ==
  ASSUME LogInv, CellInv', BootPlaced', PowerInv',
         ConsoleBegins \/ ConsoleWrites \/ FirstIrq \/ IrqWrites
  PROVE  LogInv'
<1>0. UNCHANGED <<boot, entered, recent>>
  BY DEF ConsoleBegins, ConsoleWrites, FirstIrq, IrqWrites, bootVars
<1>1. CASE ConsoleBegins
  <2>1. texts + 1 \in 1 .. MaxTexts
    BY <1>1, RecorderAssumption DEF ConsoleBegins, BootPlaced, LogInv
  <2>2. TextLine(texts + 1) \in Lines /\ TextLine(texts + 1).tag \notin InitTags
    BY <2>1, LinesAssumption DEF AllLines, TextLine, Line, InitTags
  <2>3. OtherWrites("console")
    BY <1>1, <2>2, RecorderAssumption DEF ConsoleBegins, OtherWrites
  <2> QED BY <1>0, <2>3, OtherStep
<1>2. CASE ConsoleWrites
  BY <1>0, <1>2, OtherStep DEF ConsoleWrites, OtherWrites
<1>3. CASE IrqWrites
  BY <1>0, <1>3, OtherStep DEF IrqWrites, OtherWrites
<1>4. CASE FirstIrq /\ live
  <2>1. IrqLine \in Lines /\ IrqLine.tag \notin InitTags
    BY LinesAssumption DEF AllLines, IrqLine, Line, InitTags
  <2>2. OtherWrites("irq")
    BY <1>4, <2>1, MarkCellsNat DEF FirstIrq, OtherWrites
  <2> QED BY <1>0, <2>2, OtherStep
<1>5. CASE FirstIrq /\ ~live
  BY <1>0, <1>5, StillLog DEF FirstIrq, zoneVars, StillZone, Ours
<1> QED BY <1>1, <1>2, <1>3, <1>4, <1>5

LEMMA ResetLog ==
  ASSUME LogInv, CellInv', BootPlaced', PowerInv', Reset
  PROVE  LogInv'
<1>1. StillZone /\ UNCHANGED <<boot, entered, recent>> /\ (live' => live)
  BY DEF Reset, HardReset, zoneVars, StillZone
<1> QED BY <1>1, StillLog DEF Ours

LEMMA BootAgainLog ==
  ASSUME LogInv, CellInv', BootPlaced', PowerInv', BootAgain
  PROVE  LogInv'
<1>1. ~live' /\ recent' = <<>>
  BY DEF BootAgain, zoneVars, LogInv, PowerInv
<1> QED BY <1>1, NotOurs DEF Ours

LEMMA LogInit == BootInit => LogInv
<1> SUFFICES ASSUME BootInit PROVE LogInv
  OBVIOUS
<1>1. CellInv /\ BootPlaced
  BY CellInit, StartPlaced, FixedInSegments DEF BootInit, BootPlaced
<1>2. ~live /\ recent = <<>> /\ entered = NoCall
  BY DEF BootInit, ZoneInit
<1>3. PowerInv
  <2>1. << >> \in Seq({})
    OBVIOUS
  <2> QED BY <1>2, <2>1, CallForms DEF PowerInv, IsList
<1> QED BY <1>1, <1>2, <1>3 DEF LogInv, Ours

LEMMA LogStep == LogInv /\ [Next]_vars => LogInv'
<1> SUFFICES ASSUME LogInv, [Next]_vars PROVE LogInv'
  OBVIOUS
<1>1. CellInv' /\ BootPlaced' /\ PowerInv'
  BY PlacedStep, ZoneStepOfBoot, CellStep, PowerStep DEF LogInv
<1>2. CASE BootThread
  BY <1>1, <1>2, BootThreadLog
<1>3. CASE ConsoleBegins \/ ConsoleWrites \/ FirstIrq \/ IrqWrites
  BY <1>1, <1>3, OthersLog
<1>4. CASE Reset \/ BootAgain
  BY <1>1, <1>4, ResetLog, BootAgainLog
<1>5. CASE UNCHANGED vars
  BY <1>1, <1>5, StillLog DEF vars, zoneVars, bootVars, StillZone, Ours
<1> QED BY <1>2, <1>3, <1>4, <1>5 DEF Next

------------------------------------------------------------------------------
(* What a reader of the log finds.                                         *)
LEMMA NearestIs ==
  ASSUME NEW S \in SUBSET Int, NEW p \in S, \A j \in S : j <= p
  PROVE  (CHOOSE i \in S : \A j \in S : j <= i) = p
<1> PICK c : c = CHOOSE i \in S : \A j \in S : j <= i
  OBVIOUS
<1>1. c \in S /\ \A j \in S : j <= c
  OBVIOUS
<1>2. c <= p /\ p <= c /\ c \in Int /\ p \in Int
  BY <1>1
<1>3. c = p
  BY <1>2
<1> QED BY <1>3

(* A line of an initcall given whole and not lapped is among the marks.    *)
LEMMA WholeIsMark ==
  ASSUME CellInv, late = {}, NEW e \in Nat, NEW line, line.tag \in InitTags,
         Whole(e, MarkCells, line), ~Overtaken(e)
  PROVE  /\ Position(e) \in InitcallMarks(zone, Torn)
         /\ OldLog(zone)[Position(e)].line = line
<1>1. MarkCells \in 1 .. MaxLine
  BY MarkCellsNat
<1>2. /\ Position(e) \in DOMAIN OldLog(zone)
      /\ IntactAt(OldLog(zone), Position(e))
      /\ OldLog(zone)[Position(e)].line = line /\ OldLog(zone)[Position(e)].n = MarkCells
      /\ LineSlots(zone, Position(e), MarkCells) \cap Torn = {}
  BY <1>1, WholeInLog
<1> QED BY <1>2 DEF InitcallMarks, InitTags

LEMMA MarkIsCell ==
  ASSUME CellInv, late = {}, NEW i \in InitcallMarks(zone, Torn)
  PROVE  \E s \in Slots :
           LET c == OldLog(zone)[i] IN
           /\ i \in Int /\ zone.data[s] = c /\ InitCell(s) /\ c.part = 1
           /\ c.off \in Nat /\ Newest(c.off) /\ Position(c.off) = i /\ c.n \in Nat /\ c.n > 0
           /\ \A x \in Writers, k \in 0 .. c.n - 1 : ~Holding(x, c.off + k)
<1> PICK c, s : c = OldLog(zone)[i] /\ s = LogSlot(zone, i)
  OBVIOUS
<1>1. /\ i \in 1 .. zone.size /\ IntactAt(OldLog(zone), i) /\ c.line.tag \in InitTags
      /\ LineSlots(zone, i, c.n) \cap Torn = {}
  BY DEF InitcallMarks, OldLog, InitTags
<1>2. /\ c = zone.data[s] /\ c # Stale /\ c \in Cells
      /\ Newest(c.off) /\ Position(c.off) = i
      /\ \A x \in Writers, k \in 0 .. c.n - 1 : ~Holding(x, c.off + k)
  BY <1>1, IntactIsNewest
<1>3. c.part = 1
  BY <1>1 DEF IntactAt
<1>4. s \in Slots /\ i \in Int
  BY <1>1, SlotOnce, SizeBounds
<1>5. c.off \in Nat /\ c.n \in Nat /\ c.n > 0
  BY <1>2, LineAssumption, ZoneSizeAssumption DEF Cells
<1> QED BY <1>1, <1>2, <1>3, <1>4, <1>5 DEF InitCell

LEMMA MarksAreInts == CellInv => InitcallMarks(zone, Torn) \in SUBSET Int
BY SizeBounds DEF InitcallMarks, OldLog

LEMMA LogNamesRunning == LogInv => RunningInitcallNamed
<1> SUFFICES ASSUME LogInv, ZoneIsOurs, ~entered.returned, ~Overtaken(entered.off), late = {}
             PROVE  LastInitcallMark(zone, Torn) = BeginLine(entered.f)
  BY DEF RunningInitcallNamed, BeginLine
<1>1. CellInv /\ Inside
  BY DEF LogInv, Ours, ZoneIsOurs
<1> PICK e, line : e = entered.off /\ line = BeginLine(entered.f)
  OBVIOUS
<1>2. /\ e \in Nat /\ Whole(e, MarkCells, line) /\ ~Overtaken(e)
      /\ \A s \in Slots : InitCell(s) => zone.data[s].off < e + MarkCells
  BY <1>1 DEF Inside
<1>3. line.tag \in InitTags
  BY DEF BeginLine, Line, InitTags
<1> PICK p : p = Position(e)
  OBVIOUS
<1>4. p \in InitcallMarks(zone, Torn) /\ OldLog(zone)[p].line = line
  BY <1>1, <1>2, <1>3, WholeIsMark
<1>5. ASSUME NEW j \in InitcallMarks(zone, Torn) PROVE j <= p
  <2> PICK c : c = OldLog(zone)[j]
    OBVIOUS
  <2>1. PICK s \in Slots :
           /\ j \in Int /\ zone.data[s] = c /\ InitCell(s) /\ c.part = 1
           /\ c.off \in Nat /\ Position(c.off) = j
    BY <1>1, MarkIsCell
  <2>2. c.off <= e
    <3> SUFFICES ASSUME c.off > e PROVE FALSE
      BY <1>2, <2>1
    <3>1. c.off \in e .. e + MarkCells - 1
      BY <1>2, <2>1, MarkCellsNat
    <3>2. c = Cell(c.off, line, c.off - e + 1, MarkCells)
      BY <1>2, <2>1, <3>1 DEF Whole, Span, InitCell
    <3>3. c.part = c.off - e + 1
      BY <3>2 DEF Cell
    <3> QED BY <1>2, <2>1, <3>3
  <2> QED BY <1>1, <1>2, <2>1, <2>2, SizeBounds DEF Position
<1>6. (CHOOSE i \in InitcallMarks(zone, Torn) :
         \A j \in InitcallMarks(zone, Torn) : j <= i) = p
  BY <1>1, <1>4, <1>5, MarksAreInts, NearestIs
<1> QED BY <1>4, <1>6 DEF LastInitcallMark

------------------------------------------------------------------------------
(* A set of marks that is not empty has one nearest the end of the log.    *)
LEMMA NearestExists ==
  ASSUME NEW n \in Nat, NEW S \in SUBSET (1 .. n), S # {}
  PROVE  \E p \in S : \A j \in S : j <= p
<1> DEFINE T == {n - j : j \in S}
<1>0. PICK q : q \in S
  OBVIOUS
<1>1. n - q \in T /\ \A j \in S : n - j \in Nat
  BY <1>0
<1>2. PICK x \in T : \A y \in T : x <= y
  <2>1. T \in SUBSET Nat /\ T # {}
    BY <1>1
  <2> QED BY <2>1, Smallest
<1>3. PICK p \in S : x = n - p
  BY <1>2
<1>4. ASSUME NEW j \in S PROVE j <= p
  <2>1. n - p <= n - j
    BY <1>2, <1>3
  <2> QED BY <2>1
<1> QED BY <1>4

(* The last initcall line of a log that has one is that of the mark with   *)
(* the highest position.                                                   *)
LEMMA LastIsNearest ==
  ASSUME CellInv, LastInitcallMark(zone, Torn).tag = "BEGIN"
  PROVE  \E p \in InitcallMarks(zone, Torn) :
           /\ \A j \in InitcallMarks(zone, Torn) : j <= p
           /\ LastInitcallMark(zone, Torn) = OldLog(zone)[p].line
<1> PICK marks : marks = InitcallMarks(zone, Torn)
  OBVIOUS
<1>1. marks # {}
  BY DEF LastInitcallMark, NoLine, Line
<1>2. marks \in SUBSET (1 .. zone.size) /\ zone.size \in Nat
  BY SizeBounds DEF InitcallMarks, OldLog
<1>3. PICK p \in marks : \A j \in marks : j <= p
  BY <1>1, <1>2, NearestExists
<1>4. (CHOOSE i \in marks : \A j \in marks : j <= i) = p
  BY <1>2, <1>3, NearestIs
<1> QED BY <1>1, <1>3, <1>4 DEF LastInitcallMark

LEMMA LogNamesNoOther == LogInv => NamedInitcallWasRunning
<1> SUFFICES ASSUME LogInv, ZoneIsOurs, late = {}, NEW last,
                    last = LastInitcallMark(zone, Torn), last.tag = "BEGIN"
             PROVE  entered.f = last.of /\ Unended(last.of)
  BY DEF NamedInitcallWasRunning, Unended, EndLine
<1>1. CellInv /\ Begun
  BY DEF LogInv, Ours, ZoneIsOurs
<1>2. PICK p \in InitcallMarks(zone, Torn) :
         /\ \A j \in InitcallMarks(zone, Torn) : j <= p
         /\ last = OldLog(zone)[p].line
  BY <1>1, LastIsNearest
<1> PICK c : c = OldLog(zone)[p]
  OBVIOUS
<1>3. PICK s \in Slots :
         /\ p \in Int /\ zone.data[s] = c /\ InitCell(s) /\ c.part = 1
         /\ c.off \in Nat /\ Newest(c.off) /\ Position(c.off) = p /\ c.n \in Nat /\ c.n > 0
         /\ \A x \in Writers, k \in 0 .. c.n - 1 : ~Holding(x, c.off + k)
  BY <1>1, <1>2, MarkIsCell
<1>4. BegunAt(c.off, last.of)
  BY <1>1, <1>2, <1>3 DEF Begun, BeginCell, InitCell
<1>5. ~(Moving("boot") /\ w["boot"].off = c.off)
  <2> SUFFICES ASSUME Moving("boot"), w["boot"].off = c.off PROVE FALSE
    OBVIOUS
  <2>1. RingInv /\ ZoneTypeOK
    BY <1>1 DEF CellInv, RingInv
  <2>2. /\ w["boot"].off \in Nat /\ w["boot"].n \in Nat /\ w["boot"].done \in Nat
        /\ w["boot"].done < w["boot"].n
    BY <2>1, MovingFields DEF Writers
  <2>3. c.n = w["boot"].n
    <3>1. c = Cell(c.off, w["boot"].line, c.off - w["boot"].off + 1, w["boot"].n)
      BY <1>1, <1>3, <2>2 DEF CellInv, OwnCells, Span, InitCell, Writers
    <3> QED BY <3>1 DEF Cell
  <2>4. Holding("boot", c.off + w["boot"].done)
    BY <2>2 DEF Holding, Number, Goal
  <2> QED BY <1>3, <2>2, <2>3, <2>4 DEF Writers
<1>6. ~Followed(c.off)
  <2> SUFFICES ASSUME NEW e \in Nat, NEW line, e > c.off, line.tag \in InitTags,
                      Whole(e, MarkCells, line)
               PROVE  FALSE
    BY DEF Followed
  <2>1. total \in Nat /\ ~Overtaken(e)
    BY <1>1, <1>3, SizeBounds DEF Newest, Overtaken
  <2>2. Position(e) \in InitcallMarks(zone, Torn)
    BY <1>1, <2>1, WholeIsMark
  <2> QED BY <1>1, <1>2, <1>3, <2>1, <2>2, SizeBounds DEF Position
<1> QED BY <1>4, <1>5, <1>6 DEF BegunAt

(* The invariant the reading of the log rests on.                          *)
THEOREM LogInvariant == Spec => []LogInv
<1>1. BootInit => LogInv
  BY LogInit
<1>2. LogInv /\ [Next]_vars => LogInv'
  BY LogStep
<1> QED BY <1>1, <1>2, PTL DEF Spec

(* A reader of the log is told the initcall the boot is inside and no      *)
(* other (the BEGIN and END lines stage 82 puts around do_one_initcall),   *)
(* wherever a reset falls, however the writers interleave and whatever the *)
(* sizes of the ring, of the lines and of the initcall table.              *)
THEOREM LogAlwaysNamesInitcall == Spec => []LogNamesInitcall
<1>1. LogInv => LogNamesInitcall
  BY LogNamesRunning, LogNamesNoOther DEF LogNamesInitcall
<1> QED BY <1>1, LogInvariant, PTL

------------------------------------------------------------------------------
(***************************************************************************)
(* The copies of a triplet.  CopyBehind: a later copy comes right after    *)
(* the one before it was claimed.  CopiesClaimed: the copies claimed so    *)
(* far are the last lines of recent, and while some are to come the next   *)
(* one is the boot thread's next operation.  RecentWhole: those lines are  *)
(* in the ring whole, but for the one being written, in their order.       *)
(***************************************************************************)
Latest == recent[Len(recent)]

CopyBehind ==
  ~Moving("boot") /\ boot.pc \in DOMAIN Program[boot.seg] =>
    \A tag, of, c :
      tag \in TripletTags /\ c \in 2 .. 3 /\ Op = Mark(Line(tag, of, c)) =>
        recent # <<>> /\ Latest.line = Line(tag, of, c - 1)

CopiesTo(tag, of, c) ==
  /\ c \in 1 .. 3 /\ c <= Len(recent)
  /\ \A k \in 0 .. c - 1 : recent[Len(recent) - k].line = Line(tag, of, c - k)

CopiesClaimed ==
  recent # <<>> /\ Latest.line.tag \in TripletTags =>
    \E tag, of, c :
      /\ CopiesTo(tag, of, c)
      /\ \/ Moving("boot") \/ c = 3
         \/ boot.pc \in DOMAIN Program[boot.seg] /\ Op = Mark(Line(tag, of, c + 1))

GivenWhole(i) ==
  /\ recent[i].off \in Nat
  /\ \/ Whole(recent[i].off, MarkCells, recent[i].line)
     \/ Moving("boot") /\ i = Len(recent)

InOrder ==
  \A i, j \in DOMAIN recent : i < j => recent[i].off + MarkCells <= recent[j].off

LatestWritten ==
  Moving("boot") =>
    recent # <<>> /\ Latest.off = w["boot"].off /\ Latest.line = w["boot"].line

RecentWhole == (\A i \in DOMAIN recent : GivenWhole(i)) /\ InOrder /\ LatestWritten

TripletInv == LogInv /\ (Ours => CopyBehind /\ CopiesClaimed /\ RecentWhole)

------------------------------------------------------------------------------
LEMMA SameMark ==
  ASSUME NEW tag, NEW of, NEW c, NEW tag2, NEW of2, NEW c2,
         Mark(Line(tag, of, c)) = Mark(Line(tag2, of2, c2))
  PROVE  tag = tag2 /\ of = of2 /\ c = c2
<1>1. Line(tag, of, c) = Line(tag2, of2, c2)
  BY DEF Mark
<1> QED BY <1>1 DEF Line

(* The copies on either side of the line at place i.                       *)
Neighbours(s, i) ==
  \A tag, of, c :
    tag \in TripletTags /\ s[i].op = "mark" /\ s[i].line = Line(tag, of, c) =>
      /\ c \in 1 .. 3 /\ s[i] = Mark(Line(tag, of, c))
      /\ c > 1 => i - 1 \in DOMAIN s /\ s[i - 1] = Mark(Line(tag, of, c - 1))
      /\ c < 3 => i + 1 \in DOMAIN s /\ s[i + 1] = Mark(Line(tag, of, c + 1))

LEMMA CopyNeighbours ==
  ASSUME NEW s, CopiesWell(s), NEW i \in DOMAIN s
  PROVE  Neighbours(s, i)
<1> SUFFICES ASSUME NEW tag, NEW of, NEW c, tag \in TripletTags,
                    s[i].op = "mark", s[i].line = Line(tag, of, c)
             PROVE  /\ c \in 1 .. 3 /\ s[i] = Mark(Line(tag, of, c))
                    /\ c > 1 => i - 1 \in DOMAIN s /\ s[i - 1] = Mark(Line(tag, of, c - 1))
                    /\ c < 3 => i + 1 \in DOMAIN s /\ s[i + 1] = Mark(Line(tag, of, c + 1))
  BY DEF Neighbours
<1>1. s[i].line.tag \in TripletTags
  BY DEF Line
<1>2. PICK a, b, d :
         /\ d \in 1 .. 3 /\ s[i] = Mark(Line(a, b, d))
         /\ d > 1 => i - 1 \in DOMAIN s /\ s[i - 1] = Mark(Line(a, b, d - 1))
         /\ d < 3 => i + 1 \in DOMAIN s /\ s[i + 1] = Mark(Line(a, b, d + 1))
  BY <1>1 DEF CopiesWell
<1>3. a = tag /\ b = of /\ d = c
  BY <1>2 DEF Mark, Line
<1> QED BY <1>2, <1>3

LEMMA SegmentCopies ==
  ASSUME NEW seg \in Segments
  PROVE  /\ CopiesWell(Program[seg]) /\ CreatesWell(Program[seg]) /\ IsList(Program[seg])
         /\ \A i \in DOMAIN Program[seg] : i \in Nat /\ i > 0
<1>1. CopiesWell(Program[seg]) /\ CreatesWell(Program[seg]) /\ IsList(Program[seg])
  BY ProgramEnded DEF Ended, WellMarked, Tripled
<1>2. ASSUME NEW s, IsList(s) PROVE \A i \in DOMAIN s : i \in Nat /\ i > 0
  BY <1>2 DEF IsList
<1> QED BY <1>1, <1>2

(* Wherever the boot thread goes without having written a line, no later   *)
(* copy is next.                                                           *)
GoesOn ==
  \/ boot' = NextOp /\ Op.op # "mark"
  \/ \E seg : boot' = At(seg, 1)
  \/ boot' = [boot EXCEPT !.pc = @ + 4] /\ Op.op = "create"

LEMMA NoCopyNext ==
  ASSUME BootPlaced, BootPlaced', boot.pc \in DOMAIN Program[boot.seg], GoesOn
  PROVE  CopyBehind'
<1> SUFFICES ASSUME NEW tag \in TripletTags, NEW of, NEW c \in 2 .. 3,
                    boot'.pc \in DOMAIN Program[boot'.seg], Op' = Mark(Line(tag, of, c))
             PROVE  FALSE
  BY DEF CopyBehind
<1> PICK seg, i, s : seg = boot'.seg /\ i = boot'.pc /\ s = Program[seg]
  OBVIOUS
<1>1. /\ seg \in Segments /\ boot.seg \in Segments /\ i \in DOMAIN s
      /\ s[i] = Mark(Line(tag, of, c)) /\ boot.pc \in Int
  BY DEF BootPlaced, Op, OpAt
<1>2. /\ CopiesWell(s) /\ CreatesWell(s) /\ \A k \in DOMAIN s : k \in Nat /\ k > 0
  BY <1>1, SegmentCopies
<1>3. i - 1 \in DOMAIN s /\ s[i - 1] = Mark(Line(tag, of, c - 1))
  <2>1. s[i].op = "mark" /\ s[i].line = Line(tag, of, c)
    BY <1>1 DEF Mark
  <2>2. Neighbours(s, i)
    BY <1>1, <1>2, CopyNeighbours
  <2>3. c > 1 => i - 1 \in DOMAIN s /\ s[i - 1] = Mark(Line(tag, of, c - 1))
    BY <2>1, <2>2 DEF Neighbours
  <2> QED BY <2>3
<1>4. CASE boot' = NextOp /\ Op.op # "mark"
  <2>1. seg = boot.seg /\ i = boot.pc + 1
    BY <1>4, NextPlace
  <2>2. i - 1 = boot.pc
    BY <1>1, <2>1
  <2>3. s[i - 1] = Op
    BY <2>1, <2>2 DEF Op, OpAt
  <2> QED BY <1>3, <1>4, <2>3 DEF Mark
<1>5. CASE \E g : boot' = At(g, 1)
  <2>1. i = 1
    BY <1>5 DEF At
  <2> QED BY <1>2, <1>3, <2>1
<1>6. CASE boot' = [boot EXCEPT !.pc = @ + 4] /\ Op.op = "create"
  <2>1. seg = boot.seg /\ i = boot.pc + 4
    BY <1>6 DEF BootPlaced
  <2>2. i - 1 = boot.pc + 3
    BY <1>1, <2>1
  <2>3. boot.pc \in DOMAIN s /\ s[boot.pc] = Op
    BY <2>1 DEF Op, OpAt
  <2>4. s[boot.pc + 3] = Mark(Line("CONSOLE", "zone", 1))
    BY <1>2, <1>6, <2>3 DEF CreatesWell
  <2>5. tag = "CONSOLE"
    BY <1>3, <2>2, <2>4, SameMark
  <2> QED BY <2>5 DEF TripletTags
<1> QED BY <1>4, <1>5, <1>6 DEF GoesOn

(* The boot thread goes on from an operation that writes no line.          *)
LEMMA TripletGoesOn ==
  ASSUME TripletInv, LogInv', StillZone, live' = live, recent' = recent,
         boot.pc \in DOMAIN Program[boot.seg], Op.op # "mark", GoesOn
  PROVE  TripletInv'
<1> SUFFICES ASSUME Ours' PROVE (CopyBehind /\ CopiesClaimed /\ RecentWhole)'
  BY DEF TripletInv
<1>1. /\ LogInv /\ Ours /\ CopiesClaimed /\ RecentWhole
  BY DEF TripletInv, Ours
<1>2. ~Moving("boot") /\ ~Moving("boot")'
  BY <1>1 DEF LogInv, MarksProgram, Moving, Busy, StillZone
<1>3. CopyBehind'
  BY <1>1, NoCopyNext DEF LogInv
<1>4. CopiesClaimed'
  <2> SUFFICES ASSUME recent # <<>>, Latest.line.tag \in TripletTags
               PROVE  \E tag, of, c : CopiesTo(tag, of, c)' /\ c = 3
    BY DEF CopiesClaimed, Latest
  <2>1. PICK tag, of, c : CopiesTo(tag, of, c) /\ (c = 3 \/ Op = Mark(Line(tag, of, c + 1)))
    BY <1>1, <1>2 DEF CopiesClaimed
  <2>2. c = 3
    BY <2>1 DEF Mark
  <2>3. CopiesTo(tag, of, c)'
    BY <2>1 DEF CopiesTo
  <2> QED BY <2>2, <2>3
<1>5. RecentWhole'
  <2>1. ASSUME NEW i \in DOMAIN recent PROVE GivenWhole(i)'
    <3> PICK e, line : e = recent[i].off /\ line = recent[i].line
      OBVIOUS
    <3>1. e \in Nat /\ Whole(e, MarkCells, line)
      BY <1>1, <1>2 DEF RecentWhole, GivenWhole
    <3>2. Whole(e, MarkCells, line)'
      BY <3>1, StillWhole DEF StillZone
    <3> QED BY <3>1, <3>2 DEF GivenWhole, Whole, Span
  <2> QED BY <1>1, <1>2, <2>1 DEF RecentWhole, InOrder, LatestWritten
<1> QED BY <1>3, <1>4, <1>5

(* Nothing of what TripletInv is about changes.                            *)
LEMMA TripletStill ==
  ASSUME TripletInv, LogInv', StillZone, UNCHANGED <<boot, recent>>, Ours' => Ours
  PROVE  TripletInv'
<1> SUFFICES ASSUME Ours' PROVE (CopyBehind /\ CopiesClaimed /\ RecentWhole)'
  BY DEF TripletInv
<1>1. CopyBehind /\ CopiesClaimed /\ RecentWhole
  BY DEF TripletInv
<1>2. Op' = Op /\ Latest' = Latest /\ Moving("boot")' = Moving("boot")
  BY DEF Op, OpAt, Latest, Moving, StillZone
<1>3. CopyBehind'
  BY <1>1, <1>2 DEF CopyBehind
<1>4. CopiesClaimed'
  BY <1>1, <1>2 DEF CopiesClaimed, CopiesTo
<1>5. RecentWhole'
  <2>1. ASSUME NEW i \in DOMAIN recent PROVE GivenWhole(i)'
    <3> PICK e, line : e = recent[i].off /\ line = recent[i].line
      OBVIOUS
    <3>1. e \in Nat /\ (Whole(e, MarkCells, line) \/ (Moving("boot") /\ i = Len(recent)))
      BY <1>1 DEF RecentWhole, GivenWhole
    <3>2. Whole(e, MarkCells, line) => Whole(e, MarkCells, line)'
      BY StillWhole DEF StillZone
    <3> QED BY <1>2, <3>1, <3>2 DEF GivenWhole, Whole, Span
  <2>2. InOrder' /\ LatestWritten'
    BY <1>1, <1>2 DEF RecentWhole, InOrder, LatestWritten, StillZone
  <2> QED BY <2>1, <2>2 DEF RecentWhole
<1> QED BY <1>3, <1>4, <1>5

(* A writer's step that neither begins nor ends the boot thread's copying. *)
LEMMA TripletWrites ==
  ASSUME TripletInv, LogInv', NEW x \in Writers, WriterStep(x), UNCHANGED <<boot, recent>>,
         Moving("boot")' = Moving("boot"),
         Moving("boot") => w'["boot"].off = w["boot"].off /\ w'["boot"].line = w["boot"].line
  PROVE  TripletInv'
<1>0. CellInv /\ ZoneTypeOK
  BY DEF TripletInv, LogInv, CellInv, RingInv
<1>1. CopyBehind /\ CopiesClaimed /\ RecentWhole
  BY <1>0, OthersKeep DEF TripletInv, Ours
<1>2. Op' = Op /\ Latest' = Latest
  BY DEF Op, OpAt, Latest
<1>3. CopyBehind'
  BY <1>1, <1>2 DEF CopyBehind
<1>4. CopiesClaimed'
  BY <1>1, <1>2 DEF CopiesClaimed, CopiesTo
<1>5. ASSUME NEW i \in DOMAIN recent PROVE GivenWhole(i)'
  <2> PICK e, line : e = recent[i].off /\ line = recent[i].line
    OBVIOUS
  <2>1. e \in Nat /\ (Whole(e, MarkCells, line) \/ (Moving("boot") /\ i = Len(recent)))
    BY <1>1 DEF RecentWhole, GivenWhole
  <2>2. Whole(e, MarkCells, line) => Whole(e, MarkCells, line)'
    BY <1>0, <2>1, MarkCellsNat, WholeStays
  <2> QED BY <2>1, <2>2 DEF GivenWhole, Whole, Span
<1>6. InOrder' /\ LatestWritten'
  BY <1>1, <1>2 DEF RecentWhole, InOrder, LatestWritten
<1> QED BY <1>3, <1>4, <1>5, <1>6 DEF TripletInv, RecentWhole

LEMMA TripletBegins ==
  ASSUME TripletInv, LogInv', MarkBegins
  PROVE  TripletInv'
<1>1. Announce("boot", Op.line, MarkCells) /\ Ready("mark") /\ UNCHANGED bootVars
      /\ BootPlaced /\ ZoneTypeOK
  BY DEF MarkBegins, TripletInv, LogInv, CellInv, RingInv
<1>2. "boot" \in Writers /\ WriterStep("boot")
  BY <1>1, OpLine, MarkCellsNat DEF WriterStep, Writers
<1>3. ~Moving("boot") /\ ~Moving("boot")'
  BY <1>1, <1>2 DEF Announce, Busy, Moving, Sized, ZoneTypeOK
<1>4. UNCHANGED <<boot, recent>>
  BY <1>1 DEF bootVars
<1>5. /\ Moving("boot")' = Moving("boot")
      /\ Moving("boot") => w'["boot"].off = w["boot"].off /\ w'["boot"].line = w["boot"].line
  BY <1>3 DEF Moving
<1> QED BY <1>2, <1>4, <1>5, TripletWrites

(* The last three of the lines claimed, when one more is.                  *)
LastThree(s) == IF Len(s) > 3 THEN Tail(s) ELSE s

JoinsRecent(last) ==
  \E n, m, d \in Nat :
    /\ n = Len(recent) /\ DOMAIN recent = 1 .. n
    /\ m = Len(recent)' /\ DOMAIN recent' = 1 .. m
    /\ m = n + 1 - d /\ m > 0 /\ d \in {0, 1} /\ (d = 1 => m >= 3)
    /\ recent'[m] = last
    /\ \A j \in 1 .. m - 1 : j + d \in 1 .. n /\ recent'[j] = recent[j + d]

LEMMA RecentThree ==
  ASSUME IsList(recent), NEW last, recent' = LastThree(Append(recent, last))
  PROVE  JoinsRecent(last)
<1> DEFINE r == Append(recent, last)
           n == Len(recent)
<1>1. recent' = IF Len(r) > 3 THEN Tail(r) ELSE r
  BY DEF LastThree
<1>2. PICK S : recent \in Seq(S)
  BY DEF IsList
<1> DEFINE U == S \cup {last}
<1>3. recent \in Seq(U) /\ last \in U
  BY <1>2
<1> HIDE DEF U
<1>4. /\ r \in Seq(U) /\ Len(r) = n + 1 /\ r[n + 1] = last
      /\ \A j \in 1 .. n : r[j] = recent[j]
      /\ n \in Nat /\ DOMAIN recent = 1 .. n
  BY <1>3, AppendProperties
<1> HIDE DEF r, n
<1>5. CASE n + 1 > 3
  <2>1. recent' = Tail(r) /\ r # <<>>
    <3>1. r = <<>> => Len(r) = 0
      BY EmptySeq, Zenon
    <3> QED BY <1>1, <1>4, <1>5, <3>1
  <2>2. /\ Tail(r) \in Seq(U) /\ Len(Tail(r)) = n /\ \A j \in 1 .. n : Tail(r)[j] = r[j + 1]
    <3>1. /\ Tail(r) \in Seq(U) /\ Len(Tail(r)) = Len(r) - 1
          /\ \A j \in 1 .. Len(Tail(r)) : Tail(r)[j] = r[j + 1]
      BY <1>4, <2>1, HeadTailProperties
    <3> QED BY <1>4, <3>1
  <2>3. Len(recent)' = n /\ DOMAIN recent' = 1 .. n
    BY <2>1, <2>2
  <2>4. recent'[n] = last
    <3>1. n \in 1 .. n
      BY <1>4, <1>5
    <3> QED BY <1>4, <2>1, <2>2, <3>1
  <2>5. ASSUME NEW j \in 1 .. n - 1 PROVE j + 1 \in 1 .. n /\ recent'[j] = recent[j + 1]
    <3>1. j \in 1 .. n /\ j + 1 \in 1 .. n
      BY <1>4
    <3> QED BY <1>4, <2>1, <2>2, <3>1
  <2>6. n = n + 1 - 1 /\ n > 0 /\ n >= 3
    BY <1>4, <1>5
  <2> QED BY <1>4, <2>3, <2>4, <2>5, <2>6 DEF n, JoinsRecent
<1>6. CASE ~(n + 1 > 3)
  <2>1. recent' = r
    BY <1>1, <1>4, <1>6
  <2>2. Len(recent)' = n + 1 /\ DOMAIN recent' = 1 .. n + 1 /\ recent'[n + 1] = last
    BY <1>4, <2>1
  <2>3. ASSUME NEW j \in 1 .. (n + 1) - 1 PROVE j + 0 \in 1 .. n /\ recent'[j] = recent[j + 0]
    <3>1. j \in 1 .. n /\ j + 0 = j
      BY <1>4
    <3> QED BY <1>4, <2>1, <3>1
  <2>4. n + 1 = n + 1 - 0 /\ n + 1 > 0 /\ n + 1 \in Nat /\ 0 \in Nat
    BY <1>4
  <2> PICK m : m = n + 1
    OBVIOUS
  <2>5. /\ n \in Nat /\ m \in Nat /\ n = Len(recent) /\ DOMAIN recent = 1 .. n
        /\ m = Len(recent)' /\ DOMAIN recent' = 1 .. m
        /\ m = n + 1 - 0 /\ m > 0 /\ recent'[m] = last
        /\ \A j \in 1 .. m - 1 : j + 0 \in 1 .. n /\ recent'[j] = recent[j + 0]
    BY <1>4, <2>2, <2>3, <2>4 DEF n
  <2> QED BY <2>5 DEF JoinsRecent
<1> QED BY <1>5, <1>6

(* The boot thread claims a line: it joins the copies claimed before it.   *)
LEMMA TripletClaims ==
  ASSUME TripletInv, LogInv', MarkClaims
  PROVE  TripletInv'
<1>1. /\ Claim("boot") /\ boot' = boot /\ LogInv /\ CellInv /\ ZoneTypeOK /\ BootPlaced
      /\ "boot" \in Writers /\ WriterStep("boot") /\ live /\ IsList(recent)
  BY DEF MarkClaims, TripletInv, LogInv, CellInv, RingInv, Writers, WriterStep, Claim, PowerInv
<1>2. CopyBehind /\ CopiesClaimed /\ RecentWhole /\ MarksProgram
  BY <1>1 DEF TripletInv, LogInv, Ours
<1>3. /\ boot.pc \in DOMAIN Program[boot.seg] /\ Op.op = "mark"
      /\ w["boot"].line = Op.line /\ Op' = Op
  BY <1>1, <1>2 DEF MarksProgram, Claim, Busy, Op, OpAt
<1>4. /\ total \in Nat /\ ~Moving("boot") /\ Moving("boot")'
      /\ w'["boot"].off = total /\ w'["boot"].line = Op.line
  <2>1. w'["boot"].line = w["boot"].line
    BY <1>1, EntryAfter, ClaimEffect DEF Busy, Moving
  <2> QED BY <1>1, <1>3, <2>1, ClaimEffect
<1> PICK last : last = [line |-> w["boot"].line, off |-> total]
  OBVIOUS
<1>5. last.line = Op.line /\ last.off = total
  BY <1>3
<1>6. PICK n, m, d \in Nat :
           /\ n = Len(recent) /\ DOMAIN recent = 1 .. n
           /\ m = Len(recent)' /\ DOMAIN recent' = 1 .. m
           /\ m = n + 1 - d /\ m > 0 /\ d \in {0, 1} /\ (d = 1 => m >= 3)
           /\ recent'[m] = last
           /\ \A j \in 1 .. m - 1 : j + d \in 1 .. n /\ recent'[j] = recent[j + d]
  <2>1. recent' = LastThree(Append(recent, last))
    BY DEF MarkClaims, LastThree
  <2>2. JoinsRecent(last)
    BY <1>1, <2>1, RecentThree
  <2> QED BY <2>2 DEF JoinsRecent
<1>7. Latest' = last /\ m \in 1 .. m
  BY <1>6 DEF Latest
<1>8. CopyBehind'
  BY <1>4 DEF CopyBehind
<1>9. CopiesClaimed'
  <2> SUFFICES ASSUME Op.line.tag \in TripletTags
               PROVE  \E tag, of, c : CopiesTo(tag, of, c)'
    BY <1>4, <1>5, <1>7 DEF CopiesClaimed
  <2>1. PICK tag, of, c :
           c \in 1 .. 3 /\ Op = Mark(Line(tag, of, c)) /\ Op.line = Line(tag, of, c)
    <3> DEFINE s == Program[boot.seg]
    <3>1. CopiesWell(s) /\ boot.pc \in DOMAIN s /\ Op = s[boot.pc]
      BY <1>1, <1>3, SegmentCopies DEF BootPlaced, Op, OpAt
    <3> HIDE DEF s
    <3>2. PICK tag, of, c : c \in 1 .. 3 /\ Op = Mark(Line(tag, of, c))
      BY <1>3, <3>1 DEF CopiesWell
    <3> QED BY <3>2 DEF Mark
  <2>2. tag \in TripletTags
    BY <2>1 DEF Line
  <2>3. CASE c = 1
    <3>1. CopiesTo(tag, of, 1)'
      BY <1>5, <1>6, <1>7, <2>1, <2>3 DEF CopiesTo
    <3> QED BY <3>1
  <2>4. CASE c > 1
    <3>1. recent # <<>> /\ Latest.line = Line(tag, of, c - 1)
      BY <1>2, <1>3, <1>4, <2>1, <2>2, <2>4 DEF CopyBehind
    <3>2. PICK tag2, of2, c2 : CopiesTo(tag2, of2, c2)
      <4>1. recent # <<>> /\ Latest.line.tag \in TripletTags
        BY <2>2, <3>1 DEF Line
      <4> QED BY <1>2, <4>1 DEF CopiesClaimed
    <3>3. tag2 = tag /\ of2 = of /\ c2 = c - 1
      <4>1. Latest.line = Line(tag2, of2, c2)
        BY <1>6, <3>2 DEF CopiesTo, Latest
      <4> QED BY <3>1, <4>1 DEF Line
    <3>4. c - 1 <= n /\ \A k \in 0 .. c - 2 : recent[n - k].line = Line(tag, of, c - 1 - k)
      BY <1>6, <2>1, <3>2, <3>3 DEF CopiesTo
    <3>5. c <= m
      BY <1>6, <2>1, <3>4
    <3>6. ASSUME NEW k \in 0 .. c - 1 PROVE recent'[m - k].line = Line(tag, of, c - k)
      <4>1. CASE k = 0
        BY <1>5, <1>6, <2>1, <4>1
      <4>2. CASE k # 0
        <5>1. k - 1 \in 0 .. c - 2 /\ m - k \in 1 .. m - 1 /\ (m - k) + d = n - (k - 1)
          BY <1>6, <2>1, <3>5, <4>2
        <5>2. recent'[m - k] = recent[n - (k - 1)]
          BY <1>6, <5>1
        <5>3. recent[n - (k - 1)].line = Line(tag, of, c - 1 - (k - 1))
          BY <3>4, <5>1
        <5>4. c - 1 - (k - 1) = c - k
          BY <2>1, <5>1
        <5> QED BY <5>2, <5>3, <5>4
      <4> QED BY <4>1, <4>2
    <3>7. CopiesTo(tag, of, c)'
      BY <1>6, <2>1, <3>5, <3>6 DEF CopiesTo
    <3> QED BY <3>7
  <2> QED BY <2>1, <2>3, <2>4
<1>10. ASSUME NEW i \in 1 .. n
       PROVE  /\ recent[i].off \in Nat /\ recent[i].off + MarkCells <= total
              /\ \A e, line : e = recent[i].off /\ line = recent[i].line => Whole(e, MarkCells, line)'
  <2>1. recent[i].off \in Nat /\ Whole(recent[i].off, MarkCells, recent[i].line)
    BY <1>2, <1>4, <1>6 DEF RecentWhole, GivenWhole
  <2>2. ASSUME NEW e, NEW line, e = recent[i].off /\ line = recent[i].line
        PROVE  Whole(e, MarkCells, line)'
    <3>1. e \in Nat /\ Whole(e, MarkCells, line)
      BY <2>1, <2>2
    <3> QED BY <1>1, <3>1, MarkCellsNat, WholeStays
  <2> QED BY <2>1, <2>2 DEF Whole
<1>11. ASSUME NEW i \in 1 .. m PROVE GivenWhole(i)'
  <2>1. CASE i = m
    BY <1>4, <1>5, <1>6, <2>1 DEF GivenWhole
  <2>2. CASE i # m
    <3>1. i \in 1 .. m - 1
      BY <1>6, <2>2
    <3> PICK e, line : e = recent[i + d].off /\ line = recent[i + d].line
      OBVIOUS
    <3>2. i + d \in 1 .. n /\ e = recent'[i].off /\ line = recent'[i].line
      BY <1>6, <3>1
    <3>3. e \in Nat /\ Whole(e, MarkCells, line)'
      BY <1>10, <3>2
    <3> QED BY <3>2, <3>3 DEF GivenWhole, Whole, Span
  <2> QED BY <2>1, <2>2
<1>12. InOrder'
  <2> SUFFICES ASSUME NEW i \in 1 .. m, NEW j \in 1 .. m, i < j
               PROVE  recent'[i].off + MarkCells <= recent'[j].off
    BY <1>6 DEF InOrder
  <2>1. i \in 1 .. m - 1
    BY <1>6
  <2>2. i + d \in 1 .. n /\ recent'[i] = recent[i + d]
    BY <1>6, <2>1
  <2>3. CASE j = m
    BY <1>5, <1>6, <1>10, <2>2, <2>3
  <2>4. CASE j # m
    <3>1. j \in 1 .. m - 1
      BY <1>6, <2>4
    <3>2. j + d \in 1 .. n /\ recent'[j] = recent[j + d] /\ i + d < j + d
      BY <1>6, <3>1
    <3> QED BY <1>2, <1>6, <2>2, <3>2 DEF RecentWhole, InOrder
  <2> QED BY <2>3, <2>4
<1>13. LatestWritten'
  <2>1. recent' # <<>>
    BY <1>1, ClaimedRecent
  <2> QED BY <1>4, <1>5, <1>7, <2>1 DEF LatestWritten
<1> QED BY <1>6, <1>8, <1>9, <1>11, <1>12, <1>13 DEF TripletInv, RecentWhole

(* It stores a cell of the line, not the last one ...                      *)
LEMMA TripletMiddle ==
  ASSUME TripletInv, LogInv', MarkStores, w'["boot"] # Idle
  PROVE  TripletInv'
<1>1. /\ ZoneTypeOK /\ "boot" \in Writers /\ WriterStep("boot") /\ StoreCell("boot")
      /\ Moving("boot")
  BY BootStores DEF TripletInv, LogInv
<1>2. w'["boot"] # Idle => Moving("boot")'
  <2> DEFINE c == w["boot"]
             next == IF c.done + 1 = c.n THEN Idle
                     ELSE [c EXCEPT !.done = @ + 1, !.pos = Advance(@, 1)]
  <2>1. w' = [w EXCEPT !["boot"] = next]
    BY <1>1 DEF StoreCell
  <2>2. c \in Copyings
    BY <1>1, CopyingState DEF Moving, ZoneTypeOK
  <2>3. next = Idle \/ next.st = "copying"
    BY <2>2 DEF Copyings
  <2> HIDE DEF next
  <2> QED BY <1>1, <2>1, <2>3 DEF ZoneTypeOK, Moving
<1>3. /\ Moving("boot")' = Moving("boot")
      /\ Moving("boot") => w'["boot"].off = w["boot"].off /\ w'["boot"].line = w["boot"].line
  BY <1>1, <1>2, StoreWrites DEF Moving
<1>4. UNCHANGED <<boot, recent>>
  BY DEF MarkStores
<1> QED BY <1>1, <1>3, <1>4, TripletWrites

(* ... or the last one, and the next copy is the next operation.           *)
LEMMA TripletEnds ==
  ASSUME TripletInv, LogInv', MarkStores, w'["boot"] = Idle
  PROVE  TripletInv'
<1>1. /\ CellInv /\ ZoneTypeOK /\ BootPlaced /\ "boot" \in Writers /\ WriterStep("boot")
      /\ Moving("boot") /\ boot.pc \in DOMAIN Program[boot.seg] /\ Op.op = "mark"
      /\ w["boot"].line = Op.line /\ live /\ IsList(recent)
  BY BootStores DEF TripletInv, LogInv, PowerInv, MarkStores, StoreCell
<1>2. CopyBehind /\ CopiesClaimed /\ RecentWhole
  BY <1>1 DEF TripletInv, Ours
<1>3. boot' = NextOp /\ recent' = recent /\ ~Moving("boot")'
  BY DEF MarkStores, Moving, Idle
<1>4. boot'.seg = boot.seg /\ boot'.pc = boot.pc + 1 /\ boot.pc \in Int
  BY <1>1, <1>3, NextPlace DEF BootPlaced
<1> PICK s, i : s = Program[boot.seg] /\ i = boot.pc
  OBVIOUS
<1>5. /\ CopiesWell(s) /\ i \in DOMAIN s /\ i \in Int
      /\ Op = s[i] /\ Op' = s[i + 1]
      /\ s[i].op = "mark" /\ Program[boot'.seg] = s /\ boot'.pc = i + 1
  BY <1>1, <1>4, SegmentCopies DEF BootPlaced, Op, OpAt
<1>6. recent # <<>> /\ Latest.line = Op.line /\ Latest.off = w["boot"].off /\ Latest' = Latest
  BY <1>1, <1>2, <1>3 DEF RecentWhole, LatestWritten, Latest
<1>7. CopyBehind'
  <2> SUFFICES ASSUME NEW tag \in TripletTags, NEW of, NEW c \in 2 .. 3,
                      i + 1 \in DOMAIN s, s[i + 1] = Mark(Line(tag, of, c))
               PROVE  Latest.line = Line(tag, of, c - 1)
    BY <1>3, <1>5, <1>6 DEF CopyBehind
  <2>1. s[i + 1].op = "mark" /\ s[i + 1].line = Line(tag, of, c)
    BY DEF Mark
  <2>2. Neighbours(s, i + 1)
    BY <1>5, CopyNeighbours
  <2>3. s[(i + 1) - 1] = Mark(Line(tag, of, c - 1))
    BY <2>1, <2>2 DEF Neighbours
  <2>4. (i + 1) - 1 = i
    BY <1>5
  <2>5. s[i] = Mark(Line(tag, of, c - 1))
    BY <2>3, <2>4
  <2> QED BY <1>5, <1>6, <2>5 DEF Mark
<1>8. CopiesClaimed'
  <2> SUFFICES ASSUME Latest.line.tag \in TripletTags
               PROVE  \E tag, of, c :
                        /\ CopiesTo(tag, of, c)'
                        /\ c = 3 \/ (i + 1 \in DOMAIN s /\ s[i + 1] = Mark(Line(tag, of, c + 1)))
    BY <1>5, <1>6 DEF CopiesClaimed
  <2>1. PICK tag, of, c : CopiesTo(tag, of, c)
    BY <1>2, <1>6 DEF CopiesClaimed
  <2>2. c \in 1 .. 3 /\ Latest.line = Line(tag, of, c)
    <3>1. Len(recent) \in Nat
      BY <1>1 DEF IsList
    <3> QED BY <2>1, <3>1 DEF CopiesTo, Latest
  <2>3. tag \in TripletTags
    BY <2>2 DEF Line
  <2>4. Neighbours(s, i) /\ s[i].line = Line(tag, of, c)
    BY <1>5, <1>6, <2>2, CopyNeighbours
  <2>5. c < 3 => i + 1 \in DOMAIN s /\ s[i + 1] = Mark(Line(tag, of, c + 1))
    BY <1>5, <2>3, <2>4 DEF Neighbours
  <2>6. CopiesTo(tag, of, c)'
    BY <1>3, <2>1 DEF CopiesTo
  <2> QED BY <2>2, <2>5, <2>6
<1>9. ASSUME NEW j \in DOMAIN recent PROVE GivenWhole(j)'
  <2> PICK e, line : e = recent[j].off /\ line = recent[j].line
    OBVIOUS
  <2>1. e \in Nat /\ (Whole(e, MarkCells, line) \/ j = Len(recent))
    BY <1>2 DEF RecentWhole, GivenWhole
  <2>2. Whole(e, MarkCells, line) => Whole(e, MarkCells, line)'
    BY <1>1, <2>1, MarkCellsNat, WholeStays
  <2>3. j = Len(recent) => Whole(e, MarkCells, line)'
    <3>1. j = Len(recent) => e = w["boot"].off /\ line = Op.line
      BY <1>6 DEF Latest
    <3>2. \E a, b : a = w["boot"].off /\ b = Op.line /\ Whole(a, MarkCells, b)'
      <4>1. LogInv /\ CellInv'
        BY DEF TripletInv, LogInv
      <4> QED BY <4>1, LastStoreWhole
    <3> QED BY <3>1, <3>2
  <2>4. Whole(e, MarkCells, line)'
    BY <2>1, <2>2, <2>3
  <2> QED BY <1>3, <2>1, <2>4 DEF GivenWhole, Whole, Span
<1>10. InOrder' /\ LatestWritten'
  BY <1>2, <1>3 DEF RecentWhole, InOrder, LatestWritten
<1> QED BY <1>3, <1>7, <1>8, <1>9, <1>10 DEF TripletInv, RecentWhole

LEMMA TripletCreates ==
  ASSUME TripletInv, LogInv', CreateZone
  PROVE  TripletInv'
<1>1. /\ BootPlaced /\ BootPlaced' /\ PowerInv /\ Zap /\ boot' = NextOp /\ recent' = recent
      /\ boot.pc \in DOMAIN Program[boot.seg] /\ Op.op = "create" /\ power = "up"
  BY DEF TripletInv, LogInv, CreateZone, Ready, Running
<1>2. ~Moving("boot")' /\ recent' = <<>>
  BY <1>1, ZapIdle DEF PowerInv
<1>3. GoesOn
  BY <1>1 DEF GoesOn
<1>4. CopyBehind'
  BY <1>1, <1>3, NoCopyNext
<1>5. CopiesClaimed'
  BY <1>2 DEF CopiesClaimed
<1>6. RecentWhole'
  <2>1. DOMAIN recent' = {}
    BY <1>2
  <2> QED BY <1>2, <2>1 DEF RecentWhole, InOrder, LatestWritten
<1> QED BY <1>4, <1>5, <1>6 DEF TripletInv

LEMMA TripletBoot ==
  ASSUME TripletInv, LogInv', BootThread
  PROVE  TripletInv'
<1>0. BootPlaced /\ PowerInv
  BY DEF TripletInv, LogInv
<1>1. CASE CreateZone
  BY <1>1, TripletCreates
<1>2. CASE \/ CreateFails \/ RegisterConsole \/ TakeBranch
           \/ StatementReturns \/ StatementPanics
  <2>1. /\ StillZone /\ live' = live /\ recent' = recent
        /\ boot.pc \in DOMAIN Program[boot.seg] /\ Op.op # "mark"
    BY <1>2 DEF CreateFails, RegisterConsole, TakeBranch, StatementReturns, StatementPanics,
                Ready, zoneVars, StillZone
  <2>2. GoesOn
    BY <1>2 DEF CreateFails, RegisterConsole, TakeBranch, StatementReturns, StatementPanics,
                Ready, GoesOn
  <2> QED BY <2>1, <2>2, TripletGoesOn
<1>3. CASE MarkDropped
  <2>1. ~live' /\ recent' = <<>>
    BY <1>0, <1>3 DEF MarkDropped, Ready, Running, PowerInv, zoneVars
  <2> QED BY <2>1 DEF TripletInv, Ours
<1>4. CASE MarkBegins \/ MarkClaims
  BY <1>4, TripletBegins, TripletClaims
<1>5. CASE MarkStores
  BY <1>5, TripletMiddle, TripletEnds
<1> QED BY <1>1, <1>2, <1>3, <1>4, <1>5 DEF BootThread

(* Another writer's step leaves the boot thread's write as it is.          *)
LEMMA TripletAside ==
  ASSUME TripletInv, LogInv', NEW x \in {"console", "irq"}, WriterStep(x),
         UNCHANGED <<boot, recent>>
  PROVE  TripletInv'
<1>1. x \in Writers /\ "boot" \in Writers \ {x} /\ ZoneTypeOK
  BY DEF Writers, TripletInv, LogInv, CellInv, RingInv
<1>2. w'["boot"] = w["boot"]
  BY <1>1, OthersKeep
<1>3. /\ Moving("boot")' = Moving("boot")
      /\ Moving("boot") => w'["boot"].off = w["boot"].off /\ w'["boot"].line = w["boot"].line
  BY <1>2 DEF Moving
<1> QED BY <1>1, <1>3, TripletWrites

LEMMA TripletOthers ==
  ASSUME TripletInv, LogInv', ConsoleBegins \/ ConsoleWrites \/ FirstIrq \/ IrqWrites
  PROVE  TripletInv'
<1>0. UNCHANGED <<boot, recent>>
  BY DEF ConsoleBegins, ConsoleWrites, FirstIrq, IrqWrites, bootVars
<1>1. CASE ConsoleBegins
  <2>1. texts + 1 \in 1 .. MaxTexts
    BY <1>1, RecorderAssumption DEF ConsoleBegins, BootPlaced, TripletInv, LogInv
  <2>2. TextLine(texts + 1) \in Lines
    BY <2>1, LinesAssumption DEF AllLines
  <2>3. WriterStep("console")
    BY <1>1, <2>2, RecorderAssumption DEF ConsoleBegins, WriterStep
  <2> QED BY <1>0, <2>3, TripletAside
<1>2. CASE ConsoleWrites
  BY <1>0, <1>2, TripletAside DEF ConsoleWrites, WriterStep
<1>3. CASE IrqWrites
  BY <1>0, <1>3, TripletAside DEF IrqWrites, WriterStep
<1>4. CASE FirstIrq /\ live
  <2>1. IrqLine \in Lines
    BY LinesAssumption DEF AllLines
  <2>2. WriterStep("irq")
    BY <1>4, <2>1, MarkCellsNat DEF FirstIrq, WriterStep
  <2> QED BY <1>0, <2>2, TripletAside
<1>5. CASE FirstIrq /\ ~live
  BY <1>0, <1>5, TripletStill DEF FirstIrq, zoneVars, StillZone, Ours
<1> QED BY <1>1, <1>2, <1>3, <1>4, <1>5

LEMMA TripletStep == TripletInv /\ [Next]_vars => TripletInv'
<1> SUFFICES ASSUME TripletInv, [Next]_vars PROVE TripletInv'
  OBVIOUS
<1>1. LogInv'
  BY LogStep DEF TripletInv
<1>2. CASE BootThread
  BY <1>1, <1>2, TripletBoot
<1>3. CASE ConsoleBegins \/ ConsoleWrites \/ FirstIrq \/ IrqWrites
  BY <1>1, <1>3, TripletOthers
<1>4. CASE Reset
  <2>1. StillZone /\ UNCHANGED <<boot, recent>> /\ (live' => live)
    BY <1>4 DEF Reset, HardReset, zoneVars, StillZone
  <2>2. Ours' => Ours
    BY <2>1 DEF Ours
  <2> QED BY <1>1, <2>1, <2>2, TripletStill
<1>5. CASE BootAgain
  <2>1. ~live' /\ recent' = <<>>
    BY <1>5 DEF BootAgain, zoneVars, TripletInv, LogInv, PowerInv
  <2> QED BY <1>1, <2>1 DEF TripletInv, Ours
<1>6. CASE UNCHANGED vars
  <2>1. StillZone /\ UNCHANGED <<boot, recent, live>>
    BY <1>6 DEF vars, zoneVars, bootVars, StillZone
  <2>2. Ours' => Ours
    BY <2>1 DEF Ours
  <2> QED BY <1>1, <2>1, <2>2, TripletStill
<1> QED BY <1>2, <1>3, <1>4, <1>5, <1>6 DEF Next

LEMMA TripletInit == BootInit => TripletInv
<1> SUFFICES ASSUME BootInit PROVE TripletInv
  OBVIOUS
<1>1. ~Ours
  BY DEF BootInit, ZoneInit, Ours
<1> QED BY <1>1, LogInit DEF TripletInv

------------------------------------------------------------------------------
(* A cell of a line given whole that is not there was stored over late.    *)
LEMMA SpoiltLate ==
  ASSUME CellInv, NEW e \in Nat, NEW n \in Nat, NEW line, Whole(e, n, line), ~Overtaken(e),
         NEW k \in 0 .. n - 1,
         zone.data[(e + k) % ZoneSize] # Cell(e + k, line, k + 1, n)
  PROVE  e + k \in Nat /\ Newest(e + k) /\ (e + k) % ZoneSize \in late
<1> PICK o : o = e + k
  OBVIOUS
<1>1. /\ o \in Nat /\ o \in e .. e + n - 1 /\ o - e + 1 = k + 1
      /\ total \in Nat /\ ZoneSize \in Nat
  BY ZoneSizeAssumption DEF CellInv, RingInv, ZoneTypeOK
<1>2. Newest(o)
  BY <1>1 DEF Newest, Overtaken, Whole
<1>3. \A x \in Writers : ~Holding(x, o)
  <2> SUFFICES ASSUME NEW x \in Writers, Holding(x, o) PROVE FALSE
    OBVIOUS
  <2>1. /\ Moving(x) /\ o >= w[x].off /\ o < Goal(x) /\ w[x].off \in Nat /\ Goal(x) \in Nat
    <3>1. Moving(x) /\ o \in Number(x) .. Goal(x) - 1 /\ ZoneTypeOK
      BY DEF Holding, CellInv, RingInv
    <3>2. /\ w[x].off \in Nat /\ w[x].done \in Nat /\ Number(x) \in Nat /\ Goal(x) \in Nat
          /\ Number(x) = w[x].off + w[x].done
      BY <3>1, MovingFields DEF Number
    <3> QED BY <1>1, <3>1, <3>2
  <2>2. Goal(x) <= e \/ e + n <= w[x].off
    BY <2>1 DEF Whole
  <2> QED BY <1>1, <2>1, <2>2
<1>4. ~Stored(o)
  <2> SUFFICES ASSUME Stored(o) PROVE FALSE
    OBVIOUS
  <2>1. o % ZoneSize \in Slots
    BY <1>1, Residue
  <2>2. zone.data[o % ZoneSize] = Cell(o, line, o - e + 1, n)
    BY <1>1, <2>1 DEF Stored, Whole, Span
  <2> QED BY <1>1, <2>2
<1>5. o % ZoneSize \in late
  BY <1>1, <1>2, <1>3, <1>4 DEF CellInv, RingInv, NewestKept, Accounted
<1> QED BY <1>1, <1>2, <1>5

LEMMA ThreeElements ==
  ASSUME NEW S, IsFiniteSet(S), NEW a \in S, NEW b \in S, NEW c \in S,
         a # b, a # c, b # c
  PROVE  Cardinality(S) >= 3
<1>1. /\ IsFiniteSet(S \ {a}) /\ Cardinality(S \ {a}) = Cardinality(S) - 1
      /\ Cardinality(S) \in Nat
  BY FS_RemoveElement, FS_CardinalityType
<1> PICK T : T = S \ {a}
  OBVIOUS
<1>2. /\ IsFiniteSet(T \ {b}) /\ Cardinality(T \ {b}) = Cardinality(T) - 1
      /\ Cardinality(T) \in Nat
  BY <1>1, FS_RemoveElement, FS_CardinalityType
<1> PICK U : U = T \ {b}
  OBVIOUS
<1>3. /\ Cardinality(U \ {c}) = Cardinality(U) - 1 /\ Cardinality(U) \in Nat
      /\ Cardinality(U \ {c}) \in Nat
  <2>1. IsFiniteSet(U) /\ c \in U
    BY <1>2
  <2>2. IsFiniteSet(U \ {c}) /\ Cardinality(U \ {c}) = Cardinality(U) - 1
    BY <2>1, FS_RemoveElement
  <2> QED BY <2>1, <2>2, FS_CardinalityType
<1> QED BY <1>1, <1>2, <1>3

(* Past a triplet whose copies are not lapped: had each of the three lost  *)
(* a cell, three slots would have been stored over late.                   *)
LEMMA SurvivingCopy == TripletInv => TripletSurvives
<1> DEFINE last   == recent[Len(recent)]
           copies == {i \in DOMAIN recent : SameNews(recent[i].line, last.line)}
           past   == ~Busy("boot") /\ ~(Op.op = "mark" /\ SameNews(Op.line, last.line))
<1> SUFFICES ASSUME TripletInv, recent # <<>>, last.line.tag \in TripletTags, past,
                    \A i \in copies : ~Overtaken(recent[i].off),
                    Cardinality(late) <= 2, \A i \in copies : ~CopyIntact(recent[i])
             PROVE  FALSE
  BY DEF TripletSurvives, TripletBehind, LatestCopies
<1>1. /\ CopiesClaimed /\ RecentWhole /\ IsList(recent)
      /\ CellInv /\ ZoneTypeOK /\ total \in Nat /\ MarkCells \in Nat
  BY MarkCellsNat DEF TripletInv, LogInv, Ours, PowerInv, CellInv, RingInv, ZoneTypeOK
<1>2. ~Moving("boot")
  BY DEF Moving, Busy
<1>3. PICK tag, of, c :
         /\ CopiesTo(tag, of, c)
         /\ c = 3 \/ Op = Mark(Line(tag, of, c + 1))
  BY <1>1, <1>2 DEF CopiesClaimed, Latest
<1> PICK n : n = Len(recent)
  OBVIOUS
<1>4. /\ n \in Nat /\ DOMAIN recent = 1 .. n /\ c \in 1 .. 3 /\ c <= n
      /\ \A k \in 0 .. c - 1 : recent[n - k].line = Line(tag, of, c - k)
  BY <1>1, <1>3 DEF IsList, CopiesTo
<1>5. last.line = Line(tag, of, c)
  BY <1>4
<1>6. c = 3
  <2> SUFFICES ASSUME Op = Mark(Line(tag, of, c + 1)) PROVE FALSE
    BY <1>3
  <2>1. Op.op = "mark" /\ Op.line = Line(tag, of, c + 1)
    BY DEF Mark
  <2>2. SameNews(Op.line, last.line)
    BY <1>5, <2>1 DEF SameNews, Line
  <2> QED BY <2>1, <2>2
<1>7. ASSUME NEW k \in 0 .. 2
      PROVE  \E o \in Nat :
               /\ recent[n - k].off <= o /\ o < recent[n - k].off + MarkCells
               /\ Newest(o) /\ o % ZoneSize \in late
               /\ n - k \in DOMAIN recent /\ recent[n - k].off \in Nat
  <2> PICK i : i = n - k
    OBVIOUS
  <2>1. i \in DOMAIN recent /\ recent[i].line = Line(tag, of, c - k)
    BY <1>4, <1>6
  <2>2. i \in copies
    BY <1>5, <2>1 DEF SameNews, Line
  <2> PICK e, line : e = recent[i].off /\ line = recent[i].line
    OBVIOUS
  <2>3. e \in Nat /\ Whole(e, MarkCells, line) /\ ~Overtaken(e)
    BY <1>1, <1>2, <2>1, <2>2 DEF RecentWhole, GivenWhole
  <2>4. PICK j \in 0 .. MarkCells - 1 :
           zone.data[(e + j) % ZoneSize] # Cell(e + j, line, j + 1, MarkCells)
    BY <2>2 DEF CopyIntact
  <2>5. e + j \in Nat /\ Newest(e + j) /\ (e + j) % ZoneSize \in late
    BY <1>1, <2>3, <2>4, SpoiltLate
  <2>6. e <= e + j /\ e + j < e + MarkCells
    BY <1>1, <2>3
  <2> QED BY <2>1, <2>3, <2>5, <2>6
<1> HIDE DEF last, copies, past
<1>8. PICK a \in Nat :
         /\ recent[n - 0].off <= a /\ Newest(a) /\ a % ZoneSize \in late
         /\ n - 0 \in DOMAIN recent /\ recent[n - 0].off \in Nat
  BY <1>7
<1>9. PICK b \in Nat :
         /\ recent[n - 1].off <= b /\ b < recent[n - 1].off + MarkCells
         /\ Newest(b) /\ b % ZoneSize \in late
         /\ n - 1 \in DOMAIN recent /\ recent[n - 1].off \in Nat
  BY <1>7
<1>10. PICK d \in Nat :
         /\ d < recent[n - 2].off + MarkCells
         /\ Newest(d) /\ d % ZoneSize \in late
         /\ n - 2 \in DOMAIN recent /\ recent[n - 2].off \in Nat
  BY <1>7
<1>11. /\ recent[n - 1].off + MarkCells <= recent[n - 0].off
       /\ recent[n - 2].off + MarkCells <= recent[n - 1].off
  <2>1. n - 2 < n - 1 /\ n - 1 < n - 0
    BY <1>4
  <2> QED BY <1>1, <1>8, <1>9, <1>10, <2>1 DEF RecentWhole, InOrder
<1>12. a # b /\ a # d /\ b # d
  <2>1. b < a
    BY <1>1, <1>8, <1>9, <1>11
  <2>2. d < b
    BY <1>1, <1>9, <1>10, <1>11
  <2> QED BY <2>1, <2>2
<1>13. a % ZoneSize # b % ZoneSize /\ a % ZoneSize # d % ZoneSize /\ b % ZoneSize # d % ZoneSize
  BY <1>1, <1>8, <1>9, <1>10, <1>12, NewestOnce
<1>14. IsFiniteSet(late)
  <2>1. IsFiniteSet(Slots)
    BY ZoneSizeAssumption, FS_Interval DEF Slots
  <2> QED BY <1>1, <2>1, FS_Subset DEF ZoneTypeOK
<1>15. Cardinality(late) >= 3 /\ Cardinality(late) \in Nat
  BY <1>8, <1>9, <1>10, <1>13, <1>14, ThreeElements, FS_CardinalityType
<1> QED BY <1>15

(* Once the boot thread is past a line it wrote three times, one of its    *)
(* copies can be read whole as long as the ring has not lapped it: stores  *)
(* of overtaken writers into at most two slots spoil at most two copies,   *)
(* whatever the sizes of the ring and of the lines and the program.        *)
THEOREM TripletAlwaysSurvives == Spec => []TripletSurvives
<1>1. BootInit => TripletInv
  BY TripletInit
<1>2. TripletInv /\ [Next]_vars => TripletInv'
  BY TripletStep
<1> QED BY <1>1, <1>2, SurvivingCopy, PTL DEF Spec

------------------------------------------------------------------------------
Serving == INSTANCE RecoveryExporter_proofs
  WITH Regions <- {"ramoops"}, RegionSize <- ZoneSize + 1, InitialDram <- {Blank}

LEMMA ImageRange ==
  ASSUME NEW z
  PROVE  /\ Serving!IsRange(ImageOf(z))
         /\ ImageOf(z)[1] = [start |-> z.start, size |-> z.size]
         /\ \A s \in Slots : ImageOf(z)[s + 2] = z.data[s]
<1> DEFINE head == [start |-> z.start, size |-> z.size]
           tail == [i \in 1 .. ZoneSize |-> z.data[i - 1]]
           S    == {head} \cup {z.data[i - 1] : i \in 1 .. ZoneSize}
           all  == ImageOf(z)
<1>0. ZoneSize \in Nat
  BY ZoneSizeAssumption
<1>1. <<head>> \in Seq(S) /\ Len(<<head>>) = 1 /\ <<head>>[1] = head
  OBVIOUS
<1>2. tail \in [1 .. ZoneSize -> S] /\ \A i \in 1 .. ZoneSize : tail[i] = z.data[i - 1]
  OBVIOUS
<1>4. all = <<head>> \o tail
  BY DEF ImageOf
<1> HIDE DEF head, tail, S, all
<1>3. tail \in Seq(S) /\ Len(tail) = ZoneSize
  BY <1>0, <1>2
<1>5. /\ all \in Seq(S) /\ Len(all) = ZoneSize + 1
      /\ \A i \in 1 .. ZoneSize + 1 :
           all[i] = IF i <= 1 THEN <<head>>[i] ELSE tail[i - 1]
  BY <1>0, <1>1, <1>3, <1>4, ConcatProperties
<1>6. all = [i \in 1 .. ZoneSize + 1 |-> all[i]]
  BY <1>0, <1>5
<1>7. all[1] = head
  BY <1>0, <1>1, <1>5
<1>8. ASSUME NEW s \in Slots PROVE all[s + 2] = z.data[s]
  <2>1. s + 2 \in 1 .. ZoneSize + 1 /\ ~(s + 2 <= 1) /\ s + 1 \in 1 .. ZoneSize
        /\ (s + 2) - 1 = s + 1 /\ (s + 1) - 1 = s
    BY <1>0 DEF Slots
  <2>2. all[s + 2] = tail[s + 1]
    BY <1>5, <2>1
  <2>3. tail[s + 1] = z.data[s]
    BY <1>2, <2>1
  <2> QED BY <2>2, <2>3
<1> QED BY <1>6, <1>7, <1>8 DEF Serving!IsRange, all, head

LEMMA ServingAssumptions ==
  /\ Serving!ExporterAssumption /\ Serving!DramAssumption
<1>1. ZoneSize + 1 \in Nat \ {0}
  BY ZoneSizeAssumption
<1>2. Serving!ExporterAssumption
  BY <1>1, DiagnosisAssumption DEF Serving!ExporterAssumption
<1>3. Serving!IsRange(ImageOf(ZappedZone))
  BY ImageRange
<1>4. Serving!DramAssumption
  BY <1>3 DEF Serving!DramAssumption, Serving!IsRange, Blank
<1> QED BY <1>2, <1>4

(* The exporter of the system and the one the theorems are about.          *)
LEMMA SameExporter ==
  /\ Exporter!ExporterInit => Serving!ExporterInit
  /\ Exporter!ExporterNext => Serving!ExporterNext
<1>1. Exporter!NoSnapshot = Serving!NoSnapshot /\ Exporter!Closed = Serving!Closed
  BY DEF Exporter!NoSnapshot, Serving!NoSnapshot, Exporter!Closed, Serving!Closed
<1>2. Exporter!ExporterInit => Serving!ExporterInit
  BY <1>1 DEF Exporter!ExporterInit, Serving!ExporterInit
<1>3. \A r : Exporter!Outcomes(r) = Serving!Outcomes(r)
  BY <1>1 DEF Exporter!Outcomes, Serving!Outcomes
<1>4. Exporter!SnapshotInit => Serving!SnapshotInit
  BY <1>3 DEF Exporter!SnapshotInit, Serving!SnapshotInit
<1>5. /\ Exporter!DriversStart => Serving!DriversStart
      /\ Exporter!DriverWrites => Serving!DriverWrites
      /\ Exporter!DeviceInit => Serving!DeviceInit
  BY DEF Exporter!DriversStart, Serving!DriversStart, Exporter!DriverWrites,
         Serving!DriverWrites, Exporter!DeviceInit, Serving!DeviceInit
<1>6. ASSUME NEW f \in Files
      PROVE  /\ \A r, capable : Exporter!Open(f, r, capable) => Serving!Open(f, r, capable)
             /\ Exporter!Close(f) => Serving!Close(f)
             /\ \A pos : Exporter!Seek(f, pos) => Serving!Seek(f, pos)
             /\ Exporter!ReadFaults(f) => Serving!ReadFaults(f)
             /\ Exporter!ReadEnds(f) => Serving!ReadEnds(f)
  BY <1>1 DEF Exporter!Open, Serving!Open, Exporter!Close, Serving!Close,
              Exporter!Seek, Serving!Seek, Exporter!ReadFaults, Serving!ReadFaults,
              Exporter!ReadEnds, Serving!ReadEnds
<1>7. \A f, count : Exporter!Clamped(f, count) = Serving!Clamped(f, count)
  BY DEF Exporter!Clamped, Serving!Clamped, Exporter!Min2, Serving!Min2
<1>8. ASSUME NEW f \in Files PROVE Exporter!ReadSome(f) => Serving!ReadSome(f)
  BY <1>1, <1>7 DEF Exporter!ReadSome, Serving!ReadSome,
                    Exporter!ReadCopies, Serving!ReadCopies
<1>9. Exporter!ExporterNext => Serving!ExporterNext
  BY <1>4, <1>5, <1>6, <1>8 DEF Exporter!ExporterNext, Serving!ExporterNext
<1> QED BY <1>2, <1>9

LEMMA ExporterServes ==
  /\ Exporter!ExporterInit => Serving!ServeInv
  /\ Serving!ServeInv /\ Exporter!ExporterNext => Serving!ServeInv'
  /\ Serving!ServeInv /\ UNCHANGED exporterVars => Serving!ServeInv'
<1>1. Serving!ExporterInit => Serving!ServeInv
  BY ServingAssumptions, Serving!ServeInit
<1>2. Serving!ServeInv /\ [Serving!ExporterNext]_(Serving!exporterVars) => Serving!ServeInv'
  BY ServingAssumptions, Serving!ServeStep
<1>3. UNCHANGED exporterVars => UNCHANGED Serving!exporterVars
  BY DEF exporterVars, Serving!exporterVars
<1> QED BY <1>1, <1>2, <1>3, SameExporter

------------------------------------------------------------------------------
(***************************************************************************)
(* The whole path.  Until the recovery starts the exporter has nothing;    *)
(* from then on the ring in DRAM, the writers and the boot thread stand    *)
(* still, and the range the first recovery froze is the image of the ring. *)
(***************************************************************************)
Handed ==
  /\ recoveries \in Nat
  /\ power # "recovery" => recoveries = 0
  /\ power = "recovery" => ~live /\ recoveries >= 1
  /\ recoveries = 1 => frozen["ramoops"] = ImageOf(zone)

SystemInv == LogInv /\ Handed /\ Serving!ServeInv

LEMMA RunningOnly ==
  ASSUME PowerInv, power = "recovery", ~live, [Next]_vars
  PROVE  UNCHANGED vars
BY DEF Next, BootThread, CreateZone, CreateFails, RegisterConsole, MarkDropped, MarkBegins,
       MarkClaims, MarkStores, StatementReturns, StatementPanics, TakeBranch, Ready, Running,
       ConsoleBegins, ConsoleWrites, FirstIrq, IrqWrites, Reset, BootAgain, Claim, StoreCell

LEMMA NotRecovery == ASSUME Next, power # "recovery" PROVE power' # "recovery"
BY DEF Next, BootThread, CreateZone, CreateFails, RegisterConsole, MarkDropped, MarkBegins,
       MarkClaims, MarkStores, StatementReturns, StatementPanics, TakeBranch,
       ConsoleBegins, ConsoleWrites, FirstIrq, IrqWrites, Reset, BootAgain, bootVars

LEMMA DiagnosticStep == ASSUME SystemInv, DiagnosticBoot PROVE SystemInv'
<1>1. Next /\ UNCHANGED <<exporterVars, recoveries>>
  BY DEF DiagnosticBoot
<1>2. LogInv'
  BY <1>1, LogStep DEF SystemInv
<1>3. Serving!ServeInv'
  BY <1>1, ExporterServes DEF SystemInv
<1>4. Handed'
  <2>1. CASE power = "recovery"
    <3>1. UNCHANGED vars
      BY <1>1, <2>1, RunningOnly DEF SystemInv, Handed, LogInv
    <3> QED BY <1>1, <3>1 DEF SystemInv, Handed, vars, zoneVars, bootVars, exporterVars
  <2>2. CASE power # "recovery"
    <3>1. power' # "recovery" /\ recoveries' = 0
      BY <1>1, <2>2, NotRecovery DEF SystemInv, Handed
    <3> QED BY <3>1 DEF Handed
  <2> QED BY <2>1, <2>2
<1> QED BY <1>2, <1>3, <1>4 DEF SystemInv

(* Starting the recovery touches nothing the log's invariant speaks of.    *)
LEMMA RecoveryLog ==
  ASSUME LogInv, ~live, UNCHANGED <<zoneVars, boot, console, firstIrq, texts, boots, recent, entered>>,
         power' = "recovery"
  PROVE  LogInv'
<1>1. UNCHANGED zoneVars /\ StillZone /\ live' = live
  BY DEF zoneVars, StillZone
<1>2. CellInv'
  BY <1>1, CellStep DEF LogInv
<1>3. BootPlaced' /\ PowerInv'
  BY <1>1 DEF LogInv, BootPlaced, PowerInv, zoneVars, Moving
<1> QED BY <1>1, <1>2, <1>3, StillLog DEF Ours

LEMMA StartStep ==
  ASSUME SystemInv, ~live, NEW image, StartRecovery(image),
         image = [r \in {"ramoops"} |-> image[r]], Serving!IsRange(image["ramoops"]),
         recoveries = 0 => image["ramoops"] = ImageOf(zone)
  PROVE  SystemInv'
<1>1. LogInv'
  BY RecoveryLog DEF SystemInv, StartRecovery
<1>2. Serving!NoSnapshot = Exporter!NoSnapshot /\ Serving!Closed = Exporter!Closed
  BY DEF Exporter!NoSnapshot, Serving!NoSnapshot, Exporter!Closed, Serving!Closed
<1>3. Serving!ServeInv'
  <2>1. /\ level' = "reset" /\ node' = {} /\ sought' = {}
        /\ snapshot' = [r \in {"ramoops"} |-> Serving!NoSnapshot]
        /\ error'    = [r \in {"ramoops"} |-> "ENODATA"]
        /\ file'     = [f \in Files |-> Serving!Closed]
        /\ got'      = [f \in Files |-> <<>>]
        /\ dram' = image /\ frozen' = image
    BY <1>2 DEF StartRecovery
  <2>2. dram' = [r \in {"ramoops"} |-> dram'[r]] /\ frozen' = dram'
        /\ \A r \in {"ramoops"} : Serving!IsRange(dram'[r])
    BY <2>1
  <2> QED BY <2>1, <2>2, ServingAssumptions, Serving!RestartServe
<1>4. Handed'
  <2>1. power' = "recovery" /\ ~live' /\ zone' = zone /\ frozen' = image
        /\ recoveries' = recoveries + 1 /\ recoveries \in Nat
    BY DEF StartRecovery, zoneVars, SystemInv, Handed
  <2> QED BY <2>1 DEF Handed
<1> QED BY <1>1, <1>3, <1>4 DEF SystemInv

LEMMA SystemStep == SystemInv /\ [SystemNext]_allVars => SystemInv'
<1> SUFFICES ASSUME SystemInv, [SystemNext]_allVars PROVE SystemInv'
  OBVIOUS
<1>1. CASE DiagnosticBoot
  BY <1>1, DiagnosticStep
<1>2. CASE RecoveryAfterReset
  <2> PICK image : image = [r \in {"ramoops"} |-> ImageOf(zone)]
    OBVIOUS
  <2>1. StartRecovery(image) /\ ~live
    BY <1>2 DEF RecoveryAfterReset, SystemInv, LogInv, PowerInv
  <2>2. image["ramoops"] = ImageOf(zone)
    OBVIOUS
  <2> QED BY <2>1, <2>2, ImageRange, StartStep
<1>3. CASE RecoveryAgain
  <2>1. StartRecovery(dram) /\ ~live /\ recoveries # 0
    BY <1>3 DEF RecoveryAgain, SystemInv, Handed
  <2>2. dram = [r \in {"ramoops"} |-> dram[r]] /\ Serving!IsRange(dram["ramoops"])
    BY DEF SystemInv, Serving!ServeInv, Serving!Shapes
  <2> QED BY <2>1, <2>2, StartStep
<1>4. CASE ExporterStep
  <2>1. Exporter!ExporterNext /\ UNCHANGED <<vars, recoveries>>
    BY <1>4 DEF ExporterStep
  <2>2. LogInv'
    BY <2>1, LogStep DEF SystemInv
  <2>3. frozen' = frozen
    BY <2>1 DEF Exporter!ExporterNext, Exporter!SnapshotInit, Exporter!DriversStart,
       Exporter!DriverWrites, Exporter!DeviceInit, Exporter!Open, Exporter!Close,
       Exporter!Seek, Exporter!ReadSome, Exporter!ReadCopies, Exporter!ReadFaults,
       Exporter!ReadEnds
  <2>4. Handed'
    BY <2>1, <2>3 DEF SystemInv, Handed, vars, zoneVars, bootVars
  <2>5. Serving!ServeInv'
    BY <2>1, ExporterServes DEF SystemInv
  <2> QED BY <2>2, <2>4, <2>5 DEF SystemInv
<1>5. CASE UNCHANGED allVars
  <2>1. UNCHANGED <<vars, exporterVars, recoveries>>
    BY <1>5 DEF allVars
  <2>2. LogInv'
    BY <2>1, LogStep DEF SystemInv
  <2>3. Handed'
    BY <2>1 DEF SystemInv, Handed, vars, zoneVars, bootVars, exporterVars
  <2>4. Serving!ServeInv'
    BY <2>1, ExporterServes DEF SystemInv
  <2> QED BY <2>2, <2>3, <2>4 DEF SystemInv
<1> QED BY <1>1, <1>2, <1>3, <1>4, <1>5 DEF SystemNext

THEOREM SystemInvariant == SystemSpec => []SystemInv
<1>1. Init => SystemInv
  <2>1. ASSUME Init PROVE Handed
    BY <2>1 DEF Init, BootInit, Handed
  <2> QED BY <2>1, LogInit, ExporterServes DEF Init, SystemInv
<1> QED BY <1>1, SystemStep, PTL DEF SystemSpec

LEMMA ZoneStepOfPath == SystemInv /\ [SystemNext]_allVars => [ZoneNext]_zoneVars
<1> SUFFICES ASSUME SystemInv, [SystemNext]_allVars PROVE [ZoneNext]_zoneVars
  OBVIOUS
<1>1. CASE DiagnosticBoot
  <2>1. BootPlaced /\ [Next]_vars
    BY <1>1 DEF DiagnosticBoot, SystemInv, LogInv
  <2> QED BY <2>1, ZoneStepOfBoot
<1>2. CASE RecoveryAfterReset \/ RecoveryAgain
  BY <1>2 DEF RecoveryAfterReset, RecoveryAgain, StartRecovery
<1>3. CASE ExporterStep \/ UNCHANGED allVars
  BY <1>3 DEF ExporterStep, allVars, vars
<1> QED BY <1>1, <1>2, <1>3 DEF SystemNext

(* On the whole path too the zone sees only its writers, its creation and  *)
(* the reset: no recovery, however often it is started, and no reader      *)
(* writes to the ring, so the header and the cells keep what is proved of  *)
(* them until the next diagnostic boot.                                    *)
THEOREM PathImplementsZone == SystemSpec => ZoneSpec
<1>1. Init => ZoneInit
  BY DEF Init, BootInit
<1> QED BY <1>1, SystemInvariant, ZoneStepOfPath, PTL DEF SystemSpec, ZoneSpec

(* And through the recoveries too the zone is nothing but a bounded log.   *)
THEOREM PathImplementsLog == SystemSpec => KeepsBoundedLog
BY PathImplementsZone, ZoneImplementsLog

(* A dump read in one go is the ring as the reset left it.                 *)
LEMMA DumpIsZone ==
  ASSUME SystemInv, NEW f \in Files, HasDump(f), recoveries = 1
  PROVE  ZoneOf(got[f]) = zone
<1>1. Serving!ReadsContiguous /\ Serving!OpenOverSnapshot
  BY ServingAssumptions, Serving!ServeFaithful
     DEF SystemInv, Serving!ServedFaithfully, Serving!ServeInv
<1>2. file[f] # Serving!Closed /\ f \notin sought /\ file[f].ret = 0
  BY DEF HasDump, Exporter!Closed, Serving!Closed
<1>3. file[f].region = "ramoops"
  BY <1>1, <1>2 DEF Serving!OpenOverSnapshot
<1>4. got[f] = frozen["ramoops"]
  BY <1>1, <1>2, <1>3 DEF Serving!ReadsContiguous
<1>5. got[f] = ImageOf(zone)
  BY <1>4 DEF SystemInv, Handed
<1>6. /\ got[f][1] = [start |-> zone.start, size |-> zone.size]
      /\ \A s \in Slots : got[f][s + 2] = zone.data[s]
  BY <1>5, ImageRange
<1>7. ZoneOf(got[f]) = [start |-> zone.start, size |-> zone.size,
                        data |-> [s \in Slots |-> zone.data[s]]]
  BY <1>6 DEF ZoneOf
<1>8. zone \in [start : Slots, size : 0 .. ZoneSize, data : [Slots -> Cells \cup {Stale}]]
  BY DEF SystemInv, LogInv, CellInv, RingInv, ZoneTypeOK
<1>9. zone.data = [s \in Slots |-> zone.data[s]]
  BY <1>8
<1>10. zone = [start |-> zone.start, size |-> zone.size, data |-> zone.data]
  BY <1>8
<1> QED BY <1>7, <1>9, <1>10

(* End to end: what stage 90's exporter serves after the reset names the   *)
(* initcall the boot was inside, whatever the exporter, the recovery's     *)
(* drivers and the reader do in between.                                   *)
THEOREM DumpAlwaysNames == SystemSpec => []DumpNamesInitcall
<1>1. ASSUME SystemInv PROVE DumpNamesInitcall
  <2> SUFFICES ASSUME NEW f \in Files, HasDump(f), recoveries = 1, entered # NoCall,
                      ~entered.returned, ~Overtaken(entered.off), late = {}
               PROVE  LastInitcallMark(ZoneOf(got[f]), Torn) = Line("BEGIN", entered.f, 1)
    BY DEF DumpNamesInitcall
  <2>1. ZoneIsOurs
    BY <1>1 DEF SystemInv, LogInv, PowerInv, ZoneIsOurs
  <2>2. RunningInitcallNamed
    BY <1>1, LogNamesRunning DEF SystemInv
  <2>3. ZoneOf(got[f]) = zone
    BY <1>1, DumpIsZone
  <2> QED BY <2>1, <2>2, <2>3 DEF RunningInitcallNamed
<1> QED BY <1>1, SystemInvariant, PTL

(* And it names no initcall the boot was not inside, in particular none of *)
(* an earlier boot.                                                        *)
THEOREM DumpAlwaysOfLastBoot == SystemSpec => []DumpIsOfLastBoot
<1>1. ASSUME SystemInv PROVE DumpIsOfLastBoot
  <2>1. NamedInitcallWasRunning
    BY <1>1, LogNamesNoOther DEF SystemInv
  <2>2. \A f \in Files : HasDump(f) /\ recoveries = 1 => ZoneOf(got[f]) = zone
    BY <1>1, DumpIsZone
  <2> QED BY <2>1, <2>2 DEF NamedInitcallWasRunning, DumpIsOfLastBoot
<1> QED BY <1>1, SystemInvariant, PTL

(***************************************************************************)
(* The triplets of a dump.  A slot that an overtaken writer stored into    *)
(* holds what it stored, so a copy that is intact is in the log for sure.  *)
(***************************************************************************)
LateStored == \A s \in late : zone.data[s] # Stale

LEMMA LateStoredStep == ZoneTypeOK /\ LateStored /\ [ZoneNext]_zoneVars => LateStored'
<1> SUFFICES ASSUME ZoneTypeOK, LateStored, [ZoneNext]_zoneVars PROVE LateStored'
  OBVIOUS
<1>1. ASSUME NEW x \in Writers, WriterStep(x) PROVE LateStored'
  <2>1. CASE \E line \in Lines, n \in 1 .. MaxLine : Announce(x, line, n)
    BY <2>1 DEF Announce, SizeAdd, LateStored, ZoneTypeOK
  <2>2. CASE Claim(x)
    BY <2>2 DEF Claim, StartAdd, LateStored, ZoneTypeOK
  <2>3. CASE StoreCell(x)
    <3>1. /\ zone'.data[w[x].pos] # Stale
          /\ \A s \in Slots \ {w[x].pos} : zone'.data[s] = zone.data[s]
          /\ late' \subseteq late \cup {w[x].pos}
      BY <2>3, StoreEffect
    <3> QED BY <3>1 DEF LateStored, ZoneTypeOK
  <2> QED BY <1>1, <2>1, <2>2, <2>3 DEF WriterStep
<1>2. CASE Zap
  BY <1>2 DEF Zap, LateStored
<1>3. CASE HardReset \/ UNCHANGED zoneVars
  BY <1>3 DEF HardReset, zoneVars, LateStored
<1> QED BY <1>1, <1>2, <1>3 DEF ZoneNext

LEMMA LateAlwaysStored == ZoneSpec => []LateStored
<1>1. ZoneInit => LateStored
  BY DEF ZoneInit, LateStored
<1> QED BY <1>1, LateStoredStep, ZoneTypeCorrect, PTL DEF ZoneSpec

(* The triplets' invariant holds through the recoveries too.               *)
LEMMA TripletPathStep ==
  SystemInv /\ SystemInv' /\ TripletInv /\ [SystemNext]_allVars => TripletInv'
<1> SUFFICES ASSUME SystemInv, SystemInv', TripletInv, [SystemNext]_allVars PROVE TripletInv'
  OBVIOUS
<1>1. CASE DiagnosticBoot
  BY <1>1, TripletStep DEF DiagnosticBoot
<1>2. CASE RecoveryAfterReset \/ RecoveryAgain
  <2>1. StillZone /\ UNCHANGED <<boot, recent, live>>
    BY <1>2 DEF RecoveryAfterReset, RecoveryAgain, StartRecovery, zoneVars, StillZone
  <2>2. (Ours' => Ours) /\ LogInv'
    BY <2>1 DEF Ours, SystemInv
  <2> QED BY <2>1, <2>2, TripletStill
<1>3. CASE ExporterStep \/ UNCHANGED allVars
  <2>1. UNCHANGED vars
    BY <1>3 DEF ExporterStep, allVars
  <2> QED BY <2>1, TripletStep
<1> QED BY <1>1, <1>2, <1>3 DEF SystemNext

(* Of the latest three copies written the ring keeps one, whatever the    *)
(* number of recoveries started since the boot that wrote them.            *)
THEOREM PathTriplets == SystemSpec => []TripletInv
<1>1. Init => TripletInv
  BY TripletInit DEF Init
<1> QED BY <1>1, SystemInvariant, TripletPathStep, PTL DEF SystemSpec

(* A copy of the latest triplet that the ring holds is in the log.         *)
LEMMA CopyInLog ==
  ASSUME TripletInv, LateStored, TripletBehind, NEW i \in LatestCopies, CopyIntact(recent[i])
  PROVE  \E p \in DOMAIN OldLog(zone) :
           /\ IntactAt(OldLog(zone), p)
           /\ OldLog(zone)[p].line = recent[i].line /\ OldLog(zone)[p].off = recent[i].off
<1> PICK e, line : e = recent[i].off /\ line = recent[i].line
  OBVIOUS
<1>1. ~Moving("boot") /\ recent # <<>> /\ ~Overtaken(e) /\ i \in DOMAIN recent
  BY DEF TripletBehind, Moving, Busy, LatestCopies
<1>2. CellInv /\ MarkCells \in 1 .. MaxLine /\ MarkCells \in Nat
  BY MarkCellsNat DEF TripletInv, LogInv
<1>3. e \in Nat /\ Whole(e, MarkCells, line)
  BY <1>1 DEF TripletInv, Ours, RecentWhole, GivenWhole
<1>4. ASSUME NEW k \in 0 .. MarkCells - 1
      PROVE  /\ Newest(e + k) /\ zone.data[(e + k) % ZoneSize] # Stale
             /\ zone.data[(e + k) % ZoneSize] = Cell(e + k, line, k + 1, MarkCells)
  <2> PICK o : o = e + k
    OBVIOUS
  <2>1. o \in Nat /\ Newest(o)
    <3>1. total \in Nat /\ ZoneSize \in Nat /\ e + MarkCells <= total
      BY <1>2, <1>3, SizeBounds DEF Whole
    <3> QED BY <1>1, <1>2, <1>3, <3>1 DEF Newest, Overtaken
  <2>2. zone.data[o % ZoneSize] = Cell(o, line, k + 1, MarkCells)
    BY DEF CopyIntact
  <2>3. Accounted(o)
    BY <1>2, <2>1 DEF CellInv, RingInv, NewestKept
  <2>4. \A x \in Writers : ~Holding(x, o)
    <3> SUFFICES ASSUME NEW x \in Writers, Holding(x, o) PROVE FALSE
      OBVIOUS
    <3>1. /\ Moving(x) /\ w[x].off <= o /\ o < Goal(x) /\ w[x].off \in Nat /\ Goal(x) \in Nat
      BY <1>2, <2>1, MovingFields DEF CellInv, RingInv, Holding, Number
    <3>2. Goal(x) <= e \/ e + MarkCells <= w[x].off
      BY <1>3, <3>1 DEF Whole
    <3> QED BY <1>2, <1>3, <3>1, <3>2
  <2>5. zone.data[o % ZoneSize] # Stale
    BY <2>3, <2>4 DEF Accounted, Stored, LateStored
  <2> QED BY <2>1, <2>2, <2>5
<1>5. ShownWhole(e, MarkCells, line)
  BY <1>4 DEF ShownWhole
<1> QED BY <1>2, <1>3, <1>5, ShownInLog

(* What a flight recorder's dump shows of the latest milestone.            *)
THEOREM DumpAlwaysKeepsTriplet == SystemSpec => []DumpKeepsTriplet
<1>1. ASSUME SystemInv, TripletInv, LateStored PROVE DumpKeepsTriplet
  <2> SUFFICES ASSUME NEW f \in Files, HasDump(f), recoveries = 1, TripletBehind
               PROVE  \E i \in LatestCopies, p \in DOMAIN OldLog(ZoneOf(got[f])) :
                        /\ IntactAt(OldLog(ZoneOf(got[f])), p)
                        /\ OldLog(ZoneOf(got[f]))[p].line = recent[i].line
                        /\ OldLog(ZoneOf(got[f]))[p].off = recent[i].off
    BY DEF DumpKeepsTriplet
  <2>1. PICK i \in LatestCopies : CopyIntact(recent[i])
    BY <1>1, SurvivingCopy DEF TripletSurvives
  <2>2. ZoneOf(got[f]) = zone
    BY <1>1, DumpIsZone
  <2> QED BY <1>1, <2>1, <2>2, CopyInLog
<1>2. SystemSpec => []LateStored
  BY PathImplementsZone, LateAlwaysStored
<1> QED BY <1>1, <1>2, SystemInvariant, PathTriplets, PTL

==============================================================================
