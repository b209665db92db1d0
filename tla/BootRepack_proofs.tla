--------------------------- MODULE BootRepack_proofs ---------------------------
(***************************************************************************)
(* The layout of a repacked boot image, for every page size, every source  *)
(* and every kernel and DTB: parts are laid out where parse_boot() will    *)
(* look for them, and the audit finds what was put in.  A boot loader that *)
(* counts whole pages finds the same parts (LoadInv), and only an image    *)
(* that has grown is turned down.                                          *)
(***************************************************************************)
EXTENDS BootRepack, SequenceTheorems, TLAPS

(***************************************************************************)
(* Page rounding.                                                          *)
(***************************************************************************)
Multiple(v, p) == \E k \in Nat : v = k * p

(* Division leaves a remainder below the divisor.                          *)
LEMMA Division ==
  ASSUME NEW a \in Nat, NEW p \in Nat \ {0}
  PROVE  /\ a \div p \in Nat
         /\ p * (a \div p) <= a
         /\ a < p * (a \div p) + p
  OBVIOUS

(* align() is the least multiple of the page size that is not below.       *)
LEMMA AlignIsLeast ==
  ASSUME NEW v \in Nat, NEW p \in Nat \ {0}
  PROVE  /\ Align(v, p) \in Nat
         /\ v <= Align(v, p)
         /\ Align(v, p) < v + p
         /\ Multiple(Align(v, p), p)
<1> DEFINE q == (v + p - 1) \div p
<1>1. q \in Nat /\ p * q <= v + p - 1 /\ v + p - 1 < p * q + p
  BY Division
<1>2. Align(v, p) = q * p
  BY DEF Align
<1>3. q * p = p * q /\ q * p \in Nat
  BY <1>1
<1> HIDE DEF q
<1> QED BY <1>1, <1>2, <1>3 DEF Multiple

(* Between a multiple and the next lies no other.                          *)
LEMMA MultipleUnique ==
  ASSUME NEW p \in Nat \ {0}, NEW a \in Int, NEW b \in Int,
         a * p < b * p + p, b * p < a * p + p
  PROVE  a = b
<1>1. a * p < (b + 1) * p /\ b * p < (a + 1) * p
  OBVIOUS
<1>2. CASE a > b
  <2>1. (a - (b + 1)) * p >= 0
    BY <1>2
  <2> QED BY <1>1, <2>1
<1>3. CASE b > a
  <2>1. (b - (a + 1)) * p >= 0
    BY <1>3
  <2> QED BY <1>1, <2>1
<1> QED BY <1>2, <1>3

(* Behind whole pages, rounding concerns the rest alone.                   *)
LEMMA AlignBehindPages ==
  ASSUME NEW v \in Nat, NEW u \in Nat, NEW p \in Nat \ {0}, Multiple(u, p)
  PROVE  Align(u + v, p) = u + Align(v, p) /\ Multiple(u + Align(v, p), p)
<1>1. PICK k \in Nat : u = k * p
  BY DEF Multiple
<1>2. PICK a \in Nat : Align(v, p) = a * p
  BY AlignIsLeast DEF Multiple
<1>3. u + v \in Nat
  OBVIOUS
<1>4. PICK b \in Nat : Align(u + v, p) = b * p
  BY <1>3, AlignIsLeast DEF Multiple
<1>5. u + Align(v, p) = (k + a) * p /\ k + a \in Nat
  BY <1>1, <1>2
<1>6. /\ v <= Align(v, p) /\ Align(v, p) < v + p
      /\ u + v <= Align(u + v, p) /\ Align(u + v, p) < u + v + p
      /\ Align(v, p) \in Nat /\ Align(u + v, p) \in Nat
  BY <1>3, AlignIsLeast
<1>7. b = k + a
  <2>1. b * p < (k + a) * p + p /\ (k + a) * p < b * p + p
    BY <1>4, <1>5, <1>6
  <2> QED BY <2>1, <1>5, MultipleUnique
<1> QED BY <1>4, <1>5, <1>7 DEF Multiple

(* Nothing needs no page.                                                  *)
LEMMA AlignNothing ==
  ASSUME NEW p \in Nat \ {0}
  PROVE  Align(0, p) = 0
<1>1. PICK a \in Nat : Align(0, p) = a * p
  BY AlignIsLeast DEF Multiple
<1>2. a * p < 0 * p + p /\ 0 * p < a * p + p
  BY <1>1, AlignIsLeast
<1> QED BY <1>1, <1>2, MultipleUnique

(***************************************************************************)
(* Appending a part.                                                       *)
(***************************************************************************)
(* Padding is a sequence of its length.                                    *)
LEMMA ZerosAreCells ==
  ASSUME NEW n \in Nat
  PROVE  Zeros(n) \in Seq(Cells) /\ Len(Zeros(n)) = n
BY CellAssumption DEF Zeros

(* Rounding up to a page keeps what is there and leaves whole pages.       *)
LEMMA PadKeeps ==
  ASSUME NEW body \in Seq(Cells), NEW page \in Nat \ {0}
  PROVE  /\ Pad(body, page) \in Seq(Cells)
         /\ page + Len(Pad(body, page)) = Align(page + Len(body), page)
         /\ \A x \in 1 .. Len(body) : Pad(body, page)[x] = body[x]
<1> DEFINE len == page + Len(body)
           n == Align(len, page) - len
           z == Zeros(n)
<1>1. len \in Nat /\ Len(body) \in Nat
  OBVIOUS
<1>2. Pad(body, page) = body \o z
  BY DEF Pad
<1> HIDE DEF len
<1>3. Align(len, page) \in Nat /\ len <= Align(len, page)
  BY <1>1, AlignIsLeast
<1>4. n \in Nat
  BY <1>1, <1>3
<1> HIDE DEF n
<1>5. z \in Seq(Cells) /\ Len(z) = n
  BY <1>4, ZerosAreCells
<1> HIDE DEF z
<1>6. body \o z \in Seq(Cells) /\ Len(body \o z) = Len(body) + n
  BY <1>5, ConcatProperties
<1>7. \A x \in 1 .. Len(body) : (body \o z)[x] = body[x]
  BY <1>1, <1>4, <1>5, ConcatProperties
<1>8. page + (Len(body) + n) = Align(len, page)
  BY <1>1, <1>3 DEF n, len
<1> QED BY <1>2, <1>6, <1>7, <1>8 DEF len

(* add_component() puts the part behind what is there, keeps that, and     *)
(* leaves whole pages again.                                               *)
LEMMA ComponentAdded ==
  ASSUME NEW body \in Seq(Cells), NEW page \in Nat \ {0}, NEW payload \in Seq(Cells),
         Multiple(page + Len(body), page)
  PROVE  /\ AddComponent(body, page, payload) \in Seq(Cells)
         /\ page + Len(AddComponent(body, page, payload))
              = page + Len(body) + Align(Len(payload), page)
         /\ \A x \in 1 .. Len(body) : AddComponent(body, page, payload)[x] = body[x]
         /\ \A k \in 1 .. Len(payload) :
              AddComponent(body, page, payload)[Len(body) + k] = payload[k]
<1> DEFINE both == body \o payload
<1>1. Len(body) \in Nat /\ Len(payload) \in Nat
  OBVIOUS
<1>2. /\ both \in Seq(Cells) /\ Len(both) = Len(body) + Len(payload)
      /\ \A x \in 1 .. Len(body) : both[x] = body[x]
      /\ \A k \in 1 .. Len(payload) : both[Len(body) + k] = payload[k]
  BY <1>1, ConcatProperties
<1>3. AddComponent(body, page, payload) = Pad(both, page)
  BY DEF AddComponent
<1> HIDE DEF both
<1>4. /\ Pad(both, page) \in Seq(Cells)
      /\ page + Len(Pad(both, page)) = Align(page + Len(both), page)
      /\ \A x \in 1 .. Len(both) : Pad(both, page)[x] = both[x]
  BY <1>2, PadKeeps
<1>5. page + Len(both) = (page + Len(body)) + Len(payload)
  BY <1>1, <1>2
<1>6. Align((page + Len(body)) + Len(payload), page)
        = (page + Len(body)) + Align(Len(payload), page)
  BY <1>1, AlignBehindPages
<1>7. \A x \in 1 .. Len(body) : Pad(both, page)[x] = body[x]
  BY <1>1, <1>2, <1>4
<1>8. \A k \in 1 .. Len(payload) : Pad(both, page)[Len(body) + k] = payload[k]
  BY <1>1, <1>2, <1>4
<1> QED BY <1>3, <1>4, <1>5, <1>6, <1>7, <1>8

(***************************************************************************)
(* Where the parts are.                                                    *)
(***************************************************************************)
(* The page-by-page layout: each part starts where the one before ends.    *)
Starts(parts, p) ==
  LET a1 == p  + Align(Len(parts.kernel), p)
      a2 == a1 + Align(Len(parts.ramdisk), p)
      a3 == a2 + Align(Len(parts.second), p)
      a4 == a3 + Align(Len(parts.recovery_dtbo), p)
      a5 == a4 + Align(Len(parts.dtb), p)
  IN  << p, a1, a2, a3, a4, a5 >>

ArePayloads(parts) ==
  /\ parts.kernel \in Seq(Cells) /\ parts.ramdisk \in Seq(Cells)
  /\ parts.second \in Seq(Cells) /\ parts.recovery_dtbo \in Seq(Cells)
  /\ parts.dtb \in Seq(Cells)

(* The five parts by their places.                                         *)
LEMMA PartNames ==
  /\ Len(Parts) = 5 /\ DOMAIN Parts = 1 .. 5
  /\ Parts[1] = "kernel" /\ Parts[2] = "ramdisk" /\ Parts[3] = "second"
  /\ Parts[4] = "recovery_dtbo" /\ Parts[5] = "dtb"
BY DEF Parts

(* Parts start on pages, one behind the other.                             *)
LEMMA StartsArePages ==
  ASSUME NEW parts, ArePayloads(parts), NEW p \in Nat \ {0}
  PROVE  /\ \A i \in 1 .. 6 : /\ Starts(parts, p)[i] \in Nat
                                /\ Multiple(Starts(parts, p)[i], p)
                                /\ p <= Starts(parts, p)[i]
         /\ \A i \in 1 .. 5 :
              /\ parts[Parts[i]] \in Seq(Cells)
              /\ Starts(parts, p)[i + 1] = Starts(parts, p)[i] + Align(Len(parts[Parts[i]]), p)
              /\ Starts(parts, p)[i] + Len(parts[Parts[i]]) <= Starts(parts, p)[i + 1]
<1> DEFINE s == Starts(parts, p)
           L(i) == Len(parts[Parts[i]])
<1>1. \A i \in 1 .. 5 : parts[Parts[i]] \in Seq(Cells) /\ L(i) \in Nat
  BY PartNames DEF ArePayloads
<1>2. s[1] = p /\ \A i \in 1 .. 5 : s[i + 1] = s[i] + Align(L(i), p)
  BY PartNames DEF Starts
<1>3. \A i \in 1 .. 5 : Align(L(i), p) \in Nat /\ L(i) <= Align(L(i), p)
  BY <1>1, AlignIsLeast
<1> DEFINE Fine(i) == s[i] \in Nat /\ Multiple(s[i], p) /\ p <= s[i]
<1>4. Fine(1)
  <2>1. p = 1 * p
    OBVIOUS
  <2> QED BY <1>2, <2>1 DEF Multiple
<1> HIDE DEF s, L
<1>5. ASSUME NEW i \in 1 .. 5, Fine(i)
      PROVE  Fine(i + 1)
  <2>1. Multiple(s[i] + Align(L(i), p), p)
    BY <1>1, <1>5, AlignBehindPages
  <2> QED BY <1>2, <1>3, <1>5, <2>1
<1>6. Fine(1) /\ Fine(2) /\ Fine(3) /\ Fine(4) /\ Fine(5) /\ Fine(6)
  <2>1. Fine(2)
    BY <1>4, <1>5, 1 + 1 = 2
  <2>2. Fine(3)
    BY <2>1, <1>5, 2 + 1 = 3
  <2>3. Fine(4)
    BY <2>2, <1>5, 3 + 1 = 4
  <2>4. Fine(5)
    BY <2>3, <1>5, 4 + 1 = 5
  <2>5. Fine(6)
    BY <2>4, <1>5, 5 + 1 = 6
  <2> QED BY <1>4, <2>1, <2>2, <2>3, <2>4, <2>5
<1>7. \A i \in 1 .. 6 : Fine(i)
  BY <1>6
<1>8. ASSUME NEW i \in 1 .. 5
      PROVE  s[i] + L(i) <= s[i + 1]
  <2>1. s[i + 1] = s[i] + Align(L(i), p) /\ L(i) <= Align(L(i), p)
    BY <1>2, <1>3
  <2>2. L(i) \in Nat /\ Align(L(i), p) \in Nat
    BY <1>1, <1>3
  <2>3. s[i] \in Nat
    BY <1>7
  <2> HIDE DEF Fine
  <2> QED BY <2>1, <2>2, <2>3
<1> QED BY <1>1, <1>2, <1>7, <1>8 DEF s, L

(* The starts are in order.                                                *)
LEMMA StartsGrow ==
  ASSUME NEW parts, ArePayloads(parts), NEW p \in Nat \ {0},
         NEW i \in 1 .. 6, NEW j \in 1 .. 6, i <= j
  PROVE  Starts(parts, p)[i] <= Starts(parts, p)[j]
<1> DEFINE s == Starts(parts, p)
<1>1. \A k \in 1 .. 6 : s[k] \in Nat
  BY StartsArePages
<1>2. \A k \in 1 .. 5 : s[k] <= s[k + 1]
  <2> SUFFICES ASSUME NEW k \in 1 .. 5 PROVE s[k] <= s[k + 1]
    OBVIOUS
  <2>1. s[k] + Len(parts[Parts[k]]) <= s[k + 1] /\ parts[Parts[k]] \in Seq(Cells)
    BY StartsArePages
  <2>2. s[k] \in Nat /\ s[k + 1] \in Nat
    BY <1>1
  <2> HIDE DEF s
  <2> QED BY <2>1, <2>2
<1> HIDE DEF s
<1>3. /\ s[1] <= s[2] /\ s[2] <= s[3] /\ s[3] <= s[4] /\ s[4] <= s[5] /\ s[5] <= s[6]
      /\ s[1] \in Nat /\ s[2] \in Nat /\ s[3] \in Nat /\ s[4] \in Nat /\ s[5] \in Nat
      /\ s[6] \in Nat
  BY <1>1, <1>2
<1>4. s[i] <= s[j]
  BY <1>3
<1> QED BY <1>4 DEF s

(* parse_boot() of the new header computes that layout.                    *)
LEMMA ParserAgrees ==
  ASSUME NEW h, h.page \in Nat \ {0}, NEW parts, ArePayloads(parts), NEW body
  PROVE  \A i \in 1 .. 5 :
            At(NewImage(h, parts, body))[Parts[i]] = Starts(parts, h.page)[i]
<1> DEFINE img == NewImage(h, parts, body)
           p == h.page
           s == Starts(parts, p)
<1>1. img.page = p /\ img.size = Sizes(parts) /\ img.dtboAt = NewDtboAt(h, Sizes(parts))
  BY DEF NewImage
<1>2. /\ img.size.kernel = Len(parts.kernel) /\ img.size.ramdisk = Len(parts.ramdisk)
      /\ img.size.second = Len(parts.second)
      /\ img.size.recovery_dtbo = Len(parts.recovery_dtbo)
  BY <1>1 DEF Sizes
<1>3. /\ s[1] = p
      /\ s[2] = s[1] + Align(Len(parts.kernel), p)
      /\ s[3] = s[2] + Align(Len(parts.ramdisk), p)
      /\ s[4] = s[3] + Align(Len(parts.second), p)
      /\ s[5] = s[4] + Align(Len(parts.recovery_dtbo), p)
  BY DEF Starts
<1>4. \A i \in 1 .. 5 : s[i] \in Nat /\ Multiple(s[i], p) /\ p <= s[i]
  BY StartsArePages
<1>5. Len(parts.recovery_dtbo) \in Nat
  BY DEF ArePayloads
<1> HIDE DEF s, img
<1>6. KernelAt(img) = s[1] /\ RamdiskAt(img) = s[2] /\ SecondAt(img) = s[3]
  BY <1>1, <1>2, <1>3 DEF KernelAt, RamdiskAt, SecondAt
<1>7. ComputedRecoveryAt(img) = s[4]
  BY <1>1, <1>2, <1>3, <1>6 DEF ComputedRecoveryAt
<1>8. Len(parts.recovery_dtbo) > 0 => img.dtboAt = s[4]
  <2>1. ComputedRecoveryAt([page |-> p, size |-> Sizes(parts)]) = s[4]
    BY <1>3 DEF ComputedRecoveryAt, SecondAt, RamdiskAt, KernelAt, Sizes
  <2> QED BY <1>1, <2>1 DEF NewDtboAt, Sizes
<1>9. RecoveryAt(img) = s[4]
  BY <1>2, <1>4, <1>7, <1>8 DEF RecoveryAt
<1>10. DtbAt(img) = s[5]
  <2>1. CASE Len(parts.recovery_dtbo) > 0
    <3>1. Align(s[4] + Len(parts.recovery_dtbo), p) = s[4] + Align(Len(parts.recovery_dtbo), p)
      BY <1>4, <1>5, AlignBehindPages
    <3> QED BY <1>1, <1>2, <1>3, <1>9, <2>1, <3>1 DEF DtbAt
  <2>2. CASE Len(parts.recovery_dtbo) = 0
    <3>1. Align(0, p) = 0
      BY AlignNothing
    <3> QED BY <1>2, <1>3, <1>4, <1>7, <2>2, <3>1 DEF DtbAt
  <2> QED BY <1>5, <2>1, <2>2
<1> QED BY <1>6, <1>9, <1>10, PartNames DEF At, img, s

(***************************************************************************)
(* Reading parts.                                                          *)
(***************************************************************************)
(* A slice within an image is a payload.                                   *)
LEMMA SliceIsPayload ==
  ASSUME NEW img, img.page \in Nat \ {0}, img.body \in Seq(Cells),
         NEW at \in Nat, NEW n \in Nat, img.page <= at, at + n <= Length(img)
  PROVE  Slice(img, at, n) \in Seq(Cells)
<1> DEFINE from == at - img.page + 1
           upto == at - img.page + n
<1>1. from \in Nat \ {0} /\ upto \in Nat /\ upto <= Len(img.body)
  BY DEF Length
<1>2. \A i \in from .. upto : img.body[i] \in Cells
  BY <1>1
<1> HIDE DEF from, upto
<1>3. SubSeq(img.body, from, upto) \in Seq(Cells)
  BY <1>1, <1>2, SubSeqProperties
<1> QED BY <1>3 DEF Slice, from, upto

(* The first and last position of n bytes at a, in a body of l bytes that  *)
(* begins behind a header page of p.                                       *)
LEMMA CutWithin ==
  ASSUME NEW p \in Nat \ {0}, NEW a \in Nat, NEW n \in Nat, NEW l \in Nat,
         p <= a, a + n <= p + l
  PROVE  /\ a - p + 1 \in Nat \ {0} /\ a - p + n \in Int /\ a - p + n <= l
         /\ (a - p + n) - (a - p + 1) + 1 = n
OBVIOUS

(* The k-th byte of a part that begins at a and ends within l bytes.       *)
LEMMA ByteWithin ==
  ASSUME NEW p \in Nat, NEW a \in Nat, NEW n \in Nat, NEW l \in Nat,
         p <= a, a + n <= p + l, NEW k \in 1 .. n
  PROVE  a - p + k \in 1 .. l
OBVIOUS

(* A slice that holds a payload cell by cell is that payload.              *)
LEMMA SliceFinds ==
  ASSUME NEW img, img.page \in Nat \ {0}, img.body \in Seq(Cells),
         NEW payload \in Seq(Cells), NEW at \in Nat, img.page <= at,
         at + Len(payload) <= Length(img), Holds(img, at, payload)
  PROVE  Slice(img, at, Len(payload)) = payload
<1> DEFINE n == Len(payload)
           from == at - img.page + 1
           upto == at - img.page + n
           cut == SubSeq(img.body, from, upto)
<1>1. n \in Nat /\ Len(img.body) \in Nat
  OBVIOUS
<1>2. cut = Slice(img, at, Len(payload))
  BY DEF Slice
<1>3. at + n <= img.page + Len(img.body)
  BY DEF Length
<1>4. \A k \in 1 .. n : img.body[at - img.page + k] = payload[k]
  BY DEF Holds
<1> HIDE DEF n, cut
<1>5. /\ from \in Nat \ {0} /\ upto \in Int /\ upto <= Len(img.body)
      /\ upto - from + 1 = n
  BY <1>1, <1>3, CutWithin
<1>6. \A k \in 1 .. n : img.body[from + k - 1] = payload[k]
  <2>1. \A k \in 1 .. n : from + k - 1 = at - img.page + k
    BY <1>1
  <2> QED BY <1>4, <2>1
<1> HIDE DEF from, upto
<1>7. \A i \in from .. upto : img.body[i] \in Cells
  BY <1>1, <1>5
<1> USE DEF cut
<1>8. /\ cut \in Seq(Cells)
      /\ Len(cut) = IF from <= upto THEN upto - from + 1 ELSE 0
      /\ \A i \in 1 .. upto - from + 1 : cut[i] = img.body[from + i - 1]
  BY <1>5, <1>7, SubSeqProperties
<1> HIDE DEF cut
<1>9. Len(cut) = n
  BY <1>1, <1>5, <1>8
<1>10. \A i \in 1 .. n : cut[i] = payload[i]
  BY <1>1, <1>5, <1>6, <1>8
<1>11. cut = payload
  BY <1>8, <1>9, <1>10, SeqEqual DEF n
<1> QED BY <1>2, <1>11

(* Whatever parse_boot() accepts has its five parts behind the header page *)
(* and before the end, wherever they lie.                                  *)
LEMMA SourceBounds ==
  ASSUME NEW img, IsImage(img), ~ParseRefused(img)
  PROVE  /\ img.page \in Nat \ {0} /\ img.body \in Seq(Cells)
         /\ \A i \in 1 .. 5 :
              /\ img.size[Parts[i]] \in Nat /\ At(img)[Parts[i]] \in Nat
              /\ img.page <= At(img)[Parts[i]]
              /\ At(img)[Parts[i]] + img.size[Parts[i]] <= Length(img)
<1> DEFINE p == img.page
           z == img.size
<1>1. p \in Nat \ {0} /\ img.body \in Seq(Cells)
  BY DEF IsImage, ParseRefused
<1>2. /\ z.kernel \in Nat /\ z.ramdisk \in Nat /\ z.second \in Nat
      /\ z.recovery_dtbo \in Nat /\ z.dtb \in Nat
  BY PartNames DEF IsImage
<1>3. KernelAt(img) \in Nat /\ p <= KernelAt(img)
  BY <1>1 DEF KernelAt
<1>4. /\ Align(z.kernel, p) \in Nat /\ Align(z.ramdisk, p) \in Nat
      /\ Align(z.second, p) \in Nat
  BY <1>1, <1>2, AlignIsLeast
<1>5. RamdiskAt(img) \in Nat /\ p <= RamdiskAt(img)
  BY <1>1, <1>4, <1>3 DEF RamdiskAt
<1>6. SecondAt(img) \in Nat /\ p <= SecondAt(img)
  BY <1>1, <1>4, <1>5 DEF SecondAt
<1>7. ComputedRecoveryAt(img) \in Nat /\ p <= ComputedRecoveryAt(img)
  BY <1>1, <1>4, <1>6 DEF ComputedRecoveryAt
<1>8. RecoveryAt(img) \in Nat /\ p <= RecoveryAt(img)
  BY <1>1, <1>7 DEF RecoveryAt, IsImage
<1>9. DtbAt(img) \in Nat /\ p <= DtbAt(img)
  <2>1. RecoveryAt(img) + z.recovery_dtbo \in Nat
    BY <1>2, <1>8
  <2>2. /\ Align(RecoveryAt(img) + z.recovery_dtbo, p) \in Nat
        /\ RecoveryAt(img) + z.recovery_dtbo <= Align(RecoveryAt(img) + z.recovery_dtbo, p)
    BY <1>1, <2>1, AlignIsLeast
  <2> QED BY <1>1, <1>2, <1>7, <1>8, <2>2 DEF DtbAt
<1>10. \A i \in 1 .. 5 : At(img)[Parts[i]] \in Nat /\ p <= At(img)[Parts[i]]
  BY <1>3, <1>5, <1>6, <1>8, <1>9, PartNames DEF At
<1>11. \A i \in 1 .. 5 : z[Parts[i]] \in Nat
  BY <1>2, PartNames
<1>12. ASSUME NEW i \in 1 .. 5 PROVE At(img)[Parts[i]] + z[Parts[i]] <= Length(img)
  <2>1. ~(At(img)[Parts[i]] + z[Parts[i]] > Length(img))
    BY PartNames DEF ParseRefused
  <2>2. Length(img) \in Nat
    BY <1>1 DEF Length
  <2> QED BY <1>10, <1>11, <2>1, <2>2
<1> QED BY <1>1, <1>10, <1>11, <1>12

LEMMA SourceHasParts ==
  ASSUME NEW img, IsImage(img), ~ParseRefused(img)
  PROVE  img.page \in Nat \ {0} /\ ArePayloads(Parsed(img))
<1>1. /\ img.page \in Nat \ {0} /\ img.body \in Seq(Cells)
      /\ \A i \in 1 .. 5 :
           /\ img.size[Parts[i]] \in Nat /\ At(img)[Parts[i]] \in Nat
           /\ img.page <= At(img)[Parts[i]]
           /\ At(img)[Parts[i]] + img.size[Parts[i]] <= Length(img)
  BY SourceBounds
<1>2. \A i \in 1 .. 5 : Slice(img, At(img)[Parts[i]], img.size[Parts[i]]) \in Seq(Cells)
  BY <1>1, SliceIsPayload
<1> QED BY <1>1, <1>2, PartNames DEF ArePayloads, Parsed, At

(***************************************************************************)
(* The repack, step by step.                                               *)
(***************************************************************************)
Page == job.source.page
StartsNow == Starts(NewParts, Page)

(* The first n parts are in the output, each where it belongs.             *)
Placed(n) == \A i \in 1 .. n : Holds(Image, StartsNow[i], NewParts[Parts[i]])

Building ==
  /\ ~InputsRefused
  /\ output \in Seq(Cells)

RepackInv ==
  /\ job \in Jobs
  /\ pc = "add" => /\ Building /\ added \in 0 .. 5
                   /\ Page + Len(output) = StartsNow[added + 1]
                   /\ Placed(added)
  /\ pc = "audit" => /\ Building /\ Placed(5)
                     /\ Page + Len(output) = Length(job.source)
                     /\ StartsNow[6] <= Page + Len(output)
  /\ pc = "write" => Length(Image) = Length(job.source)
  /\ pc # "audit failed"

(* What the checks of the inputs leave: five parts and a page size.        *)
LEMMA PartsAreSequences ==
  ASSUME job \in Jobs, ~InputsRefused
  PROVE  /\ Page \in Nat \ {0} /\ ArePayloads(NewParts)
         /\ job.source.body \in Seq(Cells)
<1>1. /\ IsImage(job.source) /\ job.kernel.data \in Seq(Cells)
      /\ job.dtb.data \in Seq(Cells)
  BY RepackAssumption
<1>2. ~ParseRefused(job.source)
  BY DEF InputsRefused
<1>3. Page \in Nat \ {0} /\ ArePayloads(Original)
  BY <1>1, <1>2, SourceHasParts DEF Page, Original
<1>4. ArePayloads(NewParts)
  BY <1>1, <1>3 DEF NewParts, ArePayloads, Original, Parsed
<1> QED BY <1>1, <1>3, <1>4 DEF IsImage

(* The image's fields are the source's, but for the new parts.             *)
LEMMA ImageFields ==
  /\ Image.page = Page /\ Image.body = output /\ Image.size = Sizes(NewParts)
  /\ Image.magic = job.source.magic /\ Image.version = job.source.version
  /\ Image.rest = job.source.rest /\ Image.id = BootId(NewParts)
BY DEF Image, NewImage, Page

(* Every part ends before the next one starts, and before the end.         *)
EndsWithin(i) ==
  /\ StartsNow[i] \in Nat /\ StartsNow[6] \in Nat /\ Page <= StartsNow[i]
  /\ NewParts[Parts[i]] \in Seq(Cells)
  /\ StartsNow[i] + Len(NewParts[Parts[i]]) <= StartsNow[6]

(* So no part reaches past the last page boundary.                         *)
LEMMA EachEndsWithin ==
  ASSUME Page \in Nat \ {0}, ArePayloads(NewParts), NEW i \in 1 .. 5
  PROVE  EndsWithin(i)
<1>1. i \in 1 .. 6 /\ i + 1 \in 1 .. 6 /\ 6 \in 1 .. 6 /\ i + 1 <= 6
  OBVIOUS
<1>2. /\ StartsNow[i] \in Nat /\ Page <= StartsNow[i]
      /\ StartsNow[i + 1] \in Nat /\ StartsNow[6] \in Nat
  BY <1>1, StartsArePages DEF StartsNow
<1>3. /\ NewParts[Parts[i]] \in Seq(Cells)
      /\ StartsNow[i] + Len(NewParts[Parts[i]]) <= StartsNow[i + 1]
  BY StartsArePages DEF StartsNow
<1>4. StartsNow[i + 1] <= StartsNow[6]
  BY <1>1, StartsGrow DEF StartsNow
<1>5. Len(NewParts[Parts[i]]) \in Nat
  BY <1>3
<1> QED BY <1>2, <1>3, <1>4, <1>5 DEF EndsWithin

(* Nothing is placed before the first part.                                *)
LEMMA InitRepack == Init => RepackInv
BY DEF Init, RepackInv

(* The header is written: no part is placed yet.                           *)
LEMMA HeaderKeeps ==
  ASSUME RepackInv, Header
  PROVE  RepackInv'
<1>1. job' = job /\ job \in Jobs /\ output' = <<>> /\ added' = 0 /\ pc' \in {"refused", "add"}
  BY DEF RepackInv, Header
<1>2. pc' = "add" => ~InputsRefused
  BY DEF Header
<1>3. NewParts' = NewParts /\ InputsRefused' = InputsRefused /\ Page' = Page
      /\ StartsNow' = StartsNow
  BY <1>1 DEF NewParts, InputsRefused, Original, WithDtb, Page, StartsNow
<1>4. ASSUME ~InputsRefused
      PROVE  Page + Len(<<>>) = StartsNow[1]
  <2>1. Page \in Nat \ {0}
    BY <1>1, <1>4, PartsAreSequences
  <2>2. StartsNow[1] = Page
    BY DEF StartsNow, Starts
  <2> QED BY <2>1, <2>2
<1>5. Placed(0)'
  BY DEF Placed
<1>6. pc' = "add" => Building' /\ Page' + Len(output') = StartsNow'[added' + 1] /\ Placed(added)'
  BY <1>1, <1>2, <1>3, <1>4, <1>5 DEF Building
<1>7. job' \in Jobs /\ pc' \notin {"audit", "write"} /\ pc' # "audit failed" /\ added' \in 0 .. 5
  <2>1. job' \in Jobs /\ pc' \notin {"audit", "write"} /\ pc' # "audit failed"
    BY <1>1
  <2>2. added' \in 0 .. 5
    BY <1>1
  <2> QED BY <2>1, <2>2
<1>8. pc' = "add" => /\ Building' /\ added' \in 0 .. 5
                      /\ Page' + Len(output') = StartsNow'[added' + 1] /\ Placed(added)'
  BY <1>6, <1>7
<1> HIDE DEF Page, StartsNow, Building, Placed
<1> QED BY <1>7, <1>8 DEF RepackInv

(* One part is appended: it lies where the layout wants it, and the parts  *)
(* before it are not touched.                                              *)
LEMMA AddKeeps ==
  ASSUME RepackInv, AddPart
  PROVE  RepackInv'
<1> DEFINE n == added + 1
           part == NewParts[Parts[n]]
<1>1. /\ job' = job /\ job \in Jobs /\ pc = "add" /\ pc' = "add" /\ added' = n
      /\ added \in 0 .. 4 /\ n \in 1 .. 5
      /\ output' = AddComponent(output, Image.page, part)
  BY PartNames DEF RepackInv, AddPart
<1>2. /\ Building /\ Page + Len(output) = StartsNow[n] /\ Placed(added)
  BY <1>1 DEF RepackInv
<1>3. NewParts' = NewParts /\ InputsRefused' = InputsRefused /\ Page' = Page
      /\ StartsNow' = StartsNow
  BY <1>1 DEF NewParts, InputsRefused, Original, WithDtb, Page, StartsNow
<1>4. Page \in Nat \ {0} /\ ArePayloads(NewParts) /\ output \in Seq(Cells)
  BY <1>1, <1>2, PartsAreSequences DEF Building
<1>5. /\ \A i \in 1 .. 6 : /\ StartsNow[i] \in Nat /\ Multiple(StartsNow[i], Page)
                            /\ Page <= StartsNow[i]
      /\ \A i \in 1 .. 5 :
           /\ NewParts[Parts[i]] \in Seq(Cells)
           /\ StartsNow[i + 1] = StartsNow[i] + Align(Len(NewParts[Parts[i]]), Page)
           /\ StartsNow[i] + Len(NewParts[Parts[i]]) <= StartsNow[i + 1]
  BY <1>4, StartsArePages DEF StartsNow
<1>6. part \in Seq(Cells) /\ Multiple(Page + Len(output), Page)
  <2>1. part \in Seq(Cells)
    BY <1>1, <1>5
  <2>2. Multiple(StartsNow[n], Page)
    <3>1. n \in 1 .. 6
      BY <1>1
    <3> QED BY <3>1, <1>5
  <2> QED BY <1>2, <2>1, <2>2
<1> HIDE DEF part
<1>7. /\ output' \in Seq(Cells)
      /\ Page + Len(output') = Page + Len(output) + Align(Len(part), Page)
      /\ \A x \in 1 .. Len(output) : output'[x] = output[x]
      /\ \A k \in 1 .. Len(part) : output'[Len(output) + k] = part[k]
  <2>1. output' = AddComponent(output, Page, part)
    BY <1>1, ImageFields
  <2> QED BY <1>4, <1>6, <2>1, ComponentAdded
<1>8. Page + Len(output') = StartsNow[n + 1]
  BY <1>1, <1>2, <1>5, <1>7 DEF part
<1>9. ASSUME NEW i \in 1 .. n
      PROVE  Holds(Image, StartsNow[i], NewParts[Parts[i]])'
  <2> SUFFICES ASSUME NEW k \in 1 .. Len(NewParts[Parts[i]])
               PROVE  output'[StartsNow[i] - Page + k] = NewParts[Parts[i]][k]
    BY <1>3, ImageFields DEF Holds, Image, NewImage, Page
  <2>1. CASE i = n
    <3>1. StartsNow[n] = Page + Len(output) /\ Page \in Nat /\ Len(output) \in Nat
      BY <1>2, <1>4
    <3>2. StartsNow[n] - Page = Len(output)
      BY <3>1
    <3> QED BY <1>7, <2>1, <3>2 DEF part
  <2>2. CASE i < n
    <3>1. i \in 1 .. added /\ i \in 1 .. 5 /\ i + 1 \in 1 .. 6 /\ n \in 1 .. 6 /\ i + 1 <= n
      BY <1>1, <2>2
    <3>2. output[StartsNow[i] - Page + k] = NewParts[Parts[i]][k]
      <4>1. Holds(Image, StartsNow[i], NewParts[Parts[i]])
        BY <1>2, <3>1 DEF Placed
      <4> QED BY <4>1, ImageFields DEF Holds
    <3>3. StartsNow[i + 1] <= StartsNow[n]
      BY <1>4, <3>1, StartsGrow DEF StartsNow
    <3>4. /\ StartsNow[i] \in Nat /\ StartsNow[i + 1] \in Nat /\ Page <= StartsNow[i]
          /\ NewParts[Parts[i]] \in Seq(Cells)
          /\ StartsNow[i] + Len(NewParts[Parts[i]]) <= StartsNow[i + 1]
      <4>1. i \in 1 .. 6
        BY <3>1
      <4>2. StartsNow[i] \in Nat /\ Page <= StartsNow[i]
        BY <1>5, <4>1
      <4>3. StartsNow[i + 1] \in Nat
        BY <1>5, <3>1
      <4>4. /\ NewParts[Parts[i]] \in Seq(Cells)
            /\ StartsNow[i] + Len(NewParts[Parts[i]]) <= StartsNow[i + 1]
        BY <1>5, <3>1
      <4> QED BY <4>2, <4>3, <4>4
    <3>5. StartsNow[n] = Page + Len(output)
      BY <1>2
    <3>6. Len(NewParts[Parts[i]]) \in Nat /\ Len(output) \in Nat
      BY <1>4, <3>4
    <3>7. StartsNow[i] - Page + k \in 1 .. Len(output)
      <4>1. StartsNow[i] + Len(NewParts[Parts[i]]) <= Page + Len(output)
        <5> HIDE DEF Page, StartsNow, n
        <5> QED BY <1>4, <3>3, <3>4, <3>5, <3>6
      <4> HIDE DEF Page, StartsNow
      <4> QED BY <1>4, <3>4, <3>6, <4>1, ByteWithin
    <3> QED BY <1>7, <3>2, <3>7
  <2> QED BY <1>1, <2>1, <2>2
<1>10. Placed(added)'
  BY <1>1, <1>9 DEF Placed
<1> QED BY <1>1, <1>2, <1>3, <1>7, <1>8, <1>10 DEF RepackInv, Building

(* The image is filled up to its source's length.                          *)
LEMMA FitKeeps ==
  ASSUME RepackInv, Fit
  PROVE  RepackInv'
<1> DEFINE missing == Length(job.source) - Length(Image)
<1>1. /\ job' = job /\ job \in Jobs /\ pc = "add" /\ added = 5 /\ pc' \in {"too large", "audit"}
      /\ pc' = "audit" => ~TooLarge /\ output' = output \o Zeros(missing)
  BY PartNames DEF RepackInv, Fit
<1>2. Building /\ Page + Len(output) = StartsNow[6] /\ Placed(5)
  <2>1. added + 1 = 6
    <3>1. added = 5
      BY <1>1
    <3> QED BY <3>1
  <2>2. Building /\ Page + Len(output) = StartsNow[added + 1] /\ Placed(added)
    BY <1>1 DEF RepackInv
  <2> HIDE DEF Page, StartsNow, Building
  <2> QED BY <1>1, <2>1, <2>2
<1>3. NewParts' = NewParts /\ InputsRefused' = InputsRefused /\ Page' = Page
      /\ StartsNow' = StartsNow
  BY <1>1 DEF NewParts, InputsRefused, Original, WithDtb, Page, StartsNow
<1>4. Page \in Nat \ {0} /\ ArePayloads(NewParts) /\ output \in Seq(Cells)
      /\ job.source.body \in Seq(Cells)
  BY <1>1, <1>2, PartsAreSequences DEF Building
<1> SUFFICES ASSUME pc' = "audit" PROVE RepackInv'
  BY <1>1 DEF RepackInv
<1>5. Length(Image) = Page + Len(output) /\ Length(job.source) = Page + Len(job.source.body)
  BY ImageFields DEF Length, Page
<1>6. missing \in Nat /\ Len(output) \in Nat /\ Len(output) + missing = Len(job.source.body)
  BY <1>1, <1>4, <1>5 DEF TooLarge
<1>7. Zeros(missing) \in Seq(Cells) /\ Len(Zeros(missing)) = missing
  BY <1>6, ZerosAreCells
<1>8. output' = output \o Zeros(missing)
  BY <1>1
<1> HIDE DEF missing
<1>9. /\ output' \in Seq(Cells) /\ Len(output') = Len(output) + missing
      /\ \A x \in 1 .. Len(output) : output'[x] = output[x]
  <2> DEFINE z == Zeros(missing)
  <2>1. z \in Seq(Cells) /\ Len(z) = missing /\ output' = output \o z
    BY <1>7, <1>8
  <2> HIDE DEF z
  <2>2. output \o z \in Seq(Cells) /\ Len(output \o z) = Len(output) + missing
    BY <1>4, <2>1, ConcatProperties
  <2>3. \A x \in 1 .. Len(output) : (output \o z)[x] = output[x]
    BY <1>4, <1>6, <2>1, ConcatProperties
  <2> QED BY <2>1, <2>2, <2>3
<1>10. Page + Len(output') = Length(job.source) /\ StartsNow[6] <= Page + Len(output')
  <2> DEFINE l == Len(job.source.body)
  <2>1. Page \in Nat /\ l \in Nat /\ Len(output') = l
    BY <1>4, <1>6, <1>9
  <2>2. Len(output) <= l
    BY <1>6
  <2>3. StartsNow[6] = Page + Len(output) /\ Length(job.source) = Page + l
    BY <1>2, <1>5
  <2> HIDE DEF l, Page, StartsNow
  <2> QED BY <1>6, <2>1, <2>2, <2>3
<1>11. ASSUME NEW i \in 1 .. 5
       PROVE  Holds(Image, StartsNow[i], NewParts[Parts[i]])'
  <2> SUFFICES ASSUME NEW k \in 1 .. Len(NewParts[Parts[i]])
               PROVE  output'[StartsNow[i] - Page + k] = NewParts[Parts[i]][k]
    BY <1>3, ImageFields DEF Holds, Image, NewImage, Page
  <2>1. output[StartsNow[i] - Page + k] = NewParts[Parts[i]][k]
    <3>1. Holds(Image, StartsNow[i], NewParts[Parts[i]])
      BY <1>2 DEF Placed
    <3> QED BY <3>1, ImageFields DEF Holds
  <2>2. EndsWithin(i)
    BY <1>4, EachEndsWithin
  <2>3. StartsNow[i] - Page + k \in 1 .. Len(output)
    <3>1. /\ StartsNow[i] \in Nat /\ Page <= StartsNow[i]
          /\ NewParts[Parts[i]] \in Seq(Cells)
          /\ StartsNow[i] + Len(NewParts[Parts[i]]) <= Page + Len(output)
      BY <1>2, <2>2 DEF EndsWithin
    <3>2. Len(NewParts[Parts[i]]) \in Nat
      BY <3>1
    <3> HIDE DEF Page, StartsNow
    <3> QED BY <1>4, <1>6, <3>1, <3>2, ByteWithin
  <2> QED BY <1>9, <2>1, <2>3
<1>12. Placed(5)'
  BY <1>11 DEF Placed
<1>13. Building'
  BY <1>2, <1>3, <1>9 DEF Building
<1>14. Length(job.source)' = Length(job.source) /\ job' \in Jobs
  BY <1>1
<1> HIDE DEF Page, StartsNow, Building, Placed
<1> QED BY <1>3, <1>10, <1>12, <1>13, <1>14 DEF RepackInv

(* The audit reads the image again and finds what was put in.              *)
LEMMA AuditPassesStep ==
  ASSUME RepackInv, pc = "audit"
  PROVE  ~AuditFails
<1>1. /\ job \in Jobs /\ Building /\ Placed(5)
      /\ Page + Len(output) = Length(job.source) /\ StartsNow[6] <= Page + Len(output)
  BY DEF RepackInv
<1>2. Page \in Nat \ {0} /\ ArePayloads(NewParts) /\ output \in Seq(Cells)
  BY <1>1, PartsAreSequences DEF Building
<1>3. ~ParseRefused(job.source)
  BY <1>1 DEF Building, InputsRefused
<1>4. Length(Image) = Page + Len(output) /\ Length(Image) \in Nat
  BY <1>2, ImageFields DEF Length
<1>5. \A i \in 1 .. 5 : At(Image)[Parts[i]] = StartsNow[i]
  BY <1>2, ParserAgrees DEF Image, Page, StartsNow
<1>6. \A i \in 1 .. 5 : Image.size[Parts[i]] = Len(NewParts[Parts[i]])
  BY ImageFields, PartNames DEF Sizes
<1>7. \A i \in 1 .. 5 : EndsWithin(i)
  BY <1>2, EachEndsWithin
<1>8. ASSUME NEW i \in 1 .. 5
      PROVE  /\ StartsNow[i] \in Nat /\ Page <= StartsNow[i]
             /\ NewParts[Parts[i]] \in Seq(Cells)
             /\ StartsNow[i] + Len(NewParts[Parts[i]]) <= Length(Image)
  <2>1. EndsWithin(i)
    BY <1>7
  <2> QED BY <1>1, <1>2, <1>4, <2>1 DEF EndsWithin
<1>9. ~ParseRefused(Image)
  <2>1. ASSUME NEW i \in 1 .. 5
        PROVE  ~(At(Image)[Parts[i]] + Image.size[Parts[i]] > Length(Image))
    <3>1. At(Image)[Parts[i]] + Image.size[Parts[i]] <= Length(Image)
      BY <1>5, <1>6, <1>8
    <3>2. At(Image)[Parts[i]] + Image.size[Parts[i]] \in Nat
      <4>1. StartsNow[i] \in Nat /\ NewParts[Parts[i]] \in Seq(Cells)
        BY <1>8
      <4>2. Len(NewParts[Parts[i]]) \in Nat
        BY <4>1
      <4>3. StartsNow[i] + Len(NewParts[Parts[i]]) \in Nat
        BY <4>1, <4>2
      <4> QED BY <1>5, <1>6, <4>3
    <3> QED BY <1>4, <3>1, <3>2
  <2> QED BY <1>2, <1>3, <2>1, ImageFields, PartNames DEF ParseRefused, Page
<1>10. ASSUME NEW i \in 1 .. 5
       PROVE  Slice(Image, At(Image)[Parts[i]], Image.size[Parts[i]]) = NewParts[Parts[i]]
  <2>1. Holds(Image, StartsNow[i], NewParts[Parts[i]])
    BY <1>1 DEF Placed
  <2>2. Image.page \in Nat \ {0} /\ Image.body \in Seq(Cells) /\ Image.page <= StartsNow[i]
    BY <1>2, <1>8, ImageFields
  <2>3. Slice(Image, StartsNow[i], Len(NewParts[Parts[i]])) = NewParts[Parts[i]]
    BY <1>8, <2>1, <2>2, SliceFinds
  <2> QED BY <1>5, <1>6, <2>3
<1>11. Parsed(Image) = NewParts
  <2>1. /\ Parsed(Image).kernel = NewParts.kernel
        /\ Parsed(Image).ramdisk = NewParts.ramdisk
        /\ Parsed(Image).second = NewParts.second
        /\ Parsed(Image).recovery_dtbo = NewParts.recovery_dtbo
        /\ Parsed(Image).dtb = NewParts.dtb
    BY <1>10, PartNames DEF Parsed, At
  <2> QED BY <2>1 DEF Parsed, NewParts, Original
<1>12. Length(Image) = Length(job.source)
  BY <1>1, <1>4
<1> QED BY <1>9, <1>11, <1>12, ImageFields DEF AuditFails, Page

(* The audit passes, so the image that is written is as long as its source.*)
LEMMA AuditKeeps ==
  ASSUME RepackInv, Audit
  PROVE  RepackInv'
<1>1. ~AuditFails
  BY AuditPassesStep DEF Audit
<1>2. pc' = "write" /\ job' = job /\ output' = output /\ job \in Jobs
  BY <1>1 DEF Audit, RepackInv
<1>3. Length(Image) = Length(job.source)
  BY <1>1 DEF AuditFails
<1>4. Image' = Image
  BY <1>2 DEF Image, NewParts, Original, WithDtb
<1>5. (Length(Image) = Length(job.source))'
  BY <1>2, <1>3, <1>4
<1> QED BY <1>2, <1>5 DEF RepackInv

(* Every other step leaves the job alone or begins another.                *)
LEMMA RepackStep ==
  ASSUME RepackInv, [Next]_vars
  PROVE  RepackInv'
<1>1. CASE Header
  BY <1>1, HeaderKeeps
<1>2. CASE AddPart
  BY <1>2, AddKeeps
<1>3. CASE Fit
  BY <1>3, FitKeeps
<1>4. CASE Audit
  BY <1>4, AuditKeeps
<1>5. CASE Validate \/ WriteOutput \/ Killed \/ NextJob
  <2>1. job' \in Jobs /\ pc' \in {"repack", "refused", "written", "killed", "validate"}
    BY <1>5 DEF RepackInv, Validate, WriteOutput, Killed, NextJob
  <2> QED BY <2>1 DEF RepackInv
<1>6. CASE Package \/ StartInstall \/ DdChunk \/ DdFails \/ Success \/ PowerCut \/ UNCHANGED vars
  <2>1. UNCHANGED repackVars
    BY <1>6 DEF Package, StartInstall, DdChunk, DdFails, Success, PowerCut, vars
  <2>2. UNCHANGED <<job, pc, output, added>>
    BY <2>1 DEF repackVars
  <2> QED BY <2>2 DEF RepackInv, Building, Placed, StartsNow, Page, NewParts, InputsRefused,
                      Original, WithDtb, Image
<1> QED BY <1>1, <1>2, <1>3, <1>4, <1>5, <1>6 DEF Next, Repack

(* Whatever source parse_boot() accepts, whatever the sizes of the kernel  *)
(* and the DTB that replace its own, and whatever the page size: the audit *)
(* of scripts 38 and 76 finds every part where the header says it is.      *)
THEOREM AuditNeverFails == Spec => []AuditPasses
<1>1. RepackInv => AuditPasses
  BY DEF RepackInv, AuditPasses
<1> QED BY <1>1, InitRepack, RepackStep, PTL DEF Spec

(***************************************************************************)
(* The package and the partition.                                          *)
(***************************************************************************)
WholeIfFull(f) == f # NoFile /\ f.bytes = PartitionBytes => Length(f.img) = PartitionBytes

FlashInv ==
  /\ WholeIfFull(file)
  /\ WholeIfFull(zip) /\ (zip # NoFile => zip.bytes = PartitionBytes)
  /\ inst \in {"idle", "dd", "ok", "error"}
  /\ inst \in {"dd", "ok"} => Length(tmp.img) = PartitionBytes
  /\ DOMAIN partition = Chunks
  /\ inst = "dd" => /\ written \in Nat
                   /\ \A c \in Chunks : c < written => partition[c] = ChunkOf(tmp.img, c)
  /\ inst = "ok" => \A c \in Chunks : partition[c] = ChunkOf(tmp.img, c)
  /\ inst \in {"dd", "error"} /\ written = 0 => partition = before

(* At first there is no package, and the partition is old.                 *)
LEMMA InitFlash == Init => FlashInv
BY DEF Init, FlashInv, WholeIfFull, Old

(* A file of the partition's size is whole: a repack that is killed leaves *)
(* a shorter one.                                                          *)
LEMMA FileIsWhole ==
  ASSUME RepackInv, WholeIfFull(file), Repack
  PROVE  WholeIfFull(file)'
<1>1. CASE WriteOutput
  BY <1>1 DEF WriteOutput, WholeIfFull
<1>2. CASE Killed
  <2>1. job \in Jobs /\ Length(Image) = Length(job.source)
    BY <1>2 DEF Killed, RepackInv
  <2>2. Length(job.source) <= PartitionBytes /\ IsImage(job.source)
    BY <2>1, RepackAssumption
  <2>3. Length(job.source) \in Int
    BY <2>2 DEF IsImage, Length
  <2>4. PICK n \in 0 .. Length(Image) - 1 : file' = [img |-> Image, bytes |-> n, job |-> job]
    BY <1>2 DEF Killed
  <2>5. n # PartitionBytes
    BY <2>1, <2>2, <2>3, <2>4, RepackAssumption
  <2>6. file'.bytes = n
    BY <2>4
  <2> QED BY <2>5, <2>6 DEF WholeIfFull
<1>3. CASE Validate \/ Header \/ AddPart \/ Fit \/ Audit \/ NextJob
  <2>1. file' = file
    BY <1>3 DEF Validate, Header, AddPart, Fit, Audit, NextJob
  <2> QED BY <2>1 DEF WholeIfFull
<1> QED BY <1>1, <1>2, <1>3 DEF Repack

(* Every step keeps what is known of the package and of the partition.     *)
LEMMA FlashStep ==
  ASSUME RepackInv, FlashInv, [Next]_vars
  PROVE  FlashInv'
<1>1. CASE Repack
  <2>1. WholeIfFull(file)'
    BY <1>1, FileIsWhole DEF FlashInv
  <2>2. UNCHANGED <<zip, inst, tmp, written, partition, before>>
    BY <1>1 DEF Repack, Validate, Header, AddPart, Fit, Audit, WriteOutput, Killed, NextJob, deviceVars
  <2> QED BY <2>1, <2>2 DEF FlashInv, WholeIfFull
<1>2. CASE Package
  BY <1>2 DEF Package, FlashInv, WholeIfFull, deviceVars
<1>3. CASE StartInstall
  <2>1. /\ zip # NoFile /\ inst' \in {"dd", "error"} /\ UNCHANGED <<file, zip, partition>>
        /\ tmp' = zip /\ written' = 0 /\ before' = partition
    BY <1>3 DEF StartInstall
  <2>2. Length(zip.img) = PartitionBytes
    BY <2>1 DEF FlashInv, WholeIfFull
  <2>3. \A c \in Chunks : ~(c < 0)
    BY DEF Chunks
  <2> QED BY <2>1, <2>2, <2>3 DEF FlashInv, WholeIfFull
<1>4. CASE DdChunk
  <2>1. /\ inst = "dd" /\ inst' = "dd" /\ written' = written + 1 /\ written \in Nat
        /\ UNCHANGED <<file, zip, tmp, before>>
        /\ partition' = [partition EXCEPT ![written] = ChunkOf(tmp.img, written)]
    BY <1>4 DEF DdChunk, FlashInv
  <2>2. DOMAIN partition' = Chunks
    BY <2>1 DEF FlashInv
  <2>3. ASSUME NEW c \in Chunks, c < written + 1
        PROVE  partition'[c] = ChunkOf(tmp.img, c)
    <3>1. CASE c = written
      BY <2>1, <3>1 DEF FlashInv
    <3>2. CASE c # written
      <4>1. c < written
        BY <2>1, <2>3, <3>2 DEF Chunks
      <4>2. partition'[c] = partition[c]
        BY <2>1, <3>2 DEF FlashInv
      <4> QED BY <2>1, <4>1, <4>2 DEF FlashInv
    <3> QED BY <3>1, <3>2
  <2>4. written' \in Nat /\ written' # 0
    BY <2>1
  <2> QED BY <2>1, <2>2, <2>3, <2>4 DEF FlashInv, WholeIfFull
<1>5. CASE Success
  <2>1. \A c \in Chunks : c < written
    <3>1. NumChunks \in Int
      BY RepackAssumption DEF NumChunks
    <3> QED BY <1>5, <3>1 DEF Success, Chunks
  <2> QED BY <1>5, <2>1 DEF Success, FlashInv, WholeIfFull
<1>6. CASE DdFails \/ PowerCut
  BY <1>6 DEF DdFails, PowerCut, FlashInv, WholeIfFull
<1>7. CASE UNCHANGED vars
  BY <1>7 DEF vars, deviceVars, FlashInv, WholeIfFull
<1> QED BY <1>1, <1>2, <1>3, <1>4, <1>5, <1>6, <1>7 DEF Next

(* Whatever was killed, torn or cut short before: when the installer says  *)
(* it has flashed the image, the partition holds that whole image, and an  *)
(* error before dd has left the partition as it was.                       *)
THEOREM SuccessIsWhole == Spec => []SuccessMeansWhole
<1>1. FlashInv => SuccessMeansWhole
  BY DEF FlashInv, SuccessMeansWhole
<1>2. Init => RepackInv /\ FlashInv
  BY InitRepack, InitFlash
<1>3. RepackInv /\ FlashInv /\ [Next]_vars => (RepackInv /\ FlashInv)'
  BY RepackStep, FlashStep
<1> QED BY <1>1, <1>2, <1>3, PTL DEF Spec

(***************************************************************************)
(* What the boot loader finds.  It counts pages, so its arithmetic has to  *)
(* be shown to be parse_boot()'s; and the parts the scripts take out of    *)
(* the source have to be those it was made of.                             *)
(***************************************************************************)
(* The pages of a part are what align() makes of its size.                 *)
LEMMA PagesAlign ==
  ASSUME NEW n \in Nat, NEW p \in Nat \ {0}
  PROVE  PagesFor(n, p) \in Nat /\ PagesFor(n, p) * p = Align(n, p)
<1> DEFINE Fits(k) == k * p >= n /\ (k - 1) * p < n
<1>1. PICK a \in Nat : Align(n, p) = a * p
  BY AlignIsLeast DEF Multiple
<1>2. a * p >= n /\ a * p < n + p
  BY <1>1, AlignIsLeast
<1>3. (a - 1) * p = a * p - p
  OBVIOUS
<1>4. a <= n
  <2> SUFFICES ASSUME a > n PROVE FALSE
    OBVIOUS
  <2>1. (a - 1 - n) * p >= 0
    OBVIOUS
  <2>2. n * (p - 1) >= 0
    OBVIOUS
  <2>3. (a - 1) * p >= n
    BY <2>1, <2>2
  <2> QED
    BY <1>2, <1>3, <2>3
<1>5. a \in 0 .. n /\ Fits(a)
  BY <1>2, <1>3, <1>4
<1>6. PagesFor(n, p) \in 0 .. n /\ Fits(PagesFor(n, p))
  BY <1>5 DEF PagesFor
<1>7. PICK b \in 0 .. n : b = PagesFor(n, p) /\ b * p >= n /\ (b - 1) * p < n
  BY <1>6
<1>8. (b - 1) * p = b * p - p
  OBVIOUS
<1>9. b * p < a * p + p /\ a * p < b * p + p
  BY <1>2, <1>7, <1>8
<1>10. a = b
  BY <1>9, MultipleUnique
<1> QED
  BY <1>1, <1>7, <1>10

LEMMA SumOfPages ==
  ASSUME NEW p \in Nat, NEW m \in Nat, NEW n \in Nat
  PROVE  (m + n) * p = m * p + n * p
  OBVIOUS

(* The loader's pages are where the layout puts the parts.                 *)
LEMMA LoaderAgrees ==
  ASSUME NEW parts, ArePayloads(parts), NEW p \in Nat \ {0}
  PROVE  \A i \in 1 .. 5 : FirstPages(parts, p)[i] * p = Starts(parts, p)[i]
<1> DEFINE pages(q) == PagesFor(Len(parts[q]), p)
<1>1. PICK a, b, c, d :
        /\ a = pages("kernel") /\ b = pages("ramdisk")
        /\ c = pages("second") /\ d = pages("recovery_dtbo")
  OBVIOUS
<1>2. /\ a \in Nat /\ a * p = Align(Len(parts.kernel), p)
      /\ b \in Nat /\ b * p = Align(Len(parts.ramdisk), p)
      /\ c \in Nat /\ c * p = Align(Len(parts.second), p)
      /\ d \in Nat /\ d * p = Align(Len(parts.recovery_dtbo), p)
  <2>1. /\ Len(parts["kernel"]) \in Nat /\ Len(parts["ramdisk"]) \in Nat
        /\ Len(parts["second"]) \in Nat /\ Len(parts["recovery_dtbo"]) \in Nat
    BY DEF ArePayloads
  <2> QED
    BY <1>1, <2>1, PagesAlign
<1>3. FirstPages(parts, p) = << 1, 1 + a, 1 + a + b, 1 + a + b + c, 1 + a + b + c + d >>
  BY <1>1 DEF FirstPages
<1>4. /\ 1 * p = p
      /\ (1 + a) * p = 1 * p + a * p
      /\ (1 + a + b) * p = (1 + a) * p + b * p
      /\ (1 + a + b + c) * p = (1 + a + b) * p + c * p
      /\ (1 + a + b + c + d) * p = (1 + a + b + c) * p + d * p
  BY <1>2, SumOfPages
<1>5. /\ Starts(parts, p)[1] = p
      /\ Starts(parts, p)[2] = p + a * p
      /\ Starts(parts, p)[3] = p + a * p + b * p
      /\ Starts(parts, p)[4] = p + a * p + b * p + c * p
      /\ Starts(parts, p)[5] = p + a * p + b * p + c * p + d * p
  BY <1>2 DEF Starts
<1>6. /\ (1 + a) * p = p + a * p
      /\ (1 + a + b) * p = p + a * p + b * p
      /\ (1 + a + b + c) * p = p + a * p + b * p + c * p
      /\ (1 + a + b + c + d) * p = p + a * p + b * p + c * p + d * p
  BY <1>2, <1>4
<1>7. /\ FirstPages(parts, p)[1] = 1 /\ FirstPages(parts, p)[2] = 1 + a
      /\ FirstPages(parts, p)[3] = 1 + a + b /\ FirstPages(parts, p)[4] = 1 + a + b + c
      /\ FirstPages(parts, p)[5] = 1 + a + b + c + d
  BY <1>3
<1> DEFINE Agrees(i) == FirstPages(parts, p)[i] * p = Starts(parts, p)[i]
<1>8. Agrees(1) /\ Agrees(2) /\ Agrees(3) /\ Agrees(4) /\ Agrees(5)
  BY <1>4, <1>5, <1>6, <1>7
<1> HIDE DEF Agrees
<1>9. \A i \in 1 .. 5 : Agrees(i)
  BY <1>8
<1> QED
  BY <1>9 DEF Agrees

LEMMA AlignMonotone ==
  ASSUME NEW u \in Nat, NEW v \in Nat, NEW p \in Nat \ {0}, u <= v
  PROVE  Align(u, p) <= Align(v, p)
<1>1. PICK a \in Nat : Align(u, p) = a * p
  BY AlignIsLeast DEF Multiple
<1>2. PICK b \in Nat : Align(v, p) = b * p
  BY AlignIsLeast DEF Multiple
<1>3. a * p < b * p + p
  <2>1. Align(u, p) < u + p /\ v <= Align(v, p)
    BY AlignIsLeast
  <2>2. Align(u, p) \in Nat /\ Align(v, p) \in Nat
    BY AlignIsLeast
  <2>3. Align(u, p) < Align(v, p) + p
    BY <2>1, <2>2
  <2> QED
    BY <1>1, <1>2, <2>3
<1> SUFFICES ASSUME a > b PROVE FALSE
  <2>1. CASE a <= b
    <3>1. (b - a) * p >= 0
      BY <2>1
    <3> QED
      BY <1>1, <1>2, <3>1
  <2> QED
    BY <2>1
<1>4. (a - (b + 1)) * p >= 0
  OBVIOUS
<1> QED
  BY <1>3, <1>4

(* Fewer pages are less room.                                              *)
LEMMA PagesRoom ==
  ASSUME NEW m \in Nat, NEW n \in Nat, NEW p \in Nat \ {0},
         ~(PagesFor(m, p) > PagesFor(n, p))
  PROVE  Align(m, p) <= Align(n, p)
<1>1. PICK a \in Nat : a = PagesFor(m, p) /\ a * p = Align(m, p)
  BY PagesAlign
<1>2. PICK b \in Nat : b = PagesFor(n, p) /\ b * p = Align(n, p)
  BY PagesAlign
<1>3. (b - a) * p >= 0
  BY <1>1, <1>2
<1> QED
  BY <1>1, <1>2, <1>3

(* What begins on a page and fits before the end of one has its pages.     *)
LEMMA PagesBetween ==
  ASSUME NEW u \in Nat, NEW n \in Nat, NEW v \in Nat, NEW p \in Nat \ {0},
         Multiple(u, p), Multiple(v, p), u + n <= v
  PROVE  u + Align(n, p) <= v
<1>1. Align(u + n, p) = u + Align(n, p)
  BY AlignBehindPages
<1>2. Align(v + 0, p) = v + Align(0, p)
  BY AlignBehindPages
<1>3. Align(u + n, p) <= Align(v, p)
  BY AlignMonotone
<1> QED
  BY <1>1, <1>2, <1>3, AlignNothing

(* parse_boot() reads the parts a source was made of, and leaves its DTB   *)
(* no less room than the layout of those parts would.                      *)
LEMMA SourceRead ==
  ASSUME NEW img, IsImage(img), ~ParseRefused(img),
         NEW parts \in PartTypes, MadeOf(img, parts)
  PROVE  /\ Parsed(img) = parts /\ ArePayloads(parts)
         /\ Starts(parts, img.page)[5] <= DtbAt(img)
         /\ Multiple(DtbAt(img), img.page) /\ DtbAt(img) \in Nat
         /\ DtbAt(img) + Len(parts.dtb) <= Length(img)
<1> DEFINE p == img.page
           s == Starts(parts, p)
           named == parts.recovery_dtbo # <<>> /\ img.dtboAt > 0
           recovery == IF named THEN img.dtboAt ELSE FirstPages(parts, p)[4] * p
           n == Len(parts.recovery_dtbo)
<1>1. ArePayloads(parts)
  BY DEF PartTypes, ArePayloads
<1>2. /\ p \in Nat \ {0} /\ img.body \in Seq(Cells)
      /\ \A i \in 1 .. 5 :
           /\ img.size[Parts[i]] \in Nat /\ At(img)[Parts[i]] \in Nat
           /\ p <= At(img)[Parts[i]]
           /\ At(img)[Parts[i]] + img.size[Parts[i]] <= Length(img)
  BY SourceBounds
<1>3. /\ img.size = Sizes(parts) /\ recovery >= FirstPages(parts, p)[4] * p
      /\ \A i \in 1 .. 3 : Holds(img, FirstPages(parts, p)[i] * p, parts[Parts[i]])
      /\ Holds(img, recovery, parts.recovery_dtbo)
      /\ Holds(img, PagesFor(recovery + n, p) * p, parts.dtb)
  BY DEF MadeOf
<1>4. \A i \in 1 .. 5 : FirstPages(parts, p)[i] * p = s[i]
  BY <1>1, <1>2, LoaderAgrees
<1>5. /\ img.size.kernel = Len(parts.kernel) /\ img.size.ramdisk = Len(parts.ramdisk)
      /\ img.size.second = Len(parts.second) /\ img.size.recovery_dtbo = n
      /\ img.size.dtb = Len(parts.dtb)
  BY <1>3 DEF Sizes
<1>6. /\ s[1] = p
      /\ s[2] = s[1] + Align(Len(parts.kernel), p)
      /\ s[3] = s[2] + Align(Len(parts.ramdisk), p)
      /\ s[4] = s[3] + Align(Len(parts.second), p)
      /\ s[5] = s[4] + Align(n, p)
  BY DEF Starts
<1>p. p \in Nat \ {0}
  BY <1>2
<1>7. \A i \in 1 .. 5 : s[i] \in Nat /\ Multiple(s[i], p) /\ p <= s[i]
  <2> HIDE DEF p
  <2>1. \A i \in 1 .. 6 : s[i] \in Nat /\ Multiple(s[i], p) /\ p <= s[i]
    BY <1>1, <1>p, StartsArePages
  <2> QED
    BY <2>1
<1>8. n \in Nat /\ (n > 0 <=> parts.recovery_dtbo # <<>>)
  BY <1>1 DEF ArePayloads
<1> HIDE DEF s, p, n, named, recovery
<1>9. KernelAt(img) = s[1] /\ RamdiskAt(img) = s[2] /\ SecondAt(img) = s[3]
      /\ ComputedRecoveryAt(img) = s[4]
  BY <1>5, <1>6 DEF KernelAt, RamdiskAt, SecondAt, ComputedRecoveryAt, p
<1>10. RecoveryAt(img) = recovery /\ (n = 0 => recovery = s[4]) /\ recovery >= s[4]
  BY <1>3, <1>4, <1>5, <1>8, <1>9 DEF RecoveryAt, recovery, named
<1>11. recovery \in Nat
  BY <1>2, <1>10, PartNames DEF At
<1>12. PagesFor(recovery + n, p) * p = Align(recovery + n, p)
  <2>1. recovery + n \in Nat
    BY <1>8, <1>11
  <2> QED
    BY <1>p, <2>1, PagesAlign
<1>13. DtbAt(img) = Align(recovery + n, p)
  <2>1. CASE n > 0
    BY <1>5, <1>10, <2>1 DEF DtbAt, p
  <2>2. CASE n = 0
    <3>1. Align(s[4] + 0, p) = s[4] + Align(0, p) /\ Align(0, p) = 0 /\ s[4] + 0 = s[4]
      BY <1>p, <1>7, AlignBehindPages, AlignNothing
    <3> QED
      BY <1>5, <1>7, <1>9, <1>10, <2>2, <3>1 DEF DtbAt
  <2> QED
    BY <1>8, <2>1, <2>2
<1>14. Multiple(DtbAt(img), p) /\ DtbAt(img) \in Nat
  <2>1. recovery + n \in Nat
    BY <1>8, <1>11
  <2> QED
    BY <1>p, <1>13, <2>1, AlignIsLeast
<1>15. s[5] <= DtbAt(img)
  <2>0. s[4] \in Nat /\ Multiple(s[4], p)
    BY <1>7
  <2>1. Align(s[4] + n, p) = s[4] + Align(n, p)
    BY <1>p, <1>8, <2>0, AlignBehindPages
  <2>2. s[4] + n \in Nat /\ recovery + n \in Nat /\ s[4] + n <= recovery + n
    BY <1>8, <1>10, <1>11, <2>0
  <2>3. Align(s[4] + n, p) <= Align(recovery + n, p)
    BY <1>p, <2>2, AlignMonotone
  <2> QED
    BY <1>6, <1>13, <2>1, <2>3
<1>16. ASSUME NEW i \in 1 .. 5
       PROVE  Slice(img, At(img)[Parts[i]], img.size[Parts[i]]) = parts[Parts[i]]
  <2>1. parts[Parts[i]] \in Seq(Cells) /\ img.size[Parts[i]] = Len(parts[Parts[i]])
    BY <1>1, <1>5, PartNames DEF ArePayloads, n
  <2>2. Holds(img, At(img)[Parts[i]], parts[Parts[i]])
    <3>1. CASE i \in 1 .. 3
      <4>1. At(img)[Parts[i]] = s[i]
        BY <1>9, <3>1, PartNames DEF At
      <4> QED
        BY <1>3, <1>4, <3>1, <4>1
    <3>2. CASE i = 4
      BY <1>3, <1>10, <3>2, PartNames DEF At
    <3>3. CASE i = 5
      BY <1>3, <1>12, <1>13, <3>3, PartNames DEF At
    <3> QED
      BY <3>1, <3>2, <3>3
  <2>3. /\ At(img)[Parts[i]] \in Nat /\ p <= At(img)[Parts[i]]
        /\ At(img)[Parts[i]] + Len(parts[Parts[i]]) <= Length(img)
    BY <1>2, <2>1
  <2> QED
    BY <1>2, <2>1, <2>2, <2>3, SliceFinds DEF p
<1>17. Parsed(img) = parts
  <2>1. /\ Parsed(img).kernel = parts.kernel /\ Parsed(img).ramdisk = parts.ramdisk
        /\ Parsed(img).second = parts.second
        /\ Parsed(img).recovery_dtbo = parts.recovery_dtbo /\ Parsed(img).dtb = parts.dtb
    BY <1>16, PartNames DEF Parsed, At
  <2> QED
    BY <2>1 DEF Parsed, PartTypes
<1>18. DtbAt(img) + Len(parts.dtb) <= Length(img)
  <2>1. Parts[5] = "dtb" /\ 5 \in 1 .. 5
    BY PartNames
  <2>2. At(img)["dtb"] = DtbAt(img)
    BY Zenon DEF At
  <2>3. At(img)["dtb"] + img.size["dtb"] <= Length(img)
    BY <1>2, <2>1
  <2> QED
    BY <1>5, <2>2, <2>3
<1> QED
  BY <1>1, <1>14, <1>15, <1>17, <1>18 DEF p, s

LEMMA WholePages ==
  ASSUME NEW a \in Nat, NEW p \in Nat \ {0}, a % p = 0
  PROVE  Multiple(a, p)
<1>1. PICK q \in Nat : q = a \div p
  BY Division
<1>2. a = p * q
  BY <1>1
<1>3. a = q * p
  BY <1>1, <1>2
<1> QED
  BY <1>1, <1>3 DEF Multiple

(* The scripts put together what is wanted, out of what the source is made *)
(* of.                                                                     *)
LEMMA WantedParts ==
  ASSUME job \in Jobs, LockMatches(job.source, job.lock), ~InputsRefused
  PROVE  /\ Wanted(job) = NewParts /\ ArePayloads(job.parts)
         /\ Starts(job.parts, Page)[5] <= DtbAt(job.source)
         /\ Multiple(DtbAt(job.source), Page) /\ DtbAt(job.source) \in Nat
         /\ DtbAt(job.source) + Len(job.parts.dtb) <= Length(job.source)
<1>1. IsImage(job.source) /\ ~ParseRefused(job.source)
  BY RepackAssumption DEF InputsRefused
<1>2. job.parts \in PartTypes /\ MadeOf(job.source, job.parts)
  BY <1>1, SourceAssumption
<1>3. /\ Parsed(job.source) = job.parts /\ ArePayloads(job.parts)
      /\ Starts(job.parts, job.source.page)[5] <= DtbAt(job.source)
      /\ Multiple(DtbAt(job.source), job.source.page) /\ DtbAt(job.source) \in Nat
      /\ DtbAt(job.source) + Len(job.parts.dtb) <= Length(job.source)
  BY <1>1, <1>2, SourceRead
<1>4. Original = job.parts
  BY <1>3 DEF Original
<1>5. Wanted(job) = NewParts
  BY <1>4 DEF Wanted, NewParts, WithDtb
<1> QED
  BY <1>3, <1>5 DEF Page

(* An image that has outgrown its source of whole pages has a part that    *)
(* needs more of them.                                                     *)
LEMMA GrowthOutgrows ==
  ASSUME job \in Jobs, LockMatches(job.source, job.lock), ~InputsRefused,
         Length(job.source) % Page = 0, Length(job.source) < StartsNow[6]
  PROVE  \E q \in ToSet(Parts) :
           PagesFor(Len(Wanted(job)[q]), Page) > PagesFor(Len(job.parts[q]), Page)
<1>1. PICK old, new : old = job.parts /\ new = NewParts
  OBVIOUS
<1>2. PICK p \in Nat \ {0} : p = Page
  BY PartsAreSequences
<1>3. /\ Wanted(job) = new /\ ArePayloads(old) /\ ArePayloads(new)
      /\ Starts(old, p)[5] <= DtbAt(job.source)
      /\ Multiple(DtbAt(job.source), p) /\ DtbAt(job.source) \in Nat
      /\ DtbAt(job.source) + Len(old.dtb) <= Length(job.source)
  BY <1>1, <1>2, WantedParts, PartsAreSequences
<1>4. Length(job.source) \in Nat
  BY <1>2, PartsAreSequences DEF Length, Page
<1>5. Multiple(Length(job.source), p)
  BY <1>2, <1>4, WholePages
<1>6. \A i \in 1 .. 5 : Len(old[Parts[i]]) \in Nat /\ Len(new[Parts[i]]) \in Nat
  <2>1. ASSUME NEW x, ArePayloads(x), NEW i \in 1 .. 5
        PROVE  Len(x[Parts[i]]) \in Nat
    <3>1. x[Parts[i]] \in Seq(Cells)
      BY <2>1, PartNames DEF ArePayloads
    <3> QED
      BY <3>1
  <2> QED
    BY <1>3, <2>1
<1>7. DtbAt(job.source) + Align(Len(old.dtb), p) <= Length(job.source)
  <2>1. Len(old.dtb) \in Nat
    <3>1. Parts[5] = "dtb" /\ 5 \in 1 .. 5
      BY PartNames
    <3> QED
      BY <1>6, <3>1
  <2> QED
    BY <1>2, <1>3, <1>4, <1>5, <2>1, PagesBetween
<1> SUFFICES ASSUME \A i \in 1 .. 5 :
                      ~(PagesFor(Len(new[Parts[i]]), p) > PagesFor(Len(old[Parts[i]]), p))
             PROVE  FALSE
  <2>1. \A i \in 1 .. 5 : Parts[i] \in ToSet(Parts)
    BY PartNames DEF ToSet
  <2> QED
    BY <1>1, <1>2, <1>3, <2>1
<1>8. \A i \in 1 .. 5 : /\ Align(Len(new[Parts[i]]), p) <= Align(Len(old[Parts[i]]), p)
                         /\ Align(Len(new[Parts[i]]), p) \in Nat
                         /\ Align(Len(old[Parts[i]]), p) \in Nat
  BY <1>6, PagesRoom, AlignIsLeast
<1>9. /\ Starts(new, p)[6] = p + Align(Len(new[Parts[1]]), p) + Align(Len(new[Parts[2]]), p)
           + Align(Len(new[Parts[3]]), p) + Align(Len(new[Parts[4]]), p)
           + Align(Len(new[Parts[5]]), p)
      /\ Starts(old, p)[5] = p + Align(Len(old[Parts[1]]), p) + Align(Len(old[Parts[2]]), p)
           + Align(Len(old[Parts[3]]), p) + Align(Len(old[Parts[4]]), p)
      /\ Align(Len(old.dtb), p) = Align(Len(old[Parts[5]]), p)
  BY PartNames DEF Starts
<1>10. /\ Starts(new, p)[6] <= Starts(old, p)[5] + Align(Len(old.dtb), p)
       /\ Starts(new, p)[6] \in Nat /\ Starts(old, p)[5] \in Nat
       /\ Align(Len(old.dtb), p) \in Nat
  <2>1. PICK a1, a2, a3, a4, a5, b1, b2, b3, b4, b5 :
          /\ a1 = Align(Len(new[Parts[1]]), p) /\ b1 = Align(Len(old[Parts[1]]), p)
          /\ a2 = Align(Len(new[Parts[2]]), p) /\ b2 = Align(Len(old[Parts[2]]), p)
          /\ a3 = Align(Len(new[Parts[3]]), p) /\ b3 = Align(Len(old[Parts[3]]), p)
          /\ a4 = Align(Len(new[Parts[4]]), p) /\ b4 = Align(Len(old[Parts[4]]), p)
          /\ a5 = Align(Len(new[Parts[5]]), p) /\ b5 = Align(Len(old[Parts[5]]), p)
    OBVIOUS
  <2>2. /\ a1 \in Nat /\ a2 \in Nat /\ a3 \in Nat /\ a4 \in Nat /\ a5 \in Nat
        /\ b1 \in Nat /\ b2 \in Nat /\ b3 \in Nat /\ b4 \in Nat /\ b5 \in Nat
        /\ a1 <= b1 /\ a2 <= b2 /\ a3 <= b3 /\ a4 <= b4 /\ a5 <= b5
    BY <1>8, <2>1
  <2>3. /\ Starts(new, p)[6] = p + a1 + a2 + a3 + a4 + a5
        /\ Starts(old, p)[5] = p + b1 + b2 + b3 + b4
        /\ Align(Len(old.dtb), p) = b5
    BY <1>9, <2>1
  <2> QED
    BY <2>2, <2>3
<1>12. Length(job.source) < Starts(new, p)[6]
  BY <1>1, <1>2 DEF StartsNow
<1> QED
  BY <1>3, <1>4, <1>7, <1>10, <1>12

Outgrown == ~InputsRefused /\ Length(job.source) < StartsNow[6]

LoadInv ==
  /\ pc \in {"repack", "add", "audit", "too large"} => LockMatches(job.source, job.lock)
  /\ pc = "too large" => Outgrown
  /\ pc \in {"write", "written"} => LoaderFinds(Image, Wanted(job))
  /\ file # NoFile => LoaderFinds(file.img, Wanted(file.job))
  /\ zip # NoFile => LoaderFinds(zip.img, Wanted(zip.job))

LEMMA InitLoad == Init => LoadInv
  BY DEF Init, LoadInv

(* What the audit lets through, the loader can read.                       *)
LEMMA AuditedFound ==
  ASSUME RepackInv, LoadInv, pc = "audit"
  PROVE  LoaderFinds(Image, Wanted(job))
<1>1. job \in Jobs /\ ~InputsRefused /\ Placed(5) /\ LockMatches(job.source, job.lock)
  BY DEF RepackInv, LoadInv, Building
<1>2. Page \in Nat \ {0} /\ ArePayloads(NewParts) /\ Wanted(job) = NewParts
  BY <1>1, PartsAreSequences, WantedParts
<1>3. \A i \in 1 .. 5 : FirstPages(NewParts, Page)[i] * Page = StartsNow[i]
  BY <1>2, LoaderAgrees DEF StartsNow
<1>4. Image.page = Page /\ Image.size = Sizes(NewParts)
  BY ImageFields
<1>5. \A i \in 1 .. 5 : Holds(Image, FirstPages(NewParts, Page)[i] * Page, NewParts[Parts[i]])
  BY <1>1, <1>3 DEF Placed
<1> HIDE DEF Page, Image, NewParts
<1> QED
  BY <1>2, <1>4, <1>5, PartNames DEF LoaderFinds

(* What is too large has all its parts and is longer than its source.      *)
LEMMA TooLargeMeans ==
  ASSUME RepackInv, pc = "add", added = Len(Parts), TooLarge
  PROVE  Outgrown
<1>1. added + 1 = 6
  BY PartNames
<1>2. Building /\ Page + Len(output) = StartsNow[6]
  BY <1>1 DEF RepackInv
<1>3. Length(Image) = Page + Len(output)
  BY ImageFields DEF Length
<1>4. job \in Jobs /\ ~InputsRefused /\ output \in Seq(Cells)
  BY <1>2 DEF RepackInv, Building
<1>5. Page \in Nat /\ Length(job.source) \in Nat
  BY <1>4, PartsAreSequences DEF Length, Page
<1>6. Length(Image) > Length(job.source)
  BY DEF TooLarge
<1>7. Len(output) \in Nat
  BY <1>4
<1> HIDE DEF Page, StartsNow
<1> QED
  BY <1>2, <1>3, <1>4, <1>5, <1>6, <1>7 DEF Outgrown

LEMMA NextLoad ==
  ASSUME RepackInv, LoadInv, [Next]_vars
  PROVE  LoadInv'
<1>1. ASSUME UNCHANGED job, UNCHANGED output
      PROVE  UNCHANGED Image /\ UNCHANGED Wanted(job) /\ (Outgrown => Outgrown')
  BY <1>1 DEF Image, NewParts, Original, WithDtb, Wanted, InputsRefused, StartsNow, Page,
     Outgrown
<1>2. CASE Validate
  BY <1>2 DEF Validate, LoadInv, deviceVars
<1>3. CASE Header
  BY <1>3 DEF Header, LoadInv, deviceVars
<1>4. CASE AddPart
  BY <1>4 DEF AddPart, LoadInv, deviceVars
<1>5. CASE Fit
  <2>1. /\ pc = "add" /\ added = Len(Parts) /\ UNCHANGED <<job, file, zip>>
        /\ (TooLarge /\ pc' = "too large" /\ UNCHANGED output) \/ pc' = "audit"
    BY <1>5 DEF Fit
  <2>2. CASE pc' = "audit"
    BY <2>1, <2>2 DEF LoadInv
  <2>3. CASE TooLarge /\ pc' = "too large" /\ UNCHANGED output
    <3>1. Outgrown'
      BY <1>1, <2>1, <2>3, TooLargeMeans
    <3> QED
      BY <2>1, <2>3, <3>1 DEF LoadInv
  <2> QED
    BY <2>1, <2>2, <2>3
<1>6. CASE Audit
  <2>1. pc = "audit" /\ pc' \in {"write", "audit failed"} /\ UNCHANGED <<job, output, file, zip>>
    BY <1>6 DEF Audit
  <2>2. LoaderFinds(Image, Wanted(job))'
    BY <1>1, <2>1, AuditedFound
  <2> QED
    BY <2>1, <2>2 DEF LoadInv
<1>7. CASE WriteOutput \/ Killed
  <2>1. /\ pc = "write" /\ pc' \in {"written", "killed"} /\ UNCHANGED <<job, output, zip>>
        /\ file'.img = Image /\ file'.job = job
    BY <1>7 DEF WriteOutput, Killed
  <2>2. LoaderFinds(Image, Wanted(job))
    BY <2>1 DEF LoadInv
  <2>3. LoaderFinds(Image, Wanted(job))'
    BY <1>1, <2>1, <2>2
  <2> QED
    BY <2>1, <2>2, <2>3 DEF LoadInv
<1>8. CASE NextJob
  BY <1>8 DEF NextJob, LoadInv, deviceVars
<1>9. CASE Package
  <2>1. UNCHANGED <<job, pc, output, file>> /\ file # NoFile /\ zip' = file
    BY <1>9 DEF Package, repackVars
  <2> QED
    BY <1>1, <2>1 DEF LoadInv
<1>10. CASE StartInstall \/ DdChunk \/ DdFails \/ Success \/ PowerCut \/ UNCHANGED vars
  <2>1. UNCHANGED <<job, pc, output, file, zip>>
    BY <1>10 DEF StartInstall, DdChunk, DdFails, Success, PowerCut, vars, repackVars
  <2> QED
    BY <1>1, <2>1 DEF LoadInv
<1> QED
  BY <1>2, <1>3, <1>4, <1>5, <1>6, <1>7, <1>8, <1>9, <1>10 DEF Next, Repack

LEMMA LoadInvariant == Spec => [](RepackInv /\ LoadInv)
<1>1. Init => RepackInv /\ LoadInv
  BY InitRepack, InitLoad
<1>2. RepackInv /\ LoadInv /\ [Next]_vars => (RepackInv /\ LoadInv)'
  BY RepackStep, NextLoad
<1> QED
  BY <1>1, <1>2, PTL DEF Spec

(* Of every image scripts 38 and 76 write, and of every one that gets into *)
(* a package, the boot loader finds the wanted kernel and DTB and the      *)
(* source's other parts, at any page size and whatever their sizes.        *)
THEOREM LoaderAlwaysFinds == Spec => []LoaderFindsParts
<1>1. LoadInv => LoaderFindsParts
  BY DEF LoadInv, LoaderFindsParts
<1> QED
  BY <1>1, LoadInvariant, PTL

(* No source of whole pages is found too small for a kernel and a DTB that *)
(* need no more pages than its own.                                        *)
THEOREM OnlyGrowthIsRefused == Spec => []OnlyGrowthRefused
<1>1. RepackInv /\ LoadInv => OnlyGrowthRefused
  BY GrowthOutgrows DEF RepackInv, LoadInv, Outgrown, OnlyGrowthRefused, Page
<1> QED
  BY <1>1, LoadInvariant, PTL

==============================================================================
