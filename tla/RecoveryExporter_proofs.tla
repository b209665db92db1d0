------------------------ MODULE RecoveryExporter_proofs ------------------------
(***************************************************************************)
(* For any number of ranges, any size, any number of readers and any mix   *)
(* of short reads, faults and seeks: a recovery session serves the range   *)
(* as the reset left it.                                                   *)
(*                                                                         *)
(* ServedFaithfully is not inductive.  That a snapshot is the frozen range *)
(* rests on the range being untouched until pure_initcall; that a file is  *)
(* only ever open over a snapshot, on the error code saying whether there  *)
(* is one; and that read() returns 0 at the end of the range alone, on     *)
(* every read in between returning at least one byte.                      *)
(***************************************************************************)
EXTENDS RecoveryExporter, SequenceTheorems, TLAPS

FileStates == [region : Regions \cup {"none"}, pos : Nat, ret : Int]

IsRange(s) == s = [i \in 1 .. RegionSize |-> s[i]]

Shapes ==
  /\ level \in {"reset", "pure", "core", "device"}
  /\ error \in [Regions -> {"ENODATA", "ENOMEM", "EIO", "OK"}]
  /\ node \subseteq Regions
  /\ dram = [r \in Regions |-> dram[r]]
  /\ \A r \in Regions : IsRange(dram[r]) /\ IsRange(frozen[r])
  /\ file \in [Files -> FileStates]
  /\ got = [f \in Files |-> got[f]]
  /\ \A f \in Files : file[f].pos \in (0 .. RegionSize) \cup Seeks

(* The ranges are copied before anybody else writes to them.               *)
CopiedFirst ==
  /\ level = "reset" => \A r \in Regions : dram[r] = frozen[r] /\ snapshot[r] = NoSnapshot
  /\ \A r \in Regions : snapshot[r] # NoSnapshot => snapshot[r] = frozen[r]
  /\ \A r \in Regions : error[r] = "OK" => snapshot[r] # NoSnapshot

OpenOverSnapshot ==
  \A f \in Files : file[f] # Closed =>
    file[f].region \in Regions /\ snapshot[file[f].region] # NoSnapshot

(* What a reader that has not moved the position has in its hands.         *)
Served(f) ==
  /\ file[f].pos \in 0 .. RegionSize
  /\ file[f] = Closed => got[f] = <<>>
  /\ file[f] # Closed =>
       /\ got[f] = SubSeq(frozen[file[f].region], 1, file[f].pos)
       /\ file[f].ret = 0 => file[f].pos = RegionSize

AllServed == \A f \in Files \ sought : Served(f)

ServeInv == Shapes /\ CopiedFirst /\ OpenOverSnapshot /\ AllServed

(* A range is a sequence, and its parts fit together.                      *)
LEMMA RangeParts ==
  ASSUME NEW s, IsRange(s)
  PROVE  /\ SubSeq(s, 1, 0) = <<>>
         /\ SubSeq(s, 1, RegionSize) = s
         /\ s # NoSnapshot /\ DOMAIN s = 1 .. RegionSize
         /\ \A p \in 0 .. RegionSize, n \in Nat : p + n <= RegionSize =>
              SubSeq(s, 1, p) \o SubSeq(s, p + 1, p + n) = SubSeq(s, 1, p + n)
<1> DEFINE S == {s[i] : i \in 1 .. RegionSize}
<1>0. RegionSize \in Nat \ {0}
  BY ExporterAssumption
<1>1. s \in [1 .. RegionSize -> S] /\ DOMAIN s = 1 .. RegionSize
  BY DEF IsRange
<1>2. s \in Seq(S) /\ Len(s) = RegionSize
  BY <1>0, <1>1
<1>3. \A i \in 1 .. RegionSize : s[i] \in S
  OBVIOUS
<1> HIDE DEF S
<1>4. SubSeq(s, 1, 0) = <<>>
  BY SubSeqEmpty
<1>5. SubSeq(s, 1, RegionSize) = s
  <2>1. /\ SubSeq(s, 1, RegionSize) \in Seq(S) /\ Len(SubSeq(s, 1, RegionSize)) = RegionSize
        /\ \A i \in 1 .. RegionSize : SubSeq(s, 1, RegionSize)[i] = s[i]
    BY <1>0, <1>3, SubSeqProperties
  <2> QED BY <1>2, <2>1, SeqEqual
<1>6. ASSUME NEW p \in 0 .. RegionSize, NEW n \in Nat, p + n <= RegionSize
      PROVE  SubSeq(s, 1, p) \o SubSeq(s, p + 1, p + n) = SubSeq(s, 1, p + n)
  <2> DEFINE a == SubSeq(s, 1, p)
             b == SubSeq(s, p + 1, p + n)
             c == SubSeq(s, 1, p + n)
  <2>1. a \in Seq(S) /\ Len(a) = p /\ \A i \in 1 .. p : a[i] = s[i]
    <3>1. \A i \in 1 .. p : s[i] \in S
      BY <1>0, <1>3
    <3> QED BY <1>0, <3>1, SubSeqProperties
  <2>2. b \in Seq(S) /\ Len(b) = n /\ \A i \in 1 .. n : b[i] = s[p + i]
    <3>1. \A i \in p + 1 .. p + n : s[i] \in S
      BY <1>0, <1>3, <1>6
    <3> QED BY <1>0, <3>1, SubSeqProperties
  <2>3. c \in Seq(S) /\ Len(c) = p + n /\ \A i \in 1 .. p + n : c[i] = s[i]
    <3>1. \A i \in 1 .. p + n : s[i] \in S
      BY <1>0, <1>3, <1>6
    <3> QED BY <1>0, <3>1, SubSeqProperties
  <2> HIDE DEF a, b, c
  <2>4. /\ a \o b \in Seq(S) /\ Len(a \o b) = p + n
        /\ \A i \in 1 .. p + n : (a \o b)[i] = IF i <= p THEN a[i] ELSE b[i - p]
    BY <2>1, <2>2, ConcatProperties
  <2>5. ASSUME NEW i \in 1 .. p + n PROVE (a \o b)[i] = c[i]
    <3>1. CASE i <= p
      <4>1. i \in 1 .. p
        BY <1>0, <3>1
      <4>2. a[i] = s[i] /\ c[i] = s[i]
        BY <2>1, <2>3, <4>1
      <4>3. (a \o b)[i] = a[i]
        BY <2>4, <3>1
      <4> QED BY <4>2, <4>3
    <3>2. CASE i > p
      <4>1. i - p \in 1 .. n /\ p + (i - p) = i /\ ~(i <= p)
        BY <1>0, <3>2
      <4>2. b[i - p] = s[i] /\ c[i] = s[i]
        BY <2>2, <2>3, <4>1
      <4>3. (a \o b)[i] = b[i - p]
        BY <2>4, <4>1
      <4> QED BY <4>2, <4>3
    <3>3. i <= p \/ i > p
      BY <1>0
    <3> QED BY <3>1, <3>2, <3>3
  <2>6. a \o b = c
    BY <2>3, <2>4, <2>5, SeqEqual
  <2> QED BY <2>6 DEF a, b, c
<1>7. s # NoSnapshot
  BY <1>0, <1>2 DEF NoSnapshot
<1> QED BY <1>1, <1>4, <1>5, <1>6, <1>7

LEMMA ClosedFile == Closed \in FileStates /\ Closed.pos = 0 /\ Closed.region = "none"
BY DEF Closed, FileStates

LEMMA ServeInit == ExporterInit => ServeInv
<1> SUFFICES ASSUME ExporterInit PROVE ServeInv
  OBVIOUS
<1>1. dram = [r \in Regions |-> [i \in 1 .. RegionSize |-> dram[r][i]]]
  BY DramAssumption DEF ExporterInit
<1>2. \A r \in Regions : dram[r] = [i \in 1 .. RegionSize |-> dram[r][i]]
  BY <1>1
<1>3. dram = [r \in Regions |-> dram[r]] /\ \A r \in Regions : IsRange(dram[r])
  BY <1>1, <1>2 DEF IsRange
<1>4. Shapes
  BY <1>3, ClosedFile, ExporterAssumption DEF ExporterInit, Shapes
<1>5. CopiedFirst /\ OpenOverSnapshot
  BY DEF ExporterInit, CopiedFirst, OpenOverSnapshot
<1>6. AllServed
  BY ClosedFile, ExporterAssumption DEF ExporterInit, AllServed, Served
<1> QED BY <1>4, <1>5, <1>6 DEF ServeInv

(* A recovery that starts over, on whatever ranges it finds.               *)
LEMMA RestartServe ==
  ASSUME level' = "reset", node' = {}, sought' = {},
         snapshot' = [r \in Regions |-> NoSnapshot],
         error'    = [r \in Regions |-> "ENODATA"],
         file'     = [f \in Files |-> Closed],
         got'      = [f \in Files |-> <<>>],
         dram' = [r \in Regions |-> dram'[r]], frozen' = dram',
         \A r \in Regions : IsRange(dram'[r])
  PROVE  ServeInv'
<1>1. Shapes'
  BY ClosedFile, ExporterAssumption DEF Shapes
<1>2. CopiedFirst' /\ OpenOverSnapshot'
  BY DEF CopiedFirst, OpenOverSnapshot
<1>3. AllServed'
  BY ClosedFile, ExporterAssumption DEF AllServed, Served
<1> QED BY <1>1, <1>2, <1>3 DEF ServeInv

(***************************************************************************)
(* The kernel's steps leave every open file and its snapshot alone.        *)
(***************************************************************************)
LEMMA SnapshotServe == ASSUME ServeInv, SnapshotInit PROVE ServeInv'
<1>1. /\ level = "reset" /\ level' = "pure"
      /\ UNCHANGED <<dram, node, file, frozen, got, sought>>
  BY DEF SnapshotInit
<1>2. PICK o \in [Regions -> UNION {Outcomes(r) : r \in Regions}] :
        /\ \A r \in Regions : o[r] \in Outcomes(r)
        /\ snapshot' = [r \in Regions |-> o[r].snap]
        /\ error'    = [r \in Regions |-> o[r].err]
  BY DEF SnapshotInit
<1>3. \A r \in Regions :
        \/ snapshot'[r] = NoSnapshot /\ error'[r] \in {"ENOMEM", "EIO"}
        \/ snapshot'[r] = dram[r] /\ error'[r] = "OK"
  BY <1>2 DEF Outcomes
<1>4. \A r \in Regions : dram[r] = frozen[r] /\ snapshot[r] = NoSnapshot /\ dram[r] # NoSnapshot
  BY <1>1, RangeParts DEF ServeInv, CopiedFirst, Shapes
<1>5. \A f \in Files : file[f] = Closed
  BY <1>4 DEF ServeInv, OpenOverSnapshot
<1>6. Shapes'
  <2>1. error' \in [Regions -> {"ENODATA", "ENOMEM", "EIO", "OK"}]
    BY <1>2, <1>3
  <2> QED BY <1>1, <2>1 DEF ServeInv, Shapes
<1>7. CopiedFirst'
  BY <1>1, <1>3, <1>4 DEF CopiedFirst
<1>8. OpenOverSnapshot' /\ AllServed'
  BY <1>1, <1>5 DEF ServeInv, OpenOverSnapshot, AllServed, Served
<1> QED BY <1>6, <1>7, <1>8 DEF ServeInv

LEMMA DriversServe ==
  ASSUME ServeInv, DriversStart \/ DriverWrites \/ DeviceInit
  PROVE  ServeInv'
<1>1. /\ level # "reset" /\ level' \in {"core", "device"}
      /\ UNCHANGED <<snapshot, error, file, frozen, got, sought>>
  BY DEF DriversStart, DriverWrites, DeviceInit
<1>2. node' \subseteq Regions
  BY DEF DriversStart, DriverWrites, DeviceInit, ServeInv, Shapes
<1>3. /\ dram' = [r \in Regions |-> dram'[r]]
      /\ \A r \in Regions : IsRange(dram'[r])
  <2>1. CASE DriverWrites
    <3>1. PICK q \in Regions, i \in Reused : dram' = [dram EXCEPT ![q] = [@ EXCEPT ![i] = Fresh]]
      BY <2>1 DEF DriverWrites
    <3>2. dram = [r \in Regions |-> dram[r]] /\ \A r \in Regions : IsRange(dram[r])
      BY DEF ServeInv, Shapes
    <3>3. /\ dram' = [r \in Regions |-> dram'[r]]
          /\ \A r \in Regions \ {q} : dram'[r] = dram[r]
          /\ dram'[q] = [dram[q] EXCEPT ![i] = Fresh]
      BY <3>1, <3>2
    <3>4. IsRange(dram'[q])
      BY <3>2, <3>3 DEF IsRange
    <3> QED BY <3>2, <3>3, <3>4
  <2>2. CASE DriversStart \/ DeviceInit
    BY <2>2 DEF DriversStart, DeviceInit, ServeInv, Shapes
  <2> QED BY <2>1, <2>2
<1>4. Shapes'
  BY <1>1, <1>2, <1>3 DEF ServeInv, Shapes
<1>5. CopiedFirst' /\ OpenOverSnapshot' /\ AllServed'
  BY <1>1 DEF ServeInv, CopiedFirst, OpenOverSnapshot, AllServed, Served
<1> QED BY <1>4, <1>5 DEF ServeInv

(***************************************************************************)
(* The file operations.  A step of one reader keeps the invariant when what*)
(* it leaves that reader with does.                                        *)
(***************************************************************************)
LEMMA ReaderServe ==
  ASSUME ServeInv, UNCHANGED <<level, dram, snapshot, error, node, frozen>>,
         NEW f \in Files, NEW state \in FileStates,
         file' = [file EXCEPT ![f] = state],
         state.pos \in (0 .. RegionSize) \cup Seeks,
         state # Closed => state.region \in Regions /\ snapshot[state.region] # NoSnapshot,
         got' = [g \in Files |-> got'[g]],
         \A g \in Files \ {f} : got'[g] = got[g] /\ (g \in sought' <=> g \in sought),
         f \in sought' \/ Served(f)'
  PROVE  ServeInv'
<1>1. file \in [Files -> FileStates]
  BY DEF ServeInv, Shapes
<1>2. file'[f] = state /\ (\A g \in Files \ {f} : file'[g] = file[g])
      /\ file' \in [Files -> FileStates]
  BY <1>1
<1>3. Shapes'
  <2>1. \A g \in Files : file'[g].pos \in (0 .. RegionSize) \cup Seeks
    BY <1>2 DEF ServeInv, Shapes
  <2> QED BY <1>2, <2>1 DEF ServeInv, Shapes
<1>4. CopiedFirst'
  BY DEF ServeInv, CopiedFirst
<1>5. OpenOverSnapshot'
  BY <1>2 DEF ServeInv, OpenOverSnapshot
<1>6. AllServed'
  <2> SUFFICES ASSUME NEW g \in Files, g \notin sought', g # f PROVE Served(g)'
    BY DEF AllServed
  <2>1. Served(g)
    BY DEF ServeInv, AllServed
  <2> QED BY <1>2, <2>1 DEF Served
<1> QED BY <1>3, <1>4, <1>5, <1>6 DEF ServeInv

LEMMA OpenServe ==
  ASSUME ServeInv, NEW f \in Files, NEW r \in Regions, NEW capable, Open(f, r, capable)
  PROVE  ServeInv'
<1> DEFINE state == [region |-> r, pos |-> 0, ret |-> -1]
<1>1. /\ file[f] = Closed /\ error[r] = "OK" /\ file' = [file EXCEPT ![f] = state]
      /\ UNCHANGED <<level, dram, snapshot, error, node, frozen, got, sought>>
  BY DEF Open
<1>2. state \in FileStates /\ state.pos = 0 /\ state.region = r /\ state.ret # 0
  BY DEF FileStates
<1>3. snapshot[r] # NoSnapshot /\ IsRange(frozen[r])
  BY <1>1 DEF ServeInv, CopiedFirst, Shapes
<1>4. 0 \in 0 .. RegionSize
  BY ExporterAssumption
<1> HIDE DEF state
<1>5. file'[f] = state
  BY <1>1, <1>2 DEF ServeInv, Shapes
<1>6. f \in sought' \/ Served(f)'
  <2> SUFFICES ASSUME f \notin sought PROVE Served(f)'
    BY <1>1
  <2>1. got[f] = <<>>
    BY <1>1 DEF ServeInv, AllServed, Served
  <2>2. SubSeq(frozen[r], 1, 0) = <<>>
    BY <1>3, RangeParts
  <2> QED BY <1>1, <1>2, <1>4, <1>5, <2>1, <2>2 DEF Served
<1>7. got' = [g \in Files |-> got'[g]]
  BY <1>1 DEF ServeInv, Shapes
<1> QED BY <1>1, <1>2, <1>3, <1>4, <1>6, <1>7, ReaderServe

LEMMA CloseServe ==
  ASSUME ServeInv, NEW f \in Files, Close(f)
  PROVE  ServeInv'
<1>1. /\ file' = [file EXCEPT ![f] = Closed] /\ got' = [got EXCEPT ![f] = <<>>]
      /\ sought' = sought \ {f}
      /\ UNCHANGED <<level, dram, snapshot, error, node, frozen>>
  BY DEF Close
<1>2. 0 \in 0 .. RegionSize
  BY ExporterAssumption
<1>3. got' = [g \in Files |-> got'[g]] /\ got'[f] = <<>> /\ \A g \in Files \ {f} : got'[g] = got[g]
  BY <1>1 DEF ServeInv, Shapes
<1>4. file'[f] = Closed
  BY <1>1 DEF ServeInv, Shapes
<1>5. Served(f)'
  BY <1>2, <1>3, <1>4, ClosedFile DEF Served
<1> QED BY <1>1, <1>2, <1>3, <1>5, ClosedFile, ReaderServe

LEMMA SeekServe ==
  ASSUME ServeInv, NEW f \in Files, NEW pos \in Seeks, Seek(f, pos)
  PROVE  ServeInv'
<1> DEFINE state == [file[f] EXCEPT !.pos = pos]
<1>1. /\ file[f] # Closed /\ file' = [file EXCEPT ![f] = state]
      /\ got' = [got EXCEPT ![f] = <<>>] /\ sought' = sought \cup {f}
      /\ UNCHANGED <<level, dram, snapshot, error, node, frozen>>
  BY DEF Seek
<1>2. file[f] \in FileStates /\ pos \in Nat
  BY ExporterAssumption DEF ServeInv, Shapes
<1>3. state \in FileStates /\ state.pos = pos /\ state.region = file[f].region
  BY <1>2 DEF FileStates
<1> HIDE DEF state
<1>4. got' = [g \in Files |-> got'[g]] /\ \A g \in Files \ {f} : got'[g] = got[g]
  BY <1>1 DEF ServeInv, Shapes
<1>5. file[f].region \in Regions /\ snapshot[file[f].region] # NoSnapshot
  BY <1>1 DEF ServeInv, OpenOverSnapshot
<1> QED BY <1>1, <1>3, <1>4, <1>5, ReaderServe

LEMMA ReadServe ==
  ASSUME ServeInv, NEW f \in Files, NEW count \in 1 .. MaxCount, ReadCopies(f, count)
  PROVE  ServeInv'
<1> DEFINE n     == Clamped(f, count)
           r     == file[f].region
           pos   == file[f].pos
           state == [file[f] EXCEPT !.pos = pos + n, !.ret = n]
           data  == SubSeq(snapshot[r], pos + 1, pos + n)
<1>1. /\ file[f] # Closed /\ pos < RegionSize
      /\ file' = [file EXCEPT ![f] = state]
      /\ got' = IF f \in sought THEN got ELSE [got EXCEPT ![f] = got[f] \o data]
      /\ UNCHANGED <<level, dram, snapshot, error, node, frozen, sought>>
  BY DEF ReadCopies
<1>2. file[f] \in FileStates /\ pos \in Nat /\ RegionSize \in Nat /\ count \in Nat /\ count >= 1
  BY ExporterAssumption DEF ServeInv, Shapes, FileStates
<1>3. n \in Nat /\ n >= 1 /\ pos + n <= RegionSize
  BY <1>1, <1>2 DEF Clamped, Min2
<1>4. r \in Regions /\ snapshot[r] # NoSnapshot
  BY <1>1 DEF ServeInv, OpenOverSnapshot
<1>5. IsRange(frozen[r]) /\ snapshot[r] = frozen[r]
  BY <1>4 DEF ServeInv, CopiedFirst, Shapes
<1> HIDE DEF n
<1>6. state \in FileStates /\ state.pos = pos + n /\ state.ret = n /\ state.region = r
  <2>1. PICK c \in FileStates : c = file[f]
    BY <1>2
  <2>2. state = [[c EXCEPT !.pos = pos + n] EXCEPT !.ret = n] /\ r = c.region
    BY <2>1
  <2>3. pos + n \in Nat /\ n \in Int
    BY <1>2, <1>3
  <2> HIDE DEF state, pos, r
  <2> QED BY <2>2, <2>3 DEF FileStates
<1>7. state # Closed
  BY <1>4, <1>6, ClosedFile, DramAssumption
<1> HIDE DEF state, r, pos, data
<1>8. file'[f] = state
  BY <1>1 DEF ServeInv, Shapes
<1>9. got' = [g \in Files |-> got'[g]] /\ \A g \in Files \ {f} : got'[g] = got[g]
  BY <1>1 DEF ServeInv, Shapes
<1>10. f \in sought' \/ Served(f)'
  <2> SUFFICES ASSUME f \notin sought PROVE Served(f)'
    BY <1>1
  <2>1. Served(f)
    BY DEF ServeInv, AllServed
  <2>2. got[f] = SubSeq(frozen[r], 1, pos) /\ pos \in 0 .. RegionSize
    BY <1>1, <2>1 DEF Served, r, pos
  <2>3. got'[f] = got[f] \o data
    BY <1>1 DEF ServeInv, Shapes
  <2>4. SubSeq(frozen[r], 1, pos) \o SubSeq(frozen[r], pos + 1, pos + n)
          = SubSeq(frozen[r], 1, pos + n)
    <3>1. \A p \in 0 .. RegionSize, k \in Nat : p + k <= RegionSize =>
            SubSeq(frozen[r], 1, p) \o SubSeq(frozen[r], p + 1, p + k)
              = SubSeq(frozen[r], 1, p + k)
      BY <1>5, RangeParts
    <3> QED BY <1>3, <2>2, <3>1
  <2>5. got'[f] = SubSeq(frozen[r], 1, pos + n)
    BY <1>5, <2>2, <2>3, <2>4 DEF data
  <2>6. pos + n \in 0 .. RegionSize /\ n # 0
    BY <1>2, <1>3
  <2> QED BY <1>1, <1>6, <1>7, <1>8, <2>5, <2>6 DEF Served
<1>11. state.pos \in 0 .. RegionSize
  BY <1>2, <1>3, <1>6
<1> QED BY <1>1, <1>4, <1>6, <1>9, <1>10, <1>11, ReaderServe

(* read() that faults or is at the end changes its result alone.           *)
LEMMA NoDataServe ==
  ASSUME ServeInv, NEW f \in Files, ReadFaults(f) \/ ReadEnds(f)
  PROVE  ServeInv'
<1>1. PICK ret \in {-1, 0} :
        /\ file[f] # Closed /\ file' = [file EXCEPT ![f] = [@ EXCEPT !.ret = ret]]
        /\ ret = 0 => file[f].pos >= RegionSize
        /\ UNCHANGED <<level, dram, snapshot, error, node, frozen, got, sought>>
  BY DEF ReadFaults, ReadEnds
<1> DEFINE state == [file[f] EXCEPT !.ret = ret]
<1>2. file[f] \in FileStates /\ ret \in Int
  BY DEF ServeInv, Shapes
<1>3. /\ state \in FileStates /\ state.pos = file[f].pos /\ state.ret = ret
      /\ state.region = file[f].region
  BY <1>2 DEF FileStates
<1>4. file' = [file EXCEPT ![f] = state]
  BY <1>1
<1> HIDE DEF state
<1>5. file'[f] = state
  BY <1>4 DEF ServeInv, Shapes
<1>6. file[f].region \in Regions /\ snapshot[file[f].region] # NoSnapshot
  BY <1>1 DEF ServeInv, OpenOverSnapshot
<1>7. state # Closed
  BY <1>3, <1>6, ClosedFile, DramAssumption
<1>8. f \in sought' \/ Served(f)'
  <2> SUFFICES ASSUME f \notin sought PROVE Served(f)'
    BY <1>1
  <2>1. Served(f)
    BY DEF ServeInv, AllServed
  <2>2. ret = 0 => file[f].pos = RegionSize
    BY <1>1, <2>1, ExporterAssumption DEF Served
  <2> QED BY <1>1, <1>3, <1>5, <1>7, <2>1, <2>2 DEF Served
<1>9. got' = [g \in Files |-> got'[g]] /\ state.pos \in (0 .. RegionSize) \cup Seeks
  BY <1>1, <1>3 DEF ServeInv, Shapes
<1> QED BY <1>1, <1>3, <1>4, <1>6, <1>8, <1>9, ReaderServe

LEMMA ServeStep == ServeInv /\ [ExporterNext]_exporterVars => ServeInv'
<1> SUFFICES ASSUME ServeInv, [ExporterNext]_exporterVars PROVE ServeInv'
  OBVIOUS
<1>1. CASE SnapshotInit \/ DriversStart \/ DriverWrites \/ DeviceInit
  BY <1>1, SnapshotServe, DriversServe
<1>2. ASSUME NEW f \in Files,
             \/ \E r \in Regions, capable \in BOOLEAN : Open(f, r, capable)
             \/ Close(f)
             \/ \E pos \in Seeks : Seek(f, pos)
             \/ ReadSome(f) \/ ReadFaults(f) \/ ReadEnds(f)
      PROVE  ServeInv'
  BY <1>2, OpenServe, CloseServe, SeekServe, ReadServe, NoDataServe DEF ReadSome
<1>3. CASE UNCHANGED exporterVars
  BY <1>3 DEF exporterVars, ServeInv, Shapes, CopiedFirst, OpenOverSnapshot, AllServed, Served
<1> QED BY <1>1, <1>2, <1>3 DEF ExporterNext

LEMMA ServeFaithful == ServeInv => ServedFaithfully
<1> SUFFICES ASSUME ServeInv PROVE ServedFaithfully
  OBVIOUS
<1>1. \A r \in Regions : DOMAIN dram[r] = 1 .. RegionSize /\ DOMAIN frozen[r] = 1 .. RegionSize
  BY RangeParts DEF ServeInv, Shapes
<1>2. ExporterTypeOK
  <2>1. \A r \in Regions : snapshot[r] # NoSnapshot => DOMAIN snapshot[r] = 1 .. RegionSize
    BY <1>1 DEF ServeInv, CopiedFirst
  <2>2. \A f \in Files : file[f].region \in Regions \cup {"none"}
    BY DEF ServeInv, Shapes, FileStates
  <2> QED BY <1>1, <2>1, <2>2 DEF ServeInv, Shapes, ExporterTypeOK
<1>3. SnapshotFrozen
  BY DEF ServeInv, OpenOverSnapshot, CopiedFirst, SnapshotFrozen
<1>4. ReadsContiguous
  <2> SUFFICES ASSUME NEW f \in Files \ sought, file[f] # Closed
               PROVE  /\ got[f] = SubSeq(frozen[file[f].region], 1, file[f].pos)
                      /\ file[f].ret = 0 => got[f] = frozen[file[f].region]
    BY DEF ReadsContiguous
  <2>1. Served(f) /\ IsRange(frozen[file[f].region])
    BY DEF ServeInv, AllServed, OpenOverSnapshot, Shapes
  <2> QED BY <2>1, RangeParts DEF Served
<1> QED BY <1>2, <1>3, <1>4 DEF ServedFaithfully

(* Whatever fails in the exporter, whatever the recovery's drivers do to   *)
(* the ranges and however a reader reads, what it is served is the range as*)
(* the reset left it, without a gap and to its end.                        *)
THEOREM AlwaysServedFaithfully == ExporterSpec => []ServedFaithfully
BY ServeInit, ServeStep, ServeFaithful, PTL DEF ExporterSpec

================================================================================
