--------------------------- MODULE KmsgMirror_proofs ---------------------------
(***************************************************************************)
(* For any number of printing threads, any cap and any number of copies:   *)
(* the unlocked counter of the two printk mirrors never runs ahead of the  *)
(* messages it has let through, so the race of its test and its increment  *)
(* can only admit too many, never too few; and a message it has let        *)
(* through is mirrored in full, in order and once.                         *)
(***************************************************************************)
EXTENDS KmsgMirror, FiniteSetTheorems, TLAPS

ThreadStates == [at : Places, loaded : Nat, copy : 0 .. Copies]

LEMMA AtIsThreadState ==
  ASSUME NEW place \in Places, NEW loaded \in Nat, NEW copy \in 0 .. Copies
  PROVE  /\ At(place, loaded, copy) \in ThreadStates
         /\ At(place, loaded, copy).at = place
         /\ At(place, loaded, copy).loaded = loaded
BY DEF At, ThreadStates

LEMMA CopyRange == 0 \in 0 .. Copies /\ 1 \in 0 .. Copies
BY MirrorAssumption

------------------------------------------------------------------------------
LEMMA TypeInit == Init => TypeOK
<1>1. Out \in ThreadStates
  BY CopyRange, AtIsThreadState DEF Out, Places
<1>2. 0 \in 0 .. MaxMessages
  BY MirrorAssumption
<1> QED BY <1>1, <1>2 DEF Init, TypeOK, ThreadStates

LEMMA PrintType ==
  ASSUME TypeOK, NEW t \in Threads, Emit(t)
  PROVE  TypeOK'
<1>1. sent[t] + 1 \in 1 .. MaxMessages /\ sent[t] + 1 \in 0 .. MaxMessages
  BY MirrorAssumption DEF TypeOK, Emit
<1>2. sent' \in [Threads -> 0 .. MaxMessages]
  BY <1>1 DEF TypeOK, Emit
<1>3. thread' \in [Threads -> ThreadStates] /\ refused' \subseteq Threads \X (1 .. MaxMessages)
  <2>1. CASE count < Cap
    <3>1. At("load", 0, 0) \in ThreadStates
      BY CopyRange, AtIsThreadState DEF Places
    <3>2. thread' = [thread EXCEPT ![t] = At("load", 0, 0)] /\ refused' = refused
      BY <2>1, MirrorAssumption DEF Emit, TypeOK
    <3> QED BY <3>1, <3>2 DEF TypeOK, ThreadStates
  <2>2. CASE ~(count < Cap)
    BY <1>1, <2>2 DEF Emit, TypeOK, ThreadStates
  <2> QED BY <2>1, <2>2
<1> QED BY <1>2, <1>3 DEF TypeOK, Emit, ThreadStates

LEMMA LoadCountType ==
  ASSUME TypeOK, NEW t \in Threads, LoadCount(t)
  PROVE  TypeOK'
<1>1. At("store", count, 0) \in ThreadStates
  BY CopyRange, AtIsThreadState DEF Places, TypeOK
<1> QED BY <1>1 DEF TypeOK, LoadCount, ThreadStates

LEMMA StoreCountType ==
  ASSUME TypeOK, NEW t \in Threads, StoreCount(t)
  PROVE  TypeOK'
<1>1. At("mark", 0, 1) \in ThreadStates
  BY CopyRange, AtIsThreadState DEF Places
<1>2. count' \in Nat /\ admitted' \in Nat
  BY DEF TypeOK, StoreCount
<1> QED BY <1>1, <1>2 DEF TypeOK, StoreCount, ThreadStates

LEMMA MarkCopyType ==
  ASSUME TypeOK, NEW t \in Threads, MarkCopy(t)
  PROVE  TypeOK'
<1> DEFINE next == IF thread[t].copy = Copies THEN Out
                   ELSE At("mark", 0, thread[t].copy + 1)
<1>1. next \in ThreadStates
  <2>1. CASE thread[t].copy = Copies
    BY <2>1, CopyRange, AtIsThreadState DEF Out, Places
  <2>2. CASE thread[t].copy # Copies
    <3>1. thread[t].copy + 1 \in 0 .. Copies
      BY <2>2, MirrorAssumption DEF TypeOK
    <3> QED BY <2>2, <3>1, AtIsThreadState DEF Places
  <2> QED BY <2>1, <2>2
<1>2. thread' = [thread EXCEPT ![t] = next]
  BY DEF MarkCopy
<1> HIDE DEF next
<1> QED BY <1>1, <1>2 DEF TypeOK, MarkCopy, ThreadStates

LEMMA TypeStep == TypeOK /\ [Next]_vars => TypeOK'
<1> SUFFICES ASSUME TypeOK, [Next]_vars PROVE TypeOK'
  OBVIOUS
<1>1. ASSUME NEW t \in Threads, Step(t) PROVE TypeOK'
  <2>1. CASE Exit(t)
    BY <2>1 DEF Exit, TypeOK
  <2> QED BY <1>1, <2>1, PrintType, LoadCountType, StoreCountType, MarkCopyType DEF Step
<1>2. CASE UNCHANGED vars
  BY <1>2 DEF vars, TypeOK
<1> QED BY <1>1, <1>2 DEF Next

(* Type correctness of the counter, the threads and the histories.         *)
THEOREM TypeCorrect == Spec => []TypeOK
BY TypeInit, TypeStep, PTL DEF Spec

------------------------------------------------------------------------------
(* The counter and the values loaded from it lag behind the admissions; a  *)
(* refusal, which saw count >= Cap, therefore saw Cap admissions.          *)
IInv == TypeOK /\ CountBehindAdmitted /\ RefusedOnlyAfterCap

LEMMA MirrorInit == Init => IInv
<1> SUFFICES ASSUME Init PROVE IInv
  OBVIOUS
<1>1. \A t \in Threads : thread[t].at # "store"
  BY DEF Init, Out, At
<1> QED BY <1>1, TypeInit DEF IInv, CountBehindAdmitted, RefusedOnlyAfterCap, Init

LEMMA PrintBehind ==
  ASSUME IInv, NEW t \in Threads, Emit(t)
  PROVE  CountBehindAdmitted' /\ RefusedOnlyAfterCap'
<1>1. \A u \in Threads : thread'[u].at = "store" => thread'[u] = thread[u]
  BY DEF Emit, At, IInv, TypeOK
<1>2. count' = count /\ admitted' = admitted
  BY DEF Emit
<1>3. refused' # refused => count >= Cap
  BY MirrorAssumption DEF Emit, IInv, TypeOK
<1>4. count \in Nat /\ admitted \in Nat /\ count <= admitted
  BY DEF IInv, TypeOK, CountBehindAdmitted
<1>5. RefusedOnlyAfterCap'
  BY <1>2, <1>3, <1>4, MirrorAssumption DEF IInv, RefusedOnlyAfterCap
<1> QED BY <1>1, <1>2, <1>5 DEF CountBehindAdmitted, IInv

LEMMA LoadBehind ==
  ASSUME IInv, NEW t \in Threads, LoadCount(t)
  PROVE  CountBehindAdmitted' /\ RefusedOnlyAfterCap'
<1>1. \A u \in Threads : thread'[u] = IF u = t THEN At("store", count, 0) ELSE thread[u]
  BY DEF LoadCount, IInv, TypeOK
<1>2. At("store", count, 0).loaded = count
  BY DEF At
<1>3. count' = count /\ admitted' = admitted /\ refused' = refused
  BY DEF LoadCount
<1> QED BY <1>1, <1>2, <1>3 DEF CountBehindAdmitted, RefusedOnlyAfterCap, IInv

LEMMA StoreBehind ==
  ASSUME IInv, NEW t \in Threads, StoreCount(t)
  PROVE  CountBehindAdmitted' /\ RefusedOnlyAfterCap'
<1>1. \A u \in Threads : thread'[u] = IF u = t THEN At("mark", 0, 1) ELSE thread[u]
  BY DEF StoreCount, IInv, TypeOK
<1>2. At("mark", 0, 1).at # "store"
  BY DEF At
<1>3. /\ count' = thread[t].loaded + 1 /\ admitted' = admitted + 1
      /\ refused' = refused /\ thread[t].loaded <= admitted
  BY DEF StoreCount, IInv, CountBehindAdmitted
<1>4. /\ admitted \in Nat /\ count \in Nat
      /\ \A u \in Threads : thread[u].loaded \in Nat
  BY DEF IInv, TypeOK
<1>5. \A u \in Threads : thread'[u].at = "store" => thread'[u].loaded <= admitted + 1
  BY <1>1, <1>2, <1>4 DEF IInv, CountBehindAdmitted
<1> QED BY <1>3, <1>4, <1>5, MirrorAssumption
        DEF CountBehindAdmitted, RefusedOnlyAfterCap, IInv

LEMMA MarkBehind ==
  ASSUME IInv, NEW t \in Threads, MarkCopy(t)
  PROVE  CountBehindAdmitted' /\ RefusedOnlyAfterCap'
<1>1. \A u \in Threads : thread'[u].at = "store" => thread'[u] = thread[u]
  BY DEF MarkCopy, At, Out, IInv, TypeOK
<1>2. count' = count /\ admitted' = admitted /\ refused' = refused
  BY DEF MarkCopy
<1> QED BY <1>1, <1>2 DEF CountBehindAdmitted, RefusedOnlyAfterCap, IInv

LEMMA MirrorStep == IInv /\ [Next]_vars => IInv'
<1> SUFFICES ASSUME IInv, [Next]_vars PROVE CountBehindAdmitted' /\ RefusedOnlyAfterCap'
  BY TypeStep DEF IInv
<1>1. ASSUME NEW t \in Threads, Step(t)
      PROVE  CountBehindAdmitted' /\ RefusedOnlyAfterCap'
  <2>1. CASE Exit(t)
    BY <2>1 DEF Exit, CountBehindAdmitted, RefusedOnlyAfterCap, IInv
  <2> QED BY <1>1, <2>1, PrintBehind, LoadBehind, StoreBehind, MarkBehind DEF Step
<1>2. CASE UNCHANGED vars
  BY <1>2 DEF vars, CountBehindAdmitted, RefusedOnlyAfterCap, IInv
<1> QED BY <1>1, <1>2 DEF Next

(* Lost updates make the mirrors' counter too small, never too large.      *)
THEOREM CountNeverAhead == Spec => []CountBehindAdmitted
<1>1. IInv => CountBehindAdmitted
  BY DEF IInv
<1> QED BY <1>1, MirrorInit, MirrorStep, PTL DEF Spec

(* The race of test and increment costs no message its place: one is       *)
(* turned away only after Cap messages have been admitted.                 *)
THEOREM RefusalsAfterCap == Spec => []RefusedOnlyAfterCap
<1>1. IInv => RefusedOnlyAfterCap
  BY DEF IInv
<1> QED BY <1>1, MirrorInit, MirrorStep, PTL DEF Spec

------------------------------------------------------------------------------
(***************************************************************************)
(* What the mirror holds.  MirroredInFull speaks of messages a thread is   *)
(* done with; to keep it, the number of lines of the message a thread is   *)
(* still mirroring has to be known too: it is the copy it writes next, less*)
(* one.                                                                    *)
(***************************************************************************)
MirrorLines == [msg : Threads \X (1 .. MaxMessages), seq : Nat, copy : 1 .. Copies]

CopiesMade(t, k) ==
  IF k < sent[t] \/ thread[t].at = "out" THEN Copies
  ELSE IF thread[t].at = "mark" THEN thread[t].copy - 1 ELSE 0

(* Only messages that were sent are mirrored or refused, and a thread that *)
(* mirrors one was not refused it.                                         *)
OnlySent ==
  /\ mirror \in Seq(MirrorLines)
  /\ \A i \in DOMAIN mirror : \A t \in Threads, k \in Nat :
       mirror[i].msg = <<t, k>> => k <= sent[t]
  /\ \A t \in Threads, k \in Nat : <<t, k>> \in refused => k <= sent[t]
  /\ \A t \in Threads :
       thread[t].at # "out" => sent[t] >= 1 /\ <<t, sent[t]>> \notin refused
  /\ \A t \in Threads : thread[t].at = "mark" => thread[t].copy \in 1 .. Copies

Admitted(t, k) ==
  LET m == <<t, k>> IN
    /\ Cardinality(Mirrored(m)) = CopiesMade(t, k)
    /\ \A i \in Mirrored(m) : mirror[i].copy <= CopiesMade(t, k)
    /\ \A i, j \in Mirrored(m) : i < j => mirror[i].copy < mirror[j].copy

CopiesCounted ==
  \A t \in Threads : \A k \in 1 .. sent[t] :
    IF <<t, k>> \in refused THEN Mirrored(<<t, k>>) = {} ELSE Admitted(t, k)

MirrorInv == TypeOK /\ OnlySent /\ CopiesCounted

LEMMA MirrorInvInit == Init => MirrorInv
<1> SUFFICES ASSUME Init PROVE MirrorInv
  OBVIOUS
<1>1. \A t \in Threads : thread[t].at = "out" /\ sent[t] = 0
  BY DEF Init, Out, At
<1>2. mirror \in Seq(MirrorLines) /\ DOMAIN mirror = {}
  BY DEF Init
<1> QED BY <1>1, <1>2, TypeInit DEF Init, MirrorInv, OnlySent, CopiesCounted

(* Steps that leave the mirror and the messages sent and refused alone, and*)
(* the number of copies made of each message.                              *)
LEMMA MirrorKept ==
  ASSUME MirrorInv, TypeOK', UNCHANGED <<mirror, sent, refused>>,
         \A t \in Threads :
           /\ thread'[t].at = "out" <=> thread[t].at = "out"
           /\ thread'[t].at = "mark" => thread'[t].copy \in 1 .. Copies
           /\ CopiesMade(t, sent[t])' = CopiesMade(t, sent[t])
  PROVE  MirrorInv'
<1>1. OnlySent'
  BY DEF MirrorInv, OnlySent
<1>2. \A m : Mirrored(m)' = Mirrored(m)
  BY DEF Mirrored
<1>3. CopiesCounted'
  <2> SUFFICES ASSUME NEW t \in Threads, NEW k \in 1 .. sent[t]
               PROVE  IF <<t, k>> \in refused THEN Mirrored(<<t, k>>)' = {}
                                              ELSE Admitted(t, k)'
    BY DEF CopiesCounted
  <2>1. CopiesMade(t, k)' = CopiesMade(t, k)
    <3>1. sent[t] \in Nat /\ (k = sent[t] \/ k < sent[t])
      BY MirrorAssumption DEF MirrorInv, TypeOK
    <3>2. CASE k = sent[t]
      BY <3>2
    <3>3. CASE k < sent[t]
      BY <3>3 DEF CopiesMade
    <3> QED BY <3>1, <3>2, <3>3
  <2>2. IF <<t, k>> \in refused THEN Mirrored(<<t, k>>) = {} ELSE Admitted(t, k)
    BY DEF MirrorInv, CopiesCounted
  <2> QED BY <1>2, <2>1, <2>2 DEF Admitted
<1> QED BY <1>1, <1>3 DEF MirrorInv

LEMMA EmitMirror ==
  ASSUME MirrorInv, TypeOK', NEW t \in Threads, Emit(t)
  PROVE  MirrorInv'
<1>0. PICK n \in Nat : n = sent[t] + 1
  BY MirrorAssumption DEF MirrorInv, TypeOK
<1>1. /\ thread[t].at = "out" /\ mirror' = mirror
      /\ sent' = [sent EXCEPT ![t] = n] /\ sent[t] \in Nat /\ n \in Nat
      /\ \/ thread' = [thread EXCEPT ![t] = At("load", 0, 0)] /\ refused' = refused
         \/ refused' = refused \cup {<<t, n>>} /\ thread' = thread
  BY <1>0, MirrorAssumption DEF Emit, MirrorInv, TypeOK
<1>2. /\ sent'[t] = n
      /\ \A u \in Threads \ {t} : sent'[u] = sent[u] /\ thread'[u] = thread[u]
      /\ \A u \in Threads : sent[u] \in Nat /\ sent'[u] \in Nat /\ sent[u] <= sent'[u]
  BY <1>0, <1>1, MirrorAssumption DEF MirrorInv, TypeOK
<1>3. \/ thread'[t].at = "load" /\ refused' = refused
      \/ refused' = refused \cup {<<t, n>>} /\ thread' = thread
  BY <1>1 DEF At, MirrorInv, TypeOK
<1>4. <<t, n>> \notin refused /\ Mirrored(<<t, n>>) = {}
  BY <1>0, <1>1 DEF MirrorInv, OnlySent, Mirrored
<1>5. \A u \in Threads, k \in Nat : k <= sent[u] => k <= sent'[u]
  BY <1>2
<1>6. OnlySent'
  <2>1. \A u \in Threads, k \in Nat : <<u, k>> \in refused' => k <= sent'[u]
    BY <1>1, <1>2, <1>5 DEF MirrorInv, OnlySent
  <2>2. ASSUME NEW u \in Threads, thread'[u].at # "out"
        PROVE  sent'[u] >= 1 /\ <<u, sent'[u]>> \notin refused'
    <3>1. CASE u = t
      <4>1. refused' = refused
        BY <1>1, <1>3, <2>2, <3>1
      <4> QED BY <1>1, <1>2, <1>0, <1>4, <3>1, <4>1
    <3>2. CASE u # t
      <4>1. sent[u] >= 1 /\ <<u, sent[u]>> \notin refused
        BY <1>2, <2>2, <3>2 DEF MirrorInv, OnlySent
      <4> QED BY <1>1, <1>2, <3>2, <4>1
    <3> QED BY <3>1, <3>2
  <2>3. \A u \in Threads : thread'[u].at = "mark" => thread'[u].copy \in 1 .. Copies
    BY <1>1, <1>2, <1>3 DEF MirrorInv, OnlySent
  <2> QED BY <1>1, <1>5, <2>1, <2>2, <2>3 DEF MirrorInv, OnlySent
<1>7. \A m : Mirrored(m)' = Mirrored(m)
  BY <1>1 DEF Mirrored
<1>8. CopiesCounted'
  <2> SUFFICES ASSUME NEW u \in Threads, NEW k \in 1 .. sent'[u]
               PROVE  IF <<u, k>> \in refused' THEN Mirrored(<<u, k>>)' = {}
                                               ELSE Admitted(u, k)'
    BY DEF CopiesCounted
  <2>1. CASE u = t /\ k = n
    <3>1. CASE <<t, n>> \in refused'
      BY <1>4, <1>7, <2>1, <3>1
    <3>2. CASE <<t, n>> \notin refused'
      <4>1. thread'[t].at = "load"
        BY <1>3, <3>2
      <4>2. CopiesMade(t, n)' = 0
        BY <1>1, <1>2, <4>1 DEF CopiesMade
      <4>3. Mirrored(<<t, n>>)' = {} /\ Cardinality(Mirrored(<<t, n>>)') = 0
        BY <1>4, <1>7, FS_EmptySet
      <4> QED BY <2>1, <3>2, <4>2, <4>3 DEF Admitted
    <3> QED BY <3>1, <3>2
  <2>2. CASE ~(u = t /\ k = n)
    <3>1. k \in 1 .. sent[u]
      BY <1>0, <1>1, <1>2, <2>2
    <3>2. CopiesMade(u, k)' = CopiesMade(u, k)
      <4>1. CASE u = t
        BY <1>0, <1>1, <1>2, <2>2, <3>1, <4>1 DEF CopiesMade
      <4>2. CASE u # t
        BY <1>2, <4>2 DEF CopiesMade
      <4> QED BY <4>1, <4>2
    <3>3. <<u, k>> \in refused' <=> <<u, k>> \in refused
      BY <1>1, <2>2
    <3>4. IF <<u, k>> \in refused THEN Mirrored(<<u, k>>) = {} ELSE Admitted(u, k)
      BY <3>1 DEF MirrorInv, CopiesCounted
    <3> QED BY <1>1, <1>7, <3>2, <3>3, <3>4 DEF Admitted
  <2> QED BY <2>1, <2>2
<1> QED BY <1>6, <1>8 DEF MirrorInv

LEMMA CountMirror ==
  ASSUME MirrorInv, TypeOK', NEW t \in Threads, LoadCount(t) \/ StoreCount(t)
  PROVE  MirrorInv'
<1>1. UNCHANGED <<mirror, sent, refused>>
  BY DEF LoadCount, StoreCount
<1>2. \A u \in Threads \ {t} : thread'[u] = thread[u]
  BY DEF LoadCount, StoreCount, MirrorInv, TypeOK
<1>3. /\ thread[t].at \in {"load", "store"}
      /\ \/ thread'[t].at = "store"
         \/ thread'[t].at = "mark" /\ thread'[t].copy = 1
  BY DEF LoadCount, StoreCount, At, MirrorInv, TypeOK
<1>4. 1 \in 1 .. Copies
  BY MirrorAssumption
<1>5. \A u \in Threads : sent[u] \in Nat
  BY MirrorAssumption DEF MirrorInv, TypeOK
<1>6. CopiesMade(t, sent[t])' = CopiesMade(t, sent[t])
  BY <1>1, <1>3, <1>5 DEF CopiesMade
<1>7. \A u \in Threads \ {t} : CopiesMade(u, sent[u])' = CopiesMade(u, sent[u])
  BY <1>1, <1>2 DEF CopiesMade
<1>8. \A u \in Threads : /\ thread'[u].at = "out" <=> thread[u].at = "out"
                         /\ thread'[u].at = "mark" => thread'[u].copy \in 1 .. Copies
  BY <1>2, <1>3, <1>4 DEF MirrorInv, OnlySent
<1> QED BY <1>1, <1>6, <1>7, <1>8, MirrorKept

(* Appending a line of message m adds one index to m's and to no other's.  *)
LEMMA AppendLine ==
  ASSUME mirror \in Seq(MirrorLines), NEW r \in MirrorLines, mirror' = Append(mirror, r)
  PROVE  /\ mirror' \in Seq(MirrorLines)
         /\ \A m : Mirrored(m) \subseteq 1 .. Len(mirror)
         /\ \A m : Mirrored(m)' = Mirrored(m) \cup (IF r.msg = m THEN {Len(mirror) + 1} ELSE {})
         /\ DOMAIN mirror' = DOMAIN mirror \cup {Len(mirror) + 1}
         /\ \A i \in DOMAIN mirror : mirror'[i] = mirror[i]
         /\ mirror'[Len(mirror) + 1] = r
<1>1. /\ mirror' \in Seq(MirrorLines) /\ Len(mirror) \in Nat
      /\ DOMAIN mirror = 1 .. Len(mirror) /\ DOMAIN mirror' = 1 .. Len(mirror) + 1
      /\ \A i \in 1 .. Len(mirror) : mirror'[i] = mirror[i]
      /\ mirror'[Len(mirror) + 1] = r
  OBVIOUS
<1>2. \A m : Mirrored(m) \subseteq 1 .. Len(mirror)
  BY <1>1 DEF Mirrored
<1>3. DOMAIN mirror' = DOMAIN mirror \cup {Len(mirror) + 1}
  BY <1>1
<1>4. ASSUME NEW m
      PROVE  Mirrored(m)' = Mirrored(m) \cup (IF r.msg = m THEN {Len(mirror) + 1} ELSE {})
  BY <1>1, <1>3 DEF Mirrored
<1> QED BY <1>1, <1>2, <1>3, <1>4

LEMMA MarkMirror ==
  ASSUME MirrorInv, TypeOK', NEW t \in Threads, MarkCopy(t)
  PROVE  MirrorInv'
<1>0. PICK n, c, last, r, m :
        /\ n = sent[t] /\ c = thread[t].copy /\ last = Len(mirror) + 1 /\ m = <<t, n>>
        /\ r = [msg |-> m, seq |-> count, copy |-> c]
  OBVIOUS
<1>1. /\ thread[t].at = "mark" /\ UNCHANGED <<count, sent, refused>>
      /\ mirror' = Append(mirror, r) /\ mirror \in Seq(MirrorLines)
  BY <1>0 DEF MarkCopy, Message, MirrorInv, OnlySent
<1>2. c \in 1 .. Copies /\ n \in 1 .. MaxMessages /\ m \notin refused
  BY <1>0, <1>1, MirrorAssumption DEF MirrorInv, OnlySent, TypeOK
<1>3. r \in MirrorLines
  BY <1>0, <1>2 DEF MirrorInv, TypeOK, MirrorLines
<1>4. r.msg = m /\ r.copy = c /\ sent[t] = n /\ last = Len(mirror) + 1 /\ m = <<t, n>>
  BY <1>0
<1>5. \A u \in Threads \ {t} : thread'[u] = thread[u]
  BY DEF MarkCopy, MirrorInv, TypeOK
<1>6. IF c = Copies THEN thread'[t].at = "out"
      ELSE thread'[t].at = "mark" /\ thread'[t].copy = c + 1
  BY <1>0 DEF MarkCopy, At, Out, MirrorInv, TypeOK
<1>7. /\ mirror' \in Seq(MirrorLines)
      /\ \A k : Mirrored(k) \subseteq 1 .. Len(mirror)
      /\ \A k : Mirrored(k)' = Mirrored(k) \cup (IF m = k THEN {last} ELSE {})
      /\ DOMAIN mirror' = DOMAIN mirror \cup {last}
      /\ \A i \in DOMAIN mirror : mirror'[i] = mirror[i]
      /\ mirror'[last] = r
  BY <1>1, <1>3, <1>4, AppendLine
<1>8. OnlySent'
  <2>1. ASSUME NEW i \in DOMAIN mirror', NEW u \in Threads, NEW k \in Nat,
               mirror'[i].msg = <<u, k>>
        PROVE  k <= sent'[u]
    <3>1. CASE i = last
      BY <1>1, <1>2, <1>4, <1>7, <2>1, <3>1, MirrorAssumption
    <3>2. CASE i \in DOMAIN mirror
      BY <1>1, <1>7, <2>1, <3>2 DEF MirrorInv, OnlySent
    <3> QED BY <1>7, <3>1, <3>2
  <2>2. \A u \in Threads : thread'[u].at # "out" => thread[u].at # "out"
    BY <1>1, <1>5
  <2>3. \A u \in Threads : thread'[u].at = "mark" => thread'[u].copy \in 1 .. Copies
    BY <1>2, <1>5, <1>6, MirrorAssumption DEF MirrorInv, OnlySent
  <2> QED BY <1>1, <1>7, <2>1, <2>2, <2>3 DEF MirrorInv, OnlySent
<1>9. CopiesMade(t, n) = c - 1 /\ CopiesMade(t, n)' = c
  BY <1>0, <1>1, <1>2, <1>6, MirrorAssumption DEF CopiesMade
<1>10. Admitted(t, n)'
  <2>1. Admitted(t, n)
    BY <1>2, <1>4 DEF MirrorInv, CopiesCounted
  <2>2. /\ IsFiniteSet(Mirrored(m)) /\ last \notin Mirrored(m)
        /\ \A i \in Mirrored(m) : i \in DOMAIN mirror /\ i < last
    <3>1. Mirrored(m) \subseteq 1 .. Len(mirror) /\ Len(mirror) \in Nat
      BY <1>1, <1>7
    <3>2. IsFiniteSet(1 .. Len(mirror))
      BY <3>1, FS_Interval
    <3>3. IsFiniteSet(Mirrored(m))
      BY <3>1, <3>2, FS_Subset
    <3>4. last \in Nat /\ last = Len(mirror) + 1 /\ DOMAIN mirror = 1 .. Len(mirror)
      BY <1>1, <1>4, <3>1
    <3>5. \A i \in Mirrored(m) : i \in 1 .. Len(mirror)
      BY <3>1
    <3>6. \A i \in 1 .. Len(mirror) : i < last
      BY <3>1, <3>4
    <3> QED BY <3>3, <3>4, <3>5, <3>6
  <2>3. Mirrored(m)' = Mirrored(m) \cup {last}
    BY <1>7
  <2>4. Cardinality(Mirrored(m)') = c
    <3>1. Cardinality(Mirrored(m)) = c - 1
      BY <1>4, <1>9, <2>1 DEF Admitted
    <3>2. Cardinality(Mirrored(m) \cup {last}) = Cardinality(Mirrored(m)) + 1
      BY <2>2, FS_AddElement
    <3> QED BY <1>2, <2>3, <3>1, <3>2
  <2>5. /\ \A i \in Mirrored(m) : mirror'[i].copy <= c - 1 /\ mirror'[i].copy \in 1 .. Copies
        /\ mirror'[last].copy = c
    <3>1. \A i \in Mirrored(m) : mirror[i].copy <= c - 1
      BY <1>4, <1>9, <2>1 DEF Admitted
    <3>2. \A i \in DOMAIN mirror : mirror[i].copy \in 1 .. Copies
      <4>1. \A i \in DOMAIN mirror : mirror[i] \in MirrorLines
        BY <1>1
      <4> QED BY <4>1 DEF MirrorLines
    <3> QED BY <1>4, <1>7, <2>2, <3>1, <3>2
  <2>6. \A i \in Mirrored(m)' : mirror'[i].copy <= c
    BY <1>2, <2>3, <2>5
  <2>7. ASSUME NEW i \in Mirrored(m)', NEW j \in Mirrored(m)', i < j
        PROVE  mirror'[i].copy < mirror'[j].copy
    <3>1. i # last
      <4>1. \A x \in Mirrored(m) : ~(last < x)
        BY <1>1, <1>4, <2>2, <1>7
      <4>2. ~(last < last)
        BY <1>1, <1>4
      <4> QED BY <2>3, <2>7, <4>1, <4>2
    <3>2. i \in Mirrored(m)
      BY <2>3, <2>7, <3>1
    <3>3. CASE j = last
      BY <1>2, <2>5, <3>2, <3>3
    <3>4. CASE j \in Mirrored(m)
      <4>1. mirror[i].copy < mirror[j].copy
        BY <1>4, <2>1, <2>7, <3>2, <3>4 DEF Admitted
      <4> QED BY <1>7, <2>2, <3>2, <3>4, <4>1
    <3> QED BY <2>3, <2>7, <3>3, <3>4
  <2> QED BY <1>4, <1>9, <2>4, <2>6, <2>7 DEF Admitted
<1>11. CopiesCounted'
  <2> SUFFICES ASSUME NEW u \in Threads, NEW k \in 1 .. sent[u]
               PROVE  IF <<u, k>> \in refused THEN Mirrored(<<u, k>>)' = {}
                                              ELSE Admitted(u, k)'
    BY <1>1 DEF CopiesCounted
  <2>1. CASE u = t /\ k = n
    BY <1>2, <1>4, <1>10, <2>1
  <2>2. CASE ~(u = t /\ k = n)
    <3>1. <<u, k>> # m
      BY <1>4, <2>2
    <3>2. Mirrored(<<u, k>>)' = Mirrored(<<u, k>>)
      BY <1>7, <3>1
    <3>3. CopiesMade(u, k)' = CopiesMade(u, k)
      <4>1. sent[u] \in Nat
        BY MirrorAssumption DEF MirrorInv, TypeOK
      <4> QED BY <1>1, <1>4, <1>5, <2>2, <4>1 DEF CopiesMade
    <3>4. \A i \in Mirrored(<<u, k>>) : mirror'[i] = mirror[i]
      BY <1>7 DEF Mirrored
    <3>5. IF <<u, k>> \in refused THEN Mirrored(<<u, k>>) = {} ELSE Admitted(u, k)
      BY DEF MirrorInv, CopiesCounted
    <3> QED BY <3>2, <3>3, <3>4, <3>5 DEF Admitted
  <2> QED BY <2>1, <2>2
<1> QED BY <1>8, <1>11 DEF MirrorInv

LEMMA MirrorInvStep == MirrorInv /\ [Next]_vars => MirrorInv'
<1> SUFFICES ASSUME MirrorInv, [Next]_vars PROVE MirrorInv'
  OBVIOUS
<1>0. TypeOK'
  BY TypeStep DEF MirrorInv
<1>1. ASSUME UNCHANGED <<thread, sent, mirror, refused>> PROVE MirrorInv'
  <2>1. \A t \in Threads : CopiesMade(t, sent[t])' = CopiesMade(t, sent[t])
    BY <1>1 DEF CopiesMade
  <2> QED BY <1>0, <1>1, <2>1, MirrorKept DEF MirrorInv, OnlySent
<1>2. ASSUME NEW t \in Threads, Step(t) PROVE MirrorInv'
  <2>1. CASE Exit(t)
    BY <1>1, <2>1 DEF Exit
  <2> QED BY <1>0, <1>2, <2>1, EmitMirror, CountMirror, MarkMirror DEF Step
<1>3. CASE UNCHANGED vars
  BY <1>1, <1>3 DEF vars
<1> QED BY <1>2, <1>3 DEF Next

LEMMA MirrorInvFull == MirrorInv => MirroredInFull
<1> SUFFICES ASSUME MirrorInv, NEW t \in Threads, NEW k \in 1 .. sent[t],
                    <<t, k>> \notin refused
             PROVE  /\ (k < sent[t] \/ thread[t].at = "out")
                         => Cardinality(Mirrored(<<t, k>>)) = Copies
                    /\ \A i, j \in Mirrored(<<t, k>>) :
                         i < j => mirror[i].copy < mirror[j].copy
  BY DEF MirroredInFull, CopiesInFull, MirrorInv, CopiesCounted
<1>1. Admitted(t, k)
  BY DEF MirrorInv, CopiesCounted
<1> QED BY <1>1 DEF Admitted, CopiesMade

(* However the printing threads interleave, a message the cap let through  *)
(* is in the mirror Copies times, in order, by the time its thread prints  *)
(* again, and one it turned away is not there at all.                      *)
THEOREM AdmittedInFull == Spec => []MirroredInFull
BY MirrorInvInit, MirrorInvStep, MirrorInvFull, PTL DEF Spec

==============================================================================
