------------------------------ MODULE KmsgMirror ------------------------------
(***************************************************************************)
(* The two capped printk mirrors.  Stage 93 copies PID 1's warnings and    *)
(* errors written to /dev/kmsg into the persistent zone, three lines each, *)
(* at most 32 messages; stage 94 copies storage-related printk text of any *)
(* context, one line each, at most 128.  Both test a plain global counter, *)
(* then increment it, then print it, with no lock: devkmsg_write() and the *)
(* head of vprintk_emit() run concurrently and preemptibly.                *)
(*                                                                         *)
(* Abstraction: only messages the filters accept (tgid 1 and level <= 4,   *)
(* or a storage keyword) are modelled; a message is a thread and a number. *)
(* The zone is the sequence of mirrored lines; what the ring does to them  *)
(* is DiagZone's subject.  admitted and refused are history variables.     *)
(***************************************************************************)
EXTENDS Integers, Sequences, FiniteSets

CONSTANTS
  Threads,        (* The contexts that print.                              *)
  Cap,            (* 32 in stage 93, 128 in stage 94.                      *)
  Copies,         (* Lines per message: 3 in stage 93, 1 in stage 94.      *)
  MaxMessages     (* Bounds the model: messages of one thread.             *)

ASSUME MirrorAssumption ==
  Cap \in Nat /\ Copies \in Nat \ {0} /\ MaxMessages \in Nat \ {0}

VARIABLES
  count,          (* a52_pid1_kmsg_count or a52_storage_kmsg_count.        *)
  thread,         (* Per thread: where it is, and what it loaded.          *)
  sent,           (* Per thread: the messages it has begun to print.       *)
  mirror,         (* The mirrored lines, in order.                         *)
  exited,         (* Threads that have died after their last message.      *)
  admitted,       (* History: messages that have passed the increment.     *)
  refused         (* History: messages the cap turned away.                *)

vars == <<count, thread, sent, mirror, exited, admitted, refused>>

Message(t) == <<t, sent[t]>>
At(place, loaded, copy) == [at |-> place, loaded |-> loaded, copy |-> copy]
Out == At("out", 0, 0)

Init ==
  /\ count    = 0
  /\ thread   = [t \in Threads |-> Out]
  /\ sent     = [t \in Threads |-> 0]
  /\ mirror   = <<>>
  /\ exited   = {}
  /\ admitted = 0
  /\ refused  = {}

(* Mutant of Emit: the cap is off by one.                                  *)
EmitCapLow(t) ==
  /\ thread[t].at = "out" /\ t \notin exited /\ sent[t] < MaxMessages
  /\ sent' = [sent EXCEPT ![t] = @ + 1]
  /\ IF count < Cap - 1
     THEN thread' = [thread EXCEPT ![t] = At("load", 0, 0)] /\ UNCHANGED refused
     ELSE refused' = refused \cup {<<t, sent[t] + 1>>} /\ UNCHANGED thread
  /\ UNCHANGED <<count, mirror, exited, admitted>>

(* The test of the counter.                                                *)
Emit(t) ==
  /\ thread[t].at = "out" /\ t \notin exited /\ sent[t] < MaxMessages
  /\ sent' = [sent EXCEPT ![t] = @ + 1]
  /\ \/ /\ count < Cap
        /\ thread' = [thread EXCEPT ![t] = At("load", 0, 0)]
        /\ UNCHANGED refused
     \/ /\ count >= Cap
        /\ refused' = refused \cup {<<t, sent[t] + 1>>}
        /\ UNCHANGED thread
  /\ UNCHANGED <<count, mirror, exited, admitted>>

(* The increment is a load and a store.                                    *)
LoadCount(t) ==
  /\ thread[t].at = "load"
  /\ thread' = [thread EXCEPT ![t] = At("store", count, 0)]
  /\ UNCHANGED <<count, sent, mirror, exited, admitted, refused>>

StoreCount(t) ==
  /\ thread[t].at = "store"
  /\ count' = thread[t].loaded + 1
  /\ thread' = [thread EXCEPT ![t] = At("mark", 0, 1)]
  /\ admitted' = admitted + 1
  /\ UNCHANGED <<sent, mirror, exited, refused>>

(* Mutant of MarkCopy: one copy too few.                                   *)
MarkCopyFew(t) ==
  /\ thread[t].at = "mark"
  /\ mirror' = Append(mirror, [msg |-> Message(t), seq |-> count, copy |-> thread[t].copy])
  /\ thread' = [thread EXCEPT ![t] =
                  IF @.copy + 1 = Copies THEN Out ELSE At("mark", 0, @.copy + 1)]
  /\ UNCHANGED <<count, sent, exited, admitted, refused>>

(* Every copy reads the counter again for its seq= field.                  *)
MarkCopy(t) ==
  /\ thread[t].at = "mark"
  /\ mirror' = Append(mirror, [msg |-> Message(t), seq |-> count,
                               copy |-> thread[t].copy])
  /\ thread' = [thread EXCEPT ![t] =
                  IF @.copy = Copies THEN Out ELSE At("mark", 0, @.copy + 1)]
  /\ UNCHANGED <<count, sent, exited, admitted, refused>>

(* The last message of a thread explains why it dies; then it dies.        *)
Exit(t) ==
  /\ thread[t].at = "out" /\ sent[t] = MaxMessages /\ t \notin exited
  /\ exited' = exited \cup {t}
  /\ UNCHANGED <<count, thread, sent, mirror, admitted, refused>>

Step(t) == Emit(t) \/ LoadCount(t) \/ StoreCount(t) \/ MarkCopy(t) \/ Exit(t)

Next == \E t \in Threads : Step(t)

Spec == Init /\ [][Next]_vars

-------------------------------------------------------------------------------
Places == {"out", "load", "store", "mark"}

(* The types of the counter, of the threads and of the history.            *)
TypeOK ==
  /\ count \in Nat /\ admitted \in Nat
  /\ thread \in [Threads -> [at : Places, loaded : Nat, copy : 0 .. Copies]]
  /\ sent \in [Threads -> 0 .. MaxMessages]
  /\ refused \subseteq Threads \X (1 .. MaxMessages)
  /\ exited \subseteq Threads

(* Lost updates only ever make the counter too small: it never runs ahead  *)
(* of the messages admitted, nor does a value a thread is about to write.  *)
CountBehindAdmitted ==
  /\ count <= admitted
  /\ \A t \in Threads : thread[t].at = "store" => thread[t].loaded <= admitted

(* So the race never costs a message its place: one is turned away only    *)
(* after at least Cap messages were admitted.                              *)
RefusedOnlyAfterCap == refused # {} => admitted >= Cap

Mirrored(m) == {i \in DOMAIN mirror : mirror[i].msg = m}

(* An admitted message is mirrored in full, its copies in order and once,  *)
(* by the time its thread prints again, and a refused one not at all.      *)
CopiesInFull ==
  \A t \in Threads : \A k \in 1 .. sent[t] :
    LET m    == <<t, k>>
        done == k < sent[t] \/ thread[t].at = "out"
    IN  IF m \in refused THEN Mirrored(m) = {}
        ELSE /\ done => Cardinality(Mirrored(m)) = Copies
             /\ \A i, j \in Mirrored(m) : i < j => mirror[i].copy < mirror[j].copy

(* The mirror's records, its counter and its threads are well-formed too.  *)
MirroredInFull == TypeOK /\ CopiesInFull

Messages == {mirror[i].msg : i \in DOMAIN mirror}

(* Stage 93's report: the mirror preserves the fatal explanation of PID 1, *)
(* the last message it writes before it dies.                              *)
FatalExplanationPreserved == \A t \in exited : <<t, MaxMessages>> \in Messages

==============================================================================
