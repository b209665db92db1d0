------------------------------ MODULE PolicyLock ------------------------------
(***************************************************************************)
(* SukiSU's changes to the live SELinux policy of the 4.19 kernel.  Boot   *)
(* applies its own rules (apply_kernelsu_rules) and user space sends       *)
(* batches (handle_sepolicy); both change selinux_state.ss->policydb in    *)
(* place, under policy_rwlock, and reset the AVC afterwards.  Lookups of   *)
(* other threads search the AVC inside an RCU read section and, when they  *)
(* miss, compute a decision from the policy under the read lock.           *)
(*                                                                         *)
(* Abstraction: of the policy, the types with their three arrays, the      *)
(* allow rules and the filename transitions; a batch is a sequence of      *)
(* commands, some malformed.  The lock is the kernel's queued rwlock: a    *)
(* waiting writer keeps new readers out, except those in an interrupt.     *)
(* Lookups, the AVC and RCU are the kernel's own code, modelled as far as  *)
(* the patched code relies on them.                                        *)
(*                                                                         *)
(* write_lock() leaves softirqs enabled, so a lookup (of a packet, say)    *)
(* may interrupt an updater on its own CPU, and the updater goes no        *)
(* further until that lookup is over.                                      *)
(*                                                                         *)
(* History variables: version counts the updates unlocked, flushed is the  *)
(* version of the last AVC reset, starved holds the types whose arrays     *)
(* could not be allocated, reported the commands that have returned true.  *)
(***************************************************************************)
EXTENDS Integers, Sequences, FiniteSets, SequencesExt

CONSTANTS
  Updaters,       (* Threads that change the policy.                       *)
  Lookups,        (* Threads that ask for a decision.                      *)
  Types,          (* Names of types.                                       *)
  BootTypes,      (* Those of the policy init loads, in the order of their *)
                  (* values.                                               *)
  Jobs,           (* What an updater may be asked to do.                   *)
  Queries,        (* The decisions asked for: <<source, target>>.          *)
  Null,           (* An array element that was never put; no writer; no    *)
                  (* AVC entry.                                            *)
  MaxUpdates      (* Bounds the model: updates begun.                      *)

AddType(t)  == [cmd |-> "type",  of |-> <<t>>]
Allow(s, t) == [cmd |-> "allow", of |-> <<s, t>>]
Trans(t)    == [cmd |-> "trans", of |-> <<t>>]
Malformed   == [cmd |-> "malformed", of |-> <<>>]

Commands ==
  {AddType(t) : t \in Types} \cup {Allow(s, t) : s, t \in Types}
  \cup {Trans(t) : t \in Types} \cup {Malformed}

ASSUME PolicyAssumption ==
  /\ BootTypes \in Seq(Types) /\ IsInjective(BootTypes)
  /\ Null \notin Types \cup Updaters
  /\ Updaters \cap Lookups = {}
  /\ Queries \subseteq Types \X Types
  /\ Jobs \subseteq [kind : {"rules", "batch"}, cmds : Seq(Commands)]
  /\ \A j \in Jobs : j.kind = "rules" => Malformed \notin ToSet(j.cmds)
  /\ MaxUpdates \in Nat

VARIABLES
  ss,             (* selinux_state.ss is set.                              *)
  db,             (* ss->policydb.                                         *)
  writer,         (* The updater that holds policy_rwlock, or Null.        *)
  readers,        (* The lookups that hold it.                             *)
  rcu,            (* The threads inside an RCU read section.               *)
  update,         (* Per updater, what it is doing.                        *)
  lookup,         (* Per lookup, what it is doing.                         *)
  avc,            (* Per query, the cached decision.                       *)
  begun,          (* Updates begun.                                        *)
  version, flushed, starved, reported

vars == <<ss, db, writer, readers, rcu, update, lookup, avc, begun,
          version, flushed, starved, reported>>

history == <<version, flushed, starved, reported>>

NoJob == [at |-> "idle", kind |-> "rules", cmds |-> <<>>, value |-> 0, waits |-> {}]

(* on is the updater whose CPU the lookup has interrupted, Null for a      *)
(* lookup of a thread.                                                     *)
Out == [at |-> "out", on |-> Null, q |-> <<>>, slot |-> Null, granted |-> FALSE,
        version |-> 0]

Init ==
  /\ ss = FALSE
  /\ db = [nprim |-> Len(BootTypes),
           value |-> [t \in Types |->
             IF t \in ToSet(BootTypes) THEN CHOOSE i \in DOMAIN BootTypes : BootTypes[i] = t
             ELSE 0],
           attr |-> BootTypes, struct |-> BootTypes, name |-> BootTypes,
           allow |-> {}, trans |-> {}, ttypes |-> {}]
  /\ writer = Null /\ readers = {} /\ rcu = {}
  /\ update = [u \in Updaters |-> NoJob]
  /\ lookup = [l \in Lookups |-> Out]
  /\ avc = [q \in Queries |-> Null]
  /\ begun = 0 /\ version = 0 /\ flushed = 0
  /\ starved = {} /\ reported = {}

(* security_load_policy: the security server is there from now on.         *)
ServerStarts ==
  /\ ~ss /\ ss' = TRUE
  /\ UNCHANGED <<db, writer, readers, rcu, update, lookup, avc, begun, history>>

(***************************************************************************)
(* An update.                                                              *)
(***************************************************************************)
At(u, place) == update[u].at = place
Goto(u, place) == update' = [update EXCEPT ![u].at = place]

Begin(u, job) ==
  /\ At(u, "idle") /\ begun < MaxUpdates
  /\ begun' = begun + 1
  /\ update' = [update EXCEPT ![u] =
       [NoJob EXCEPT !.at   = IF job.kind = "batch" THEN "validate" ELSE "find",
                     !.kind = job.kind, !.cmds = job.cmds]]
  /\ UNCHANGED <<ss, db, writer, readers, rcu, lookup, avc, history>>

(* validate_sepolicy_batch(): every command of the private copy parses.    *)
WellFormed(cmds) == Malformed \notin ToSet(cmds)

(* A batch is rejected when it is empty, cannot be copied or is malformed. *)
Reject(u) ==
  /\ At(u, "validate")
  /\ update' = [update EXCEPT ![u] = NoJob]
  /\ UNCHANGED <<ss, db, writer, readers, rcu, lookup, avc, begun, history>>

Validated(u) ==
  /\ At(u, "validate") /\ update[u].cmds # <<>> /\ WellFormed(update[u].cmds)
  /\ Goto(u, "find")
  /\ UNCHANGED <<ss, db, writer, readers, rcu, lookup, avc, begun, history>>

NoServer(u) ==
  /\ At(u, "find") /\ ~ss
  /\ update' = [update EXCEPT ![u] = NoJob]
  /\ UNCHANGED <<ss, db, writer, readers, rcu, lookup, avc, begun, history>>

AskLock(u) ==
  /\ At(u, "find") /\ ss
  /\ Goto(u, "spin")
  /\ UNCHANGED <<ss, db, writer, readers, rcu, lookup, avc, begun, history>>

(* Mutants of TakeLock: the RCU section of the code this replaces, which   *)
(* keeps no reader out, and one that is kept until the update returns.     *)
TakeLockRcuOnly(u) ==
  /\ At(u, "spin")
  /\ writer' = u
  /\ Goto(u, "apply")
  /\ UNCHANGED <<ss, db, readers, rcu, lookup, avc, begun, history>>

TakeLockAndRcu(u) ==
  /\ At(u, "spin") /\ writer = Null /\ readers = {}
  /\ writer' = u
  /\ rcu' = rcu \cup {u}
  /\ Goto(u, "apply")
  /\ UNCHANGED <<ss, db, readers, lookup, avc, begun, history>>

(* write_lock().                                                           *)
TakeLock(u) ==
  /\ At(u, "spin") /\ writer = Null /\ readers = {}
  /\ writer' = u
  /\ Goto(u, "apply")
  /\ UNCHANGED <<ss, db, readers, rcu, lookup, avc, begun, history>>

(* A command ends; the loop goes on whether or not it succeeded.           *)
Command(u) == Head(update[u].cmds)
Applying(u, kind) == At(u, "apply") /\ update[u].cmds # <<>> /\ Command(u).cmd = kind

CommandEnds(u, ok) ==
  /\ update' = [update EXCEPT ![u].at = "apply", ![u].cmds = Tail(@)]
  /\ reported' = IF ok THEN reported \cup {Command(u)} ELSE reported

(* add_type(): nothing to do when the name is known.                       *)
TypeKnown(u) ==
  /\ Applying(u, "type") /\ db.value[Command(u).of[1]] # 0
  /\ CommandEnds(u, TRUE)
  /\ UNCHANGED <<ss, db, writer, readers, rcu, lookup, avc, begun, version, flushed, starved>>

NewType(u) == Applying(u, "type") /\ db.value[Command(u).of[1]] = 0

(* The value is taken first, so a failed allocation leaves a gap.          *)
TypeNotInserted(u) ==
  /\ NewType(u)
  /\ db' = [db EXCEPT !.nprim = @ + 1]
  /\ CommandEnds(u, FALSE)
  /\ UNCHANGED <<ss, writer, readers, rcu, lookup, avc, begun, version, flushed, starved>>

TypeInserted(u) ==
  /\ NewType(u)
  /\ db' = [db EXCEPT !.nprim = @ + 1, !.value[Command(u).of[1]] = db.nprim + 1]
  /\ update' = [update EXCEPT ![u].at = "grow", ![u].value = db.nprim + 1]
  /\ UNCHANGED <<ss, writer, readers, rcu, lookup, avc, begun, history>>

(* Mutant of ArraysFail: the value is given back, the name is not.         *)
ArraysFailGivesBack(u) ==
  /\ At(u, "grow")
  /\ db' = [db EXCEPT !.nprim = @ - 1]
  /\ CommandEnds(u, FALSE)
  /\ starved' = starved \cup {Command(u).of[1]}
  /\ UNCHANGED <<ss, writer, readers, rcu, lookup, avc, begun, version, flushed>>

(* The new arrays cannot be allocated: the name stays in the symbol table. *)
ArraysFail(u) ==
  /\ At(u, "grow")
  /\ CommandEnds(u, FALSE)
  /\ starved' = starved \cup {Command(u).of[1]}
  /\ UNCHANGED <<ss, db, writer, readers, rcu, lookup, avc, begun, version, flushed>>

(* A longer copy of an array with t at the new end; elements of the values *)
(* that were never put are zero.                                           *)
Grown(array, value, t) ==
  [i \in 1 .. value |->
     IF i = value THEN t ELSE IF i \in DOMAIN array THEN array[i] ELSE Null]

(* The old arrays are replaced, and freed, one after the other.            *)
GrowAttr(u) ==
  /\ At(u, "grow")
  /\ db' = [db EXCEPT !.attr = Grown(@, update[u].value, Command(u).of[1])]
  /\ Goto(u, "grow struct")
  /\ UNCHANGED <<ss, writer, readers, rcu, lookup, avc, begun, history>>

GrowStruct(u) ==
  /\ At(u, "grow struct")
  /\ db' = [db EXCEPT !.struct = Grown(@, update[u].value, Command(u).of[1])]
  /\ Goto(u, "grow name")
  /\ UNCHANGED <<ss, writer, readers, rcu, lookup, avc, begun, history>>

GrowName(u) ==
  /\ At(u, "grow name")
  /\ db' = [db EXCEPT !.name = Grown(@, update[u].value, Command(u).of[1])]
  /\ CommandEnds(u, TRUE)
  /\ UNCHANGED <<ss, writer, readers, rcu, lookup, avc, begun, version, flushed, starved>>

Known(u) == \A i \in DOMAIN Command(u).of : db.value[Command(u).of[i]] # 0

(* add_rule() and add_filename_trans() refuse names the policy has not,    *)
(* and may fail to allocate.                                               *)
RuleRefused(u) ==
  /\ Applying(u, "allow") \/ Applying(u, "trans")
  /\ CommandEnds(u, FALSE)
  /\ UNCHANGED <<ss, db, writer, readers, rcu, lookup, avc, begun, version, flushed, starved>>

RuleAllowed(u) ==
  /\ Applying(u, "allow") /\ Known(u)
  /\ db' = [db EXCEPT !.allow = @ \cup {Command(u).of}]
  /\ CommandEnds(u, TRUE)
  /\ UNCHANGED <<ss, writer, readers, rcu, lookup, avc, begun, version, flushed, starved>>

(* Mutant of TransBit: the index before stage 07's bitmap correction.      *)
TransBitBefore(t) == db.value[t] - 1

(* The index the kernel's lookup tests in filename_trans_ttypes.           *)
TransBit(t) == db.value[t]

TransAdded(u) ==
  /\ Applying(u, "trans") /\ Known(u)
  /\ LET t == Command(u).of[1] IN
       db' = [db EXCEPT !.trans = @ \cup {t}, !.ttypes = @ \cup {TransBit(t)}]
  /\ CommandEnds(u, TRUE)
  /\ UNCHANGED <<ss, writer, readers, rcu, lookup, avc, begun, version, flushed, starved>>

(* The transition is in the table, but its bit could not be set.           *)
TransBitFails(u) ==
  /\ Applying(u, "trans") /\ Known(u)
  /\ db' = [db EXCEPT !.trans = @ \cup {Command(u).of[1]}]
  /\ CommandEnds(u, FALSE)
  /\ UNCHANGED <<ss, writer, readers, rcu, lookup, avc, begun, version, flushed, starved>>

(* Mutant of Unlock: the AVC is not reset.                                 *)
UnlockWithoutReset(u) ==
  /\ At(u, "apply") /\ update[u].cmds = <<>>
  /\ writer' = Null
  /\ version' = version + 1
  /\ Goto(u, "synchronize")
  /\ UNCHANGED <<ss, db, readers, rcu, lookup, avc, begun, flushed, starved, reported>>

(* Mutant of Unlock: the AVC is reset first.                               *)
UnlockLate(u) ==
  /\ At(u, "apply") /\ update[u].cmds = <<>>
  /\ version' = version + 1
  /\ Goto(u, "flush")
  /\ UNCHANGED <<ss, db, writer, readers, rcu, lookup, avc, begun, flushed, starved, reported>>

(* write_unlock(); smp_mb().                                               *)
Unlock(u) ==
  /\ At(u, "apply") /\ update[u].cmds = <<>>
  /\ writer' = Null
  /\ version' = version + 1
  /\ Goto(u, "flush")
  /\ UNCHANGED <<ss, db, readers, rcu, lookup, avc, begun, flushed, starved, reported>>

(* reset_avc_cache(): empty the cache, then wait for every RCU reader that *)
(* is inside its section now.                                              *)
FlushAvc(u) ==
  /\ At(u, "flush")
  /\ avc' = [q \in Queries |-> Null]
  /\ flushed' = version
  /\ update' = [update EXCEPT ![u].at = "synchronize", ![u].waits = rcu]
  /\ UNCHANGED <<ss, db, writer, readers, rcu, lookup, begun, version, starved, reported>>

Return(u) ==
  /\ At(u, "synchronize") /\ update[u].waits = {}
  /\ update' = [update EXCEPT ![u] = NoJob]
  /\ UNCHANGED <<ss, db, writer, readers, rcu, lookup, avc, begun, history>>

(***************************************************************************)
(* A lookup.                                                               *)
(***************************************************************************)
(* Leaving an RCU section is what synchronize_rcu() waits for.             *)
LeaveRcu(l) ==
  /\ rcu' = rcu \ {l}
  /\ update' = [u \in Updaters |-> [update[u] EXCEPT !.waits = @ \ {l}]]

Interrupted(u) == \E l \in Lookups : lookup[l].on = u

(* A lookup begins, in a thread or in a softirq that interrupts the CPU an *)
(* updater runs on (not one that sleeps for RCU).                          *)
Interruptible(u) == update[u].at \notin {"idle", "synchronize"} /\ ~Interrupted(u)

SearchAvc(l, q) ==
  /\ ss /\ lookup[l].at = "out"
  /\ rcu' = rcu \cup {l}
  /\ \E on \in {Null} \cup {u \in Updaters : Interruptible(u)} :
       lookup' = [lookup EXCEPT ![l] = [Out EXCEPT !.at = "search", !.on = on, !.q = q]]
  /\ UNCHANGED <<ss, db, writer, readers, update, avc, begun, history>>

AvcHit(l) ==
  /\ lookup[l].at = "search" /\ avc[lookup[l].q] # Null
  /\ LeaveRcu(l)
  /\ lookup' = [lookup EXCEPT ![l] = Out]
  /\ UNCHANGED <<ss, db, writer, readers, avc, begun, history>>

AvcMiss(l) ==
  /\ lookup[l].at = "search" /\ avc[lookup[l].q] = Null
  /\ LeaveRcu(l)
  /\ lookup' = [lookup EXCEPT ![l].at = "compute"]
  /\ UNCHANGED <<ss, db, writer, readers, avc, begun, history>>

(* read_lock(): not while a writer holds the lock, and in a thread not     *)
(* while one waits for it.                                                 *)
ReadLock(l) ==
  /\ lookup[l].at = "compute"
  /\ writer = Null
  /\ lookup[l].on # Null \/ \A u \in Updaters : ~At(u, "spin")
  /\ readers' = readers \cup {l}
  /\ lookup' = [lookup EXCEPT ![l].at = "read type"]
  /\ UNCHANGED <<ss, db, writer, rcu, update, avc, begun, history>>

(* The element of the source type, when its value is in the array.         *)
Slot(array, t) ==
  IF db.value[t] \in DOMAIN array THEN array[db.value[t]] ELSE Null

ReadType(l) ==
  /\ lookup[l].at = "read type"
  /\ lookup' = [lookup EXCEPT ![l].at = "read rule",
                              ![l].slot = Slot(db.attr, lookup[l].q[1])]
  /\ UNCHANGED <<ss, db, writer, readers, rcu, update, avc, begun, history>>

ReadRule(l) ==
  /\ lookup[l].at = "read rule"
  /\ lookup' = [lookup EXCEPT ![l].at = "computed",
                              ![l].granted = lookup[l].q \in db.allow,
                              ![l].version = version]
  /\ readers' = readers \ {l}
  /\ UNCHANGED <<ss, db, writer, rcu, update, avc, begun, history>>

EnterAgain(l) ==
  /\ lookup[l].at = "computed"
  /\ rcu' = rcu \cup {l}
  /\ lookup' = [lookup EXCEPT ![l].at = "insert"]
  /\ UNCHANGED <<ss, db, writer, readers, update, avc, begun, history>>

InsertAvc(l) ==
  /\ lookup[l].at = "insert"
  /\ avc' = [avc EXCEPT ![lookup[l].q] =
               [granted |-> lookup[l].granted, late |-> lookup[l].version < flushed]]
  /\ LeaveRcu(l)
  /\ lookup' = [lookup EXCEPT ![l] = Out]
  /\ UNCHANGED <<ss, db, writer, readers, begun, history>>

Apply(u) ==
  \/ TypeKnown(u) \/ TypeNotInserted(u) \/ TypeInserted(u)
  \/ ArraysFail(u) \/ GrowAttr(u) \/ GrowStruct(u) \/ GrowName(u)
  \/ RuleRefused(u) \/ RuleAllowed(u) \/ TransAdded(u) \/ TransBitFails(u)

UpdateStep(u) ==
  /\ ~Interrupted(u)
  /\ \/ Reject(u) \/ Validated(u) \/ NoServer(u) \/ AskLock(u) \/ TakeLock(u)
     \/ Apply(u) \/ Unlock(u) \/ FlushAvc(u) \/ Return(u)

LookupStep(l) ==
  \/ AvcHit(l) \/ AvcMiss(l) \/ ReadLock(l) \/ ReadType(l) \/ ReadRule(l)
  \/ EnterAgain(l) \/ InsertAvc(l)

Next ==
  \/ ServerStarts
  \/ \E u \in Updaters : UpdateStep(u) \/ \E job \in Jobs : Begin(u, job)
  \/ \E l \in Lookups : LookupStep(l) \/ \E q \in Queries : SearchAvc(l, q)

Spec == Init /\ [][Next]_vars

(* The scheduler runs every thread that has begun something; nobody has to *)
(* begin an update or a lookup.  An updater is never kept off its CPU by   *)
(* an endless row of softirqs, nor off the lock by an endless row of       *)
(* readers in softirqs, which pass a waiting writer: hence its strong      *)
(* fairness.                                                               *)
FairSpec ==
  /\ Spec
  /\ \A u \in Updaters : SF_vars(UpdateStep(u))
  /\ \A l \in Lookups : WF_vars(LookupStep(l))

-------------------------------------------------------------------------------
Mutating == {"apply", "grow", "grow struct", "grow name"}
Places   == {"idle", "validate", "find", "spin", "flush", "synchronize"} \cup Mutating

Arrays == Seq(Types \cup {Null})

Policies ==
  [nprim : Nat, value : [Types -> Nat], attr : Arrays, struct : Arrays, name : Arrays,
   allow : SUBSET (Types \X Types), trans : SUBSET Types, ttypes : SUBSET Nat]

UpdateStates ==
  [at : Places, kind : {"rules", "batch"}, cmds : Seq(Commands), value : Nat,
   waits : SUBSET Lookups]

(* The types of the policy, of the lock and of the threads.                *)
TypeOK ==
  /\ ss \in BOOLEAN
  /\ db \in Policies
  /\ writer \in Updaters \cup {Null} /\ readers \subseteq Lookups
  /\ rcu \subseteq Lookups
  /\ update \in [Updaters -> UpdateStates]
  /\ \A q \in Queries : avc[q] = Null \/ avc[q] \in [granted : BOOLEAN, late : BOOLEAN]
  /\ flushed \in 0 .. version
  /\ starved \subseteq Types /\ reported \subseteq Commands

(* The lock keeps an update whole: between its first command and its last  *)
(* no other updater changes the policy and no lookup reads it, and what is *)
(* applied is never part of a malformed batch.                             *)
UpdatesAtomic ==
  \A u \in Updaters :
    update[u].at \in Mutating =>
      /\ readers = {}
      /\ \A v \in Updaters \ {u} : update[v].at \notin Mutating
      /\ Malformed \notin ToSet(update[u].cmds)

(* The boot failure the lock replaces: an updater that waits for RCU       *)
(* readers holds no lock and is in no RCU section itself.                  *)
NeverSleepsAtomic ==
  \A u \in Updaters :
    update[u].at \in {"flush", "synchronize"} => writer # u /\ u \notin rcu

(* Whatever allocations failed, between updates the three arrays agree,    *)
(* two types never share a value, and a type's element is its own, or      *)
(* missing if its arrays could not be allocated.                           *)
TypeArraysSound ==
  writer = Null =>
    /\ db.attr = db.struct /\ db.attr = db.name
    /\ \A t \in Types : db.value[t] # 0 =>
         /\ db.value[t] <= db.nprim
         /\ \A s \in Types : db.value[s] = db.value[t] => s = t
         /\ \/ Slot(db.attr, t) = t
            \/ t \in starved /\ Slot(db.attr, t) = Null

(* So a lookup finds the element of every type the policy names, however   *)
(* it interleaves with updates.                                            *)
LookupFindsType ==
  \A l \in Lookups :
    LET s == lookup[l].q[1] IN
      (lookup[l].at = "read rule" /\ db.value[s] # 0 /\ s \notin starved)
        => lookup[l].slot = s

(* A filename transition whose command succeeded is one the kernel's       *)
(* lookup gets to: the bit it tests is set.                                *)
TransitionsFound ==
  \A t \in Types : Trans(t) \in reported =>
    t \in db.trans /\ db.value[t] \in db.ttypes

(* What the policy names, the kernel's searches find: types by their       *)
(* value, filename transitions by their bit, whatever failed on the way.   *)
NamesFound == TypeOK /\ LookupFindsType /\ TransitionsFound

(* Once every update has reset the AVC, a cached decision is the policy's, *)
(* unless a lookup that had read the policy before the last reset inserted *)
(* its answer after it.                                                    *)
CacheCurrent ==
  (\A u \in Updaters : update[u].at \notin Mutating \cup {"flush"}) =>
    \A q \in Queries :
      avc[q] # Null => avc[q].late \/ avc[q].granted = (q \in db.allow)

(* What a plain write_lock() leaves open: a lookup that has interrupted    *)
(* the holder of the lock misses the AVC and spins in read_lock() for ever *)
(* on the CPU that would release it.                                       *)
HolderSpunOver ==
  \E l \in Lookups :
    lookup[l].at = "compute" /\ lookup[l].on # Null /\ lookup[l].on = writer

(* Every update that has begun returns, and waits neither for itself nor   *)
(* for ever for the lookups, in threads or in softirqs: the one thing that *)
(* can keep it is a lookup spinning in a softirq over the lock's holder.   *)
UpdatesReturn ==
  \A u \in Updaters :
    update[u].at # "idle" ~> update[u].at = "idle" \/ HolderSpunOver

==============================================================================
