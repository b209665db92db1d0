-------------------------- MODULE PolicyLock_proofs --------------------------
(***************************************************************************)
(* PolicyLock for any number of updaters and lookups, any jobs and any     *)
(* policy, in three layers: what the lock and the validation guarantee     *)
(* (IInv), the arrays of the types (ArraysInv), and what the lookups read  *)
(* and cache (SearchInv).                                                  *)
(***************************************************************************)
EXTENDS PolicyLock, TLAPS

(* The part of the types the lock's invariant needs.                       *)
LockTypes ==
  /\ writer \in Updaters \cup {Null} /\ readers \subseteq Lookups
  /\ rcu \subseteq Lookups
  /\ "nprim" \in DOMAIN db /\ db.nprim \in Nat
  /\ update \in [Updaters -> UpdateStates]

(* Only the holder of the lock changes the policy, and it does all the     *)
(* time it holds it.                                                       *)
OneWriter == \A u \in Updaters : update[u].at \in Mutating <=> writer = u

ReadersExcluded == readers # {} => writer = Null

(* Past the validation a job has no malformed command left.                *)
CommandsClean ==
  \A u \in Updaters :
    update[u].at \notin {"idle", "validate"} => Malformed \notin ToSet(update[u].cmds)

(* While the arrays are being replaced there is a command to end.          *)
CommandInHand ==
  \A u \in Updaters :
    update[u].at \in Mutating \ {"apply"} => update[u].cmds # <<>>

IInv == LockTypes /\ OneWriter /\ ReadersExcluded /\ CommandsClean /\ CommandInHand

LEMMA TailOf ==
  ASSUME NEW S, NEW s \in Seq(S), s # <<>>
  PROVE  Tail(s) \in Seq(S) /\ ToSet(Tail(s)) \subseteq ToSet(s)
<1>1. Tail(s) \in Seq(S)
  OBVIOUS
<1>2. ASSUME NEW x \in ToSet(Tail(s)) PROVE x \in ToSet(s)
  <2>1. PICK i \in DOMAIN Tail(s) : x = Tail(s)[i]
    BY <1>2 DEF ToSet
  <2>2. i + 1 \in DOMAIN s /\ Tail(s)[i] = s[i + 1]
    BY <2>1
  <2> QED
    BY <2>1, <2>2 DEF ToSet
<1> QED
  BY <1>1, <1>2

LEMMA NoJobType ==
  NoJob \in UpdateStates /\ NoJob.at = "idle" /\ NoJob.cmds = <<>>
<1>1. <<>> \in Seq(Commands)
  OBVIOUS
<1> QED
  BY <1>1 DEF NoJob, UpdateStates, Places, Mutating

LEMMA InitIInv == Init => IInv
<1> SUFFICES ASSUME Init PROVE IInv
  OBVIOUS
<1>1. LockTypes
  BY NoJobType, PolicyAssumption DEF Init, LockTypes
<1>2. OneWriter
  BY PolicyAssumption DEF Init, OneWriter, NoJob, Mutating
<1>3. ReadersExcluded /\ CommandsClean /\ CommandInHand
  BY DEF Init, ReadersExcluded, CommandsClean, CommandInHand, NoJob, Mutating
<1> QED
  BY <1>1, <1>2, <1>3 DEF IInv

(* A step that moves no updater into or out of the changing of the policy. *)
LEMMA Elsewhere ==
  ASSUME IInv, NEW u \in Updaters, NEW r \in UpdateStates,
         update' = [update EXCEPT ![u] = r],
         update[u].at \notin Mutating, r.at \notin Mutating,
         r.at \notin {"idle", "validate"} => Malformed \notin ToSet(r.cmds),
         UNCHANGED <<db, writer, readers, rcu>>
  PROVE  IInv'
<1>1. LockTypes'
  BY DEF IInv, LockTypes
<1>2. OneWriter'
  BY DEF IInv, LockTypes, OneWriter
<1>3. ReadersExcluded' /\ CommandsClean' /\ CommandInHand'
  BY DEF IInv, LockTypes, ReadersExcluded, CommandsClean, CommandInHand
<1> QED
  BY <1>1, <1>2, <1>3 DEF IInv

(* A step of the holder of the lock that goes on holding it.               *)
LEMMA Holding ==
  ASSUME IInv, NEW u \in Updaters, NEW r \in UpdateStates,
         update' = [update EXCEPT ![u] = r],
         update[u].at \in Mutating, r.at \in Mutating,
         ToSet(r.cmds) \subseteq ToSet(update[u].cmds),
         r.at # "apply" => r.cmds # <<>>,
         "nprim" \in DOMAIN db', db'.nprim \in Nat,
         UNCHANGED <<writer, readers, rcu>>
  PROVE  IInv'
<1>1. LockTypes'
  BY DEF IInv, LockTypes
<1>2. OneWriter'
  BY DEF IInv, LockTypes, OneWriter
<1>3. ReadersExcluded' /\ CommandInHand'
  BY DEF IInv, LockTypes, ReadersExcluded, CommandInHand
<1>4. CommandsClean'
  <2>1. Malformed \notin ToSet(update[u].cmds)
    BY DEF IInv, CommandsClean, Mutating
  <2> QED
    BY <2>1 DEF IInv, LockTypes, CommandsClean
<1> QED
  BY <1>1, <1>2, <1>3, <1>4 DEF IInv

(* A step that takes the lock, or lets it go.                              *)
LEMMA TakeLockKeeps == ASSUME IInv, NEW u \in Updaters, TakeLock(u) PROVE IInv'
<1>1. /\ update[u].at = "spin" /\ writer = Null /\ readers = {} /\ writer' = u
      /\ update' = [update EXCEPT ![u].at = "apply"]
      /\ UNCHANGED <<db, readers, rcu>>
  BY DEF TakeLock, At, Goto
<1>2. update \in [Updaters -> UpdateStates]
  BY DEF IInv, LockTypes
<1>3. [update[u] EXCEPT !.at = "apply"] \in UpdateStates
  BY <1>2 DEF UpdateStates, Places, Mutating
<1>4. /\ update'[u].at = "apply" /\ update'[u].cmds = update[u].cmds
      /\ \A v \in Updaters \ {u} : update'[v] = update[v]
  BY <1>1, <1>2 DEF UpdateStates
<1>5. LockTypes'
  BY <1>1, <1>3 DEF IInv, LockTypes
<1>6. OneWriter'
  BY <1>1, <1>4, PolicyAssumption DEF IInv, OneWriter, Mutating
<1>7. ReadersExcluded' /\ CommandsClean' /\ CommandInHand'
  BY <1>1, <1>4 DEF IInv, ReadersExcluded, CommandsClean, CommandInHand, Mutating
<1> QED
  BY <1>5, <1>6, <1>7 DEF IInv

LEMMA UnlockKeeps == ASSUME IInv, NEW u \in Updaters, Unlock(u) PROVE IInv'
<1>1. /\ update[u].at = "apply" /\ writer' = Null
      /\ update' = [update EXCEPT ![u].at = "flush"]
      /\ UNCHANGED <<db, readers, rcu>>
  BY DEF Unlock, At, Goto
<1>2. update \in [Updaters -> UpdateStates]
  BY DEF IInv, LockTypes
<1>3. [update[u] EXCEPT !.at = "flush"] \in UpdateStates
  BY <1>2 DEF UpdateStates, Places
<1>4. /\ update'[u].at = "flush" /\ update'[u].cmds = update[u].cmds
      /\ \A v \in Updaters \ {u} : update'[v] = update[v]
  BY <1>1, <1>2 DEF UpdateStates
<1>5. LockTypes'
  BY <1>1, <1>3 DEF IInv, LockTypes
<1>6. writer = u
  BY <1>1 DEF IInv, OneWriter, Mutating
<1>7. OneWriter'
  BY <1>1, <1>4, <1>6, PolicyAssumption DEF IInv, OneWriter, Mutating
<1>8. ReadersExcluded' /\ CommandsClean' /\ CommandInHand'
  BY <1>1, <1>4 DEF IInv, ReadersExcluded, CommandsClean, CommandInHand, Mutating
<1> QED
  BY <1>5, <1>7, <1>8 DEF IInv

(* A step that changes the policy.                                         *)
LEMMA ApplyKeeps == ASSUME IInv, NEW u \in Updaters, Apply(u) PROVE IInv'
<1>1. update \in [Updaters -> UpdateStates] /\ update[u] \in UpdateStates
      /\ "nprim" \in DOMAIN db /\ db.nprim \in Nat
  BY DEF IInv, LockTypes
<1>2. update[u].at \in Mutating /\ update[u].cmds # <<>> /\ UNCHANGED <<writer, readers, rcu>>
  <2>1. CASE TypeKnown(u) \/ TypeNotInserted(u) \/ TypeInserted(u)
    BY <2>1 DEF TypeKnown, TypeNotInserted, TypeInserted, NewType, Applying, At, Mutating
  <2>2. CASE ArraysFail(u) \/ GrowAttr(u) \/ GrowStruct(u) \/ GrowName(u)
    BY <2>2 DEF ArraysFail, GrowAttr, GrowStruct, GrowName, At, Mutating, IInv, CommandInHand
  <2>3. CASE RuleRefused(u) \/ RuleAllowed(u) \/ TransAdded(u) \/ TransBitFails(u)
    BY <2>3 DEF RuleRefused, RuleAllowed, TransAdded, TransBitFails, Applying, At, Mutating
  <2> QED
    BY <2>1, <2>2, <2>3 DEF Apply
<1>3. "nprim" \in DOMAIN db' /\ db'.nprim \in Nat
  <2>1. CASE TypeKnown(u) \/ ArraysFail(u) \/ RuleRefused(u)
    BY <2>1, <1>1 DEF TypeKnown, ArraysFail, RuleRefused
  <2>2. CASE TypeNotInserted(u)
    BY <2>2, <1>1 DEF TypeNotInserted
  <2>3. CASE TypeInserted(u)
    <3> DEFINE e == [db EXCEPT !.nprim = @ + 1]
    <3>1. "nprim" \in DOMAIN e /\ e.nprim \in Nat
      BY <1>1
    <3>2. db' = [e EXCEPT !.value[Command(u).of[1]] = db.nprim + 1]
      BY <2>3 DEF TypeInserted
    <3> HIDE DEF e
    <3> QED
      BY <3>1, <3>2
  <2>4. CASE GrowAttr(u) \/ GrowStruct(u) \/ GrowName(u)
    BY <2>4, <1>1 DEF GrowAttr, GrowStruct, GrowName, IInv, LockTypes
  <2>5. CASE RuleAllowed(u) \/ TransAdded(u) \/ TransBitFails(u)
    BY <2>5, <1>1 DEF RuleAllowed, TransAdded, TransBitFails, IInv, LockTypes
  <2> QED
    BY <2>1, <2>2, <2>3, <2>4, <2>5 DEF Apply
<1>4. CASE \E ok \in BOOLEAN : CommandEnds(u, ok)
  <2> DEFINE r == [update[u] EXCEPT !.at = "apply", !.cmds = Tail(update[u].cmds)]
  <2>1. update' = [update EXCEPT ![u] = r]
    BY <1>1, <1>4 DEF CommandEnds
  <2>2. /\ Tail(update[u].cmds) \in Seq(Commands)
        /\ ToSet(Tail(update[u].cmds)) \subseteq ToSet(update[u].cmds)
    BY <1>1, <1>2, TailOf DEF UpdateStates
  <2>3. r \in UpdateStates /\ r.at = "apply" /\ r.cmds = Tail(update[u].cmds)
    BY <1>1, <2>2 DEF UpdateStates, Places, Mutating
  <2> HIDE DEF r
  <2>4. r.at \in Mutating
    BY <2>3 DEF Mutating
  <2> QED
    BY <1>2, <1>3, <2>1, <2>2, <2>3, <2>4, Holding
<1>5. CASE TypeInserted(u) \/ GrowAttr(u) \/ GrowStruct(u)
  <2>1. PICK r \in UpdateStates :
          /\ update' = [update EXCEPT ![u] = r]
          /\ r.at \in Mutating /\ r.cmds = update[u].cmds
    <3>1. CASE TypeInserted(u)
      <4> DEFINE r == [update[u] EXCEPT !.at = "grow", !.value = db.nprim + 1]
      <4>1. update' = [update EXCEPT ![u] = r]
        BY <1>1, <3>1 DEF TypeInserted
      <4>2. db.nprim + 1 \in Nat
        BY <1>1
      <4>3. r \in UpdateStates /\ r.at = "grow" /\ r.cmds = update[u].cmds
        BY <1>1, <4>2 DEF UpdateStates, Places, Mutating
      <4> QED
        BY <4>1, <4>3 DEF Mutating
    <3>2. CASE GrowAttr(u)
      <4> DEFINE r == [update[u] EXCEPT !.at = "grow struct"]
      <4>1. update' = [update EXCEPT ![u] = r]
        BY <3>2 DEF GrowAttr, Goto
      <4>2. r \in UpdateStates /\ r.at = "grow struct" /\ r.cmds = update[u].cmds
        BY <1>1 DEF UpdateStates, Places, Mutating
      <4> QED
        BY <4>1, <4>2 DEF Mutating
    <3>3. CASE GrowStruct(u)
      <4> DEFINE r == [update[u] EXCEPT !.at = "grow name"]
      <4>1. update' = [update EXCEPT ![u] = r]
        BY <3>3 DEF GrowStruct, Goto
      <4>2. r \in UpdateStates /\ r.at = "grow name" /\ r.cmds = update[u].cmds
        BY <1>1 DEF UpdateStates, Places, Mutating
      <4> QED
        BY <4>1, <4>2 DEF Mutating
    <3> QED
      BY <1>5, <3>1, <3>2, <3>3
  <2> QED
    BY <1>2, <1>3, <2>1, Holding
<1> QED
  BY <1>4, <1>5 DEF Apply, TypeKnown, TypeNotInserted, ArraysFail, GrowName,
     RuleRefused, RuleAllowed, TransAdded, TransBitFails

(* Every step of an updater keeps the invariant.                           *)
LEMMA UpdateKeeps == ASSUME IInv, NEW u \in Updaters, UpdateStep(u) PROVE IInv'
<1>1. update \in [Updaters -> UpdateStates] /\ update[u] \in UpdateStates /\ rcu \subseteq Lookups
  BY DEF IInv, LockTypes
<1>2. CASE Reject(u) \/ NoServer(u) \/ Return(u)
  <2>1. /\ update' = [update EXCEPT ![u] = NoJob] /\ update[u].at \notin Mutating
        /\ UNCHANGED <<db, writer, readers, rcu>>
    BY <1>2 DEF Reject, NoServer, Return, At, Mutating
  <2>2. NoJob.at \notin Mutating
    BY NoJobType DEF Mutating
  <2> QED
    BY <2>1, <2>2, NoJobType, Elsewhere
<1>3. CASE Validated(u) \/ AskLock(u)
  <2>1. PICK p \in {"find", "spin"} :
          /\ update' = [update EXCEPT ![u].at = p] /\ update[u].at \notin Mutating
          /\ UNCHANGED <<db, writer, readers, rcu>>
    BY <1>3 DEF Validated, AskLock, At, Goto, Mutating
  <2>2. Malformed \notin ToSet(update[u].cmds)
    BY <1>3 DEF Validated, AskLock, WellFormed, At, IInv, CommandsClean
  <2> DEFINE r == [update[u] EXCEPT !.at = p]
  <2>3. r \in UpdateStates /\ r.at = p /\ r.cmds = update[u].cmds
    BY <1>1 DEF UpdateStates, Places
  <2>4. update' = [update EXCEPT ![u] = r]
    BY <2>1
  <2> HIDE DEF r
  <2>5. r.at \notin Mutating
    BY <2>3 DEF Mutating
  <2> QED
    BY <2>1, <2>2, <2>3, <2>4, <2>5, Elsewhere
<1>4. CASE FlushAvc(u)
  <2> DEFINE r == [update[u] EXCEPT !.at = "synchronize", !.waits = rcu]
  <2>1. /\ update' = [update EXCEPT ![u] = r] /\ update[u].at = "flush"
        /\ UNCHANGED <<db, writer, readers, rcu>>
    BY <1>1, <1>4 DEF FlushAvc, At
  <2>2. Malformed \notin ToSet(update[u].cmds)
    BY <2>1 DEF IInv, CommandsClean
  <2>3. r \in UpdateStates /\ r.at = "synchronize" /\ r.cmds = update[u].cmds
    BY <1>1 DEF UpdateStates, Places
  <2> HIDE DEF r
  <2>4. r.at \notin Mutating /\ update[u].at \notin Mutating
    BY <2>1, <2>3 DEF Mutating
  <2> QED
    BY <2>1, <2>2, <2>3, <2>4, Elsewhere
<1> QED
  BY <1>2, <1>3, <1>4, TakeLockKeeps, ApplyKeeps, UnlockKeeps DEF UpdateStep

LEMMA BeginKeeps ==
  ASSUME IInv, NEW u \in Updaters, NEW job \in Jobs, Begin(u, job)
  PROVE  IInv'
<1> DEFINE p == IF job.kind = "batch" THEN "validate" ELSE "find"
           r == [NoJob EXCEPT !.at = p, !.kind = job.kind, !.cmds = job.cmds]
<1>1. /\ job.kind \in {"rules", "batch"} /\ job.cmds \in Seq(Commands)
      /\ job.kind = "rules" => Malformed \notin ToSet(job.cmds)
  BY PolicyAssumption
<1>2. /\ update[u].at = "idle" /\ update' = [update EXCEPT ![u] = r]
      /\ UNCHANGED <<db, writer, readers, rcu>>
  BY DEF Begin, At
<1>3. r \in UpdateStates /\ r.at = p /\ r.cmds = job.cmds
  BY <1>1 DEF UpdateStates, Places, NoJob
<1> HIDE DEF r
<1>4. r.at \notin Mutating /\ update[u].at \notin Mutating
  BY <1>2, <1>3 DEF Mutating
<1> QED
  BY <1>1, <1>2, <1>3, <1>4, Elsewhere

(* A lookup leaves every updater where it is.                              *)
LEMMA LookupKeeps ==
  ASSUME IInv, NEW l \in Lookups,
         LookupStep(l) \/ \E q \in Queries : SearchAvc(l, q)
  PROVE  IInv'
<1>1. update \in [Updaters -> UpdateStates] /\ rcu \subseteq Lookups /\ readers \subseteq Lookups
  BY DEF IInv, LockTypes
<1>2. /\ update' \in [Updaters -> UpdateStates]
      /\ \A u \in Updaters : update'[u].at = update[u].at /\ update'[u].cmds = update[u].cmds
  <2>1. CASE LeaveRcu(l)
    <3>1. ASSUME NEW u \in Updaters
          PROVE  LET r == [update[u] EXCEPT !.waits = @ \ {l}]
                 IN  r \in UpdateStates /\ r.at = update[u].at /\ r.cmds = update[u].cmds
      BY <1>1 DEF UpdateStates
    <3> QED
      BY <2>1, <3>1 DEF LeaveRcu
  <2>2. CASE UNCHANGED update
    BY <2>2, <1>1
  <2> QED
    BY <2>1, <2>2 DEF LookupStep, AvcHit, AvcMiss, ReadLock, ReadType, ReadRule, EnterAgain,
       InsertAvc, SearchAvc
<1>3. UNCHANGED <<db, writer>> /\ rcu' \subseteq Lookups
  BY <1>1 DEF LookupStep, AvcHit, AvcMiss, ReadLock, ReadType, ReadRule, EnterAgain,
     InsertAvc, SearchAvc, LeaveRcu
<1>4. readers' \subseteq Lookups /\ (readers' # {} => readers # {} \/ writer = Null)
  BY <1>1 DEF LookupStep, AvcHit, AvcMiss, ReadLock, ReadType, ReadRule, EnterAgain,
     InsertAvc, SearchAvc
<1> QED
  BY <1>2, <1>3, <1>4 DEF IInv, LockTypes, OneWriter, ReadersExcluded, CommandsClean,
     CommandInHand

LEMMA NextIInv == IInv /\ [Next]_vars => IInv'
<1> SUFFICES ASSUME IInv, [Next]_vars PROVE IInv'
  OBVIOUS
<1>1. CASE ServerStarts \/ UNCHANGED vars
  BY <1>1 DEF ServerStarts, vars, IInv, LockTypes, OneWriter, ReadersExcluded,
     CommandsClean, CommandInHand
<1>2. CASE \E u \in Updaters : UpdateStep(u) \/ \E job \in Jobs : Begin(u, job)
  BY <1>2, UpdateKeeps, BeginKeeps
<1>3. CASE \E l \in Lookups : LookupStep(l) \/ \E q \in Queries : SearchAvc(l, q)
  BY <1>3, LookupKeeps
<1> QED
  BY <1>1, <1>2, <1>3 DEF Next

THEOREM IInvInvariant == Spec => []IInv
<1> QED
  BY InitIInv, NextIInv, PTL DEF Spec

(* However many updaters and lookups there are, no lookup and no other     *)
(* updater sees a policy that is being changed, and no command of a        *)
(* malformed batch ever reaches it.                                        *)
THEOREM UpdatesAreAtomic == Spec => []UpdatesAtomic
<1>1. IInv => UpdatesAtomic
  BY PolicyAssumption
     DEF IInv, LockTypes, OneWriter, ReadersExcluded, CommandsClean, Mutating, UpdatesAtomic
<1> QED
  BY <1>1, IInvInvariant, PTL

(* The deadlock of the code this replaces cannot come back: an updater     *)
(* that may wait for RCU readers is none itself and holds no lock.         *)
THEOREM ResetNeverAtomic == Spec => []NeverSleepsAtomic
<1>1. IInv => NeverSleepsAtomic
  BY PolicyAssumption DEF IInv, LockTypes, OneWriter, NeverSleepsAtomic, Mutating
<1> QED
  BY <1>1, IInvInvariant, PTL

(***************************************************************************)
(* The three arrays of the types, whatever allocation fails.               *)
(***************************************************************************)
Growing == Mutating \ {"apply"}

(* A type's element is its own, or was never put.                          *)
OwnElement(array, t) ==
  Slot(array, t) = t \/ (t \in starved /\ Slot(array, t) = Null)

ValuesDistinct ==
  /\ \A t \in Types : db.value[t] <= db.nprim
  /\ \A s, t \in Types : db.value[t] # 0 /\ db.value[s] = db.value[t] => s = t

Settled ==
  /\ db.attr = db.name /\ db.struct = db.name /\ Len(db.name) <= db.nprim
  /\ \A t \in Types : db.value[t] # 0 => OwnElement(db.name, t)

(* While the arrays are replaced, name is still the one all three were: it *)
(* is the last to be replaced, and no shorter array has been put.          *)
Replacing(u) ==
  LET x == Command(u).of[1]
      v == update[u].value
  IN /\ x \in Types /\ db.value[x] = v /\ v = db.nprim /\ Len(db.name) < v
     /\ \A t \in Types \ {x} : db.value[t] # 0 => OwnElement(db.name, t)
     /\ db.attr = IF update[u].at = "grow" THEN db.name ELSE Grown(db.name, v, x)
     /\ db.struct = IF update[u].at = "grow name" THEN Grown(db.name, v, x) ELSE db.name

ArraysInv ==
  /\ db \in Policies /\ ValuesDistinct
  /\ \A u \in Updaters : update[u].at \in Growing => Replacing(u)
  /\ (\A u \in Updaters : update[u].at \notin Growing) => Settled

LEMMA CommandTypes ==
  ASSUME NEW c \in Commands
  PROVE  /\ c.cmd \in {"type", "trans"} => c.of[1] \in Types
         /\ c.cmd = "allow" => c.of \in Types \X Types
<1>1. CASE \E t \in Types : c = AddType(t) \/ c = Trans(t)
  BY <1>1 DEF AddType, Trans
<1>2. CASE \E s, t \in Types : c = Allow(s, t)
  BY <1>2 DEF Allow
<1>3. CASE c = Malformed
  BY <1>3 DEF Malformed
<1> QED
  BY <1>1, <1>2, <1>3 DEF Commands

LEMMA GrownType ==
  ASSUME NEW a \in Arrays, NEW v \in Nat, NEW x \in Types
  PROVE  /\ Grown(a, v, x) \in Arrays
         /\ DOMAIN Grown(a, v, x) = 1 .. v
         /\ \A i \in 1 .. v : Grown(a, v, x)[i] =
              IF i = v THEN x ELSE IF i \in DOMAIN a THEN a[i] ELSE Null
<1>1. \A i \in 1 .. v : Grown(a, v, x)[i] \in Types \cup {Null}
  BY DEF Grown, Arrays
<1>2. Grown(a, v, x) \in [1 .. v -> Types \cup {Null}]
  BY <1>1 DEF Grown
<1>3. Grown(a, v, x) \in Seq(Types \cup {Null})
  BY <1>2
<1> QED
  BY <1>3 DEF Grown, Arrays

LEMMA LenOf ==
  ASSUME NEW S, NEW s \in Seq(S), NEW n \in Nat, DOMAIN s = 1 .. n
  PROVE  Len(s) = n
<1> DEFINE k == Len(s)
<1>1. k \in Nat /\ 1 .. k = 1 .. n
  OBVIOUS
<1> HIDE DEF k
<1>2. k = n
  BY <1>1
<1> QED
  BY <1>2 DEF k

LEMMA InitArrays == Init => ArraysInv
<1> SUFFICES ASSUME Init PROVE ArraysInv
  OBVIOUS
<1>1. BootTypes \in Seq(Types)
  BY PolicyAssumption
<1>2. BootTypes \in Arrays /\ Len(BootTypes) \in Nat /\ DOMAIN BootTypes = 1 .. Len(BootTypes)
  BY <1>1 DEF Arrays
<1>3. /\ db.nprim = Len(BootTypes) /\ db.attr = BootTypes /\ db.struct = BootTypes
      /\ db.name = BootTypes /\ db.allow = {} /\ db.trans = {} /\ db.ttypes = {}
      /\ db.value = [t \in Types |->
           IF t \in ToSet(BootTypes) THEN CHOOSE i \in DOMAIN BootTypes : BootTypes[i] = t
           ELSE 0]
  BY DEF Init
<1>4. ASSUME NEW t \in Types
      PROVE  \/ db.value[t] = 0
             \/ db.value[t] \in DOMAIN BootTypes /\ BootTypes[db.value[t]] = t
  <2>1. CASE t \in ToSet(BootTypes)
    <3>1. \E i \in DOMAIN BootTypes : BootTypes[i] = t
      BY <2>1 DEF ToSet
    <3> QED
      BY <3>1, <2>1, <1>3
  <2>2. CASE t \notin ToSet(BootTypes)
    BY <2>2, <1>3
  <2> QED
    BY <2>1, <2>2
<1>5. ASSUME NEW t \in Types PROVE db.value[t] \in Nat /\ db.value[t] <= db.nprim
  <2> DEFINE i == db.value[t]
             n == db.nprim
  <2>1. i = 0 \/ i \in 1 .. n
    BY <1>2, <1>3, <1>4
  <2>2. n \in Nat
    BY <1>2, <1>3
  <2> HIDE DEF i, n
  <2>3. i \in Nat /\ i <= n
    BY <2>1, <2>2
  <2> QED
    BY <2>3 DEF i, n
<1>6. db.value \in [Types -> Nat]
  BY <1>3, <1>5
<1>7. db \in Policies
  BY <1>2, <1>3, <1>6 DEF Init, Policies
<1>8. ValuesDistinct
  BY <1>4, <1>5 DEF ValuesDistinct
<1>9. Settled
  BY <1>2, <1>3, <1>4 DEF Settled, OwnElement, Slot
<1>10. \A u \in Updaters : update[u].at \notin Growing
  BY DEF Init, NoJob, Growing, Mutating
<1> QED
  BY <1>7, <1>8, <1>9, <1>10 DEF ArraysInv

(* A step that neither touches the types nor anybody's replacing.          *)
LEMMA ArraysUntouched ==
  ASSUME ArraysInv, UNCHANGED <<db, starved>>,
         \A v \in Updaters :
           update[v].at \in Growing \/ update'[v].at \in Growing =>
             /\ update'[v].at = update[v].at /\ update'[v].cmds = update[v].cmds
             /\ update'[v].value = update[v].value
  PROVE  ArraysInv'
<1>1. (db \in Policies /\ ValuesDistinct)'
  BY DEF ArraysInv, ValuesDistinct
<1>2. Settled => Settled'
  BY DEF Settled, OwnElement, Slot
<1>3. ASSUME NEW u \in Updaters, (update[u].at \in Growing)' PROVE Replacing(u)'
  <2>1. Replacing(u)
    BY <1>3 DEF ArraysInv
  <2> QED
    BY <1>3, <2>1 DEF Replacing, Command, OwnElement, Slot
<1> QED
  BY <1>1, <1>2, <1>3 DEF ArraysInv

(* A step of a holder of the lock whose command ends without a new type.   *)
LEMMA ArraysKept ==
  ASSUME ArraysInv, UNCHANGED starved,
         \A v \in Updaters : update[v].at \notin Growing /\ update'[v].at \notin Growing,
         db' \in Policies, db'.nprim >= db.nprim, db'.value = db.value,
         db'.attr = db.attr, db'.struct = db.struct, db'.name = db.name
  PROVE  ArraysInv'
<1>1. Settled /\ ValuesDistinct /\ db \in Policies
  BY DEF ArraysInv
<1>2. \A t \in Types : db.value[t] \in Nat
  BY <1>1 DEF Policies
<1>3. db.nprim \in Nat /\ db'.nprim \in Nat /\ Len(db.name) \in Nat
  BY <1>1 DEF Policies, Arrays
<1>4. ValuesDistinct'
  BY <1>1, <1>2, <1>3 DEF ValuesDistinct
<1>5. Settled'
  BY <1>1, <1>3 DEF Settled, OwnElement, Slot
<1> QED
  BY <1>4, <1>5 DEF ArraysInv

(* What CommandEnds does to the places of the updaters.                    *)
LEMMA EndsPlaces ==
  ASSUME IInv, NEW u \in Updaters, update[u].at \in Mutating,
         NEW ok \in BOOLEAN, CommandEnds(u, ok)
  PROVE  /\ \A v \in Updaters : update'[v].at \notin Growing
         /\ \A v \in Updaters \ {u} : update[v].at \notin Growing
<1>1. update \in [Updaters -> UpdateStates]
  BY DEF IInv, LockTypes
<1>2. \A v \in Updaters \ {u} : update[v].at \notin Mutating /\ update'[v] = update[v]
  BY <1>1 DEF IInv, OneWriter, CommandEnds
<1>3. update'[u].at = "apply"
  <2>1. update'[u] = [update[u] EXCEPT !.at = "apply", !.cmds = Tail(update[u].cmds)]
    BY <1>1 DEF CommandEnds
  <2> QED
    BY <1>1, <2>1 DEF UpdateStates
<1> QED
  BY <1>2, <1>3 DEF Growing, Mutating

LEMMA ApplyArrays ==
  ASSUME IInv, ArraysInv, NEW u \in Updaters, Apply(u)
  PROVE  ArraysInv'
<1> DEFINE x == Command(u).of[1]
           v == update[u].value
<1>1. update \in [Updaters -> UpdateStates] /\ update[u] \in UpdateStates
  BY DEF IInv, LockTypes
<1>2. /\ db \in Policies /\ db.nprim \in Nat /\ db.value \in [Types -> Nat]
      /\ db.name \in Arrays /\ db.attr \in Arrays /\ db.struct \in Arrays
      /\ Len(db.name) \in Nat /\ DOMAIN db.name = 1 .. Len(db.name)
  BY DEF ArraysInv, Policies, Arrays
<1>3. ValuesDistinct
  BY DEF ArraysInv
<1>4. ASSUME update[u].at = "apply" PROVE \A w \in Updaters : update[w].at \notin Growing
  BY <1>4 DEF IInv, OneWriter, Growing, Mutating
<1>5. ASSUME NEW kind \in {"type", "allow", "trans"}, Applying(u, kind)
      PROVE  /\ update[u].at = "apply" /\ update[u].at \in Mutating
             /\ Command(u) \in Commands /\ Command(u).cmd = kind
  BY <1>1, <1>5 DEF Applying, At, Mutating, Command, UpdateStates
<1>6. CASE TypeKnown(u) \/ RuleRefused(u)
  <2>1. update[u].at = "apply" /\ update[u].at \in Mutating /\ UNCHANGED <<db, starved>>
    BY <1>6, <1>5 DEF TypeKnown, RuleRefused
  <2>2. \E ok \in BOOLEAN : CommandEnds(u, ok)
    BY <1>6 DEF TypeKnown, RuleRefused
  <2> QED
    BY <1>2, <1>4, <2>1, <2>2, EndsPlaces, ArraysUntouched
<1>7. CASE TypeNotInserted(u) \/ RuleAllowed(u) \/ TransAdded(u) \/ TransBitFails(u)
  <2>1. /\ update[u].at = "apply" /\ update[u].at \in Mutating /\ UNCHANGED starved
        /\ \E ok \in BOOLEAN : CommandEnds(u, ok)
    BY <1>7, <1>5 DEF TypeNotInserted, RuleAllowed, TransAdded, TransBitFails, NewType
  <2>2. /\ db' \in Policies /\ db'.nprim >= db.nprim /\ db'.value = db.value
        /\ db'.attr = db.attr /\ db'.struct = db.struct /\ db'.name = db.name
    <3>1. CASE TypeNotInserted(u)
      <4>1. db' = [db EXCEPT !.nprim = db.nprim + 1]
        BY <3>1 DEF TypeNotInserted
      <4>2. db.nprim + 1 \in Nat /\ db.nprim + 1 >= db.nprim
        BY <1>2
      <4> QED
        BY <1>2, <4>1, <4>2 DEF Policies
    <3>2. CASE RuleAllowed(u)
      <4>1. Command(u).of \in Types \X Types
        BY <3>2, <1>5, CommandTypes DEF RuleAllowed
      <4> QED
        BY <1>2, <3>2, <4>1 DEF RuleAllowed, Policies
    <3>3. CASE TransAdded(u) \/ TransBitFails(u)
      <4>1. x \in Types
        BY <3>3, <1>5, CommandTypes DEF TransAdded, TransBitFails
      <4>2. TransBit(x) \in Nat
        BY <1>2, <4>1 DEF TransBit
      <4>3. \/ db' = [db EXCEPT !.trans = @ \cup {x}, !.ttypes = @ \cup {TransBit(x)}]
            \/ db' = [db EXCEPT !.trans = @ \cup {x}]
        BY <3>3 DEF TransAdded, TransBitFails
      <4> DEFINE e == [db EXCEPT !.trans = @ \cup {x}]
      <4>4. /\ e \in Policies /\ e.nprim = db.nprim /\ e.value = db.value
            /\ e.attr = db.attr /\ e.struct = db.struct /\ e.name = db.name
        BY <1>2, <4>1 DEF Policies
      <4>5. db' = [e EXCEPT !.ttypes = @ \cup {TransBit(x)}] \/ db' = e
        BY <4>3
      <4> HIDE DEF e, x
      <4> QED
        BY <1>2, <4>2, <4>4, <4>5 DEF Policies
    <3> QED
      BY <1>7, <3>1, <3>2, <3>3
  <2> QED
    BY <1>4, <2>1, <2>2, EndsPlaces, ArraysKept
<1>8. CASE TypeInserted(u)
  <2> DEFINE e == [db EXCEPT !.nprim = @ + 1]
  <2>1. /\ update[u].at = "apply" /\ x \in Types /\ db.value[x] = 0
        /\ db' = [e EXCEPT !.value[x] = db.nprim + 1]
        /\ UNCHANGED starved
    <3>1. Applying(u, "type")
      BY <1>8 DEF TypeInserted, NewType
    <3>2. update[u].at = "apply" /\ x \in Types
      BY <3>1, <1>5, CommandTypes
    <3>3. db.value[x] = 0 /\ UNCHANGED starved
      BY <1>8 DEF TypeInserted, NewType, history
    <3>4. db' = [e EXCEPT !.value[x] = db.nprim + 1]
      BY <1>8 DEF TypeInserted
    <3> QED
      BY <3>2, <3>3, <3>4
  <2>2. /\ db' \in Policies /\ db'.nprim = db.nprim + 1
        /\ db'.value = [db.value EXCEPT ![x] = db.nprim + 1]
        /\ db'.attr = db.attr /\ db'.struct = db.struct /\ db'.name = db.name
    <3>1. db.nprim + 1 \in Nat
      BY <1>2
    <3>2. /\ e \in Policies /\ e.nprim = db.nprim + 1 /\ e.value = db.value
          /\ e.attr = db.attr /\ e.struct = db.struct /\ e.name = db.name
      BY <1>2, <3>1 DEF Policies
    <3>3. [e.value EXCEPT ![x] = db.nprim + 1] \in [Types -> Nat]
      BY <1>2, <2>1, <3>1, <3>2
    <3> HIDE DEF e, x
    <3> QED
      BY <2>1, <3>2, <3>3 DEF Policies
  <2>3. update' = [update EXCEPT ![u] = [update[u] EXCEPT !.at = "grow", !.value = db.nprim + 1]]
    BY <1>1, <1>8 DEF TypeInserted
  <2>4. /\ update'[u].at = "grow" /\ update'[u].value = db.nprim + 1
        /\ update'[u].cmds = update[u].cmds
        /\ \A w \in Updaters \ {u} : update'[w] = update[w]
    BY <1>1, <2>3 DEF UpdateStates
  <2>5. Settled
    BY <1>4, <2>1 DEF ArraysInv
  <2>6. ValuesDistinct'
    BY <1>2, <1>3, <2>1, <2>2 DEF ValuesDistinct
  <2>7. Replacing(u)'
    <3>1. \A t \in Types \ {x} : db'.value[t] = db.value[t]
      BY <1>2, <2>2
    <3>2. db'.value[x] = db.nprim + 1 /\ Len(db.name) < db.nprim + 1
      BY <1>2, <2>1, <2>2, <2>5 DEF Settled
    <3>3. (Command(u))' = Command(u)
      BY <2>4 DEF Command
    <3> QED
      BY <2>1, <2>2, <2>4, <2>5, <3>1, <3>2, <3>3 DEF Replacing, Settled, OwnElement, Slot
  <2> QED
    BY <1>4, <2>1, <2>2, <2>4, <2>6, <2>7 DEF ArraysInv, Growing, Mutating
<1>9. CASE ArraysFail(u)
  <2>1. /\ update[u].at = "grow" /\ update[u].at \in Mutating /\ update[u].at \in Growing
        /\ CommandEnds(u, FALSE) /\ starved' = starved \cup {x} /\ UNCHANGED db
    BY <1>9 DEF ArraysFail, At, Mutating, Growing
  <2>2. Replacing(u)
    BY <2>1 DEF ArraysInv
  <2>3. Slot(db.name, x) = Null
    <3>1. x \in Types /\ db.value[x] = v /\ Len(db.name) < v
      BY <2>2 DEF Replacing
    <3>2. db.value[x] \in Nat /\ Len(db.name) < db.value[x]
      BY <1>2, <3>1
    <3> HIDE DEF x, v
    <3>3. db.value[x] \notin DOMAIN db.name
      BY <1>2, <3>2
    <3> QED
      BY <3>3 DEF Slot
  <2>4. Settled'
    BY <1>2, <2>1, <2>2, <2>3 DEF Settled, Replacing, OwnElement, Slot
  <2>5. ValuesDistinct'
    BY <1>3, <2>1 DEF ValuesDistinct
  <2> QED
    BY <1>2, <2>1, <2>4, <2>5, EndsPlaces DEF ArraysInv
<1>10. CASE GrowAttr(u) \/ GrowStruct(u)
  <2>1. update[u].at \in Growing
    BY <1>10 DEF GrowAttr, GrowStruct, At, Growing, Mutating
  <2>2. Replacing(u) /\ v \in Nat
    BY <1>1, <2>1 DEF ArraysInv, UpdateStates
  <2>3. Grown(db.name, v, x) \in Arrays
    <3>1. x \in Types
      BY <2>2 DEF Replacing
    <3> HIDE DEF x, v
    <3> QED
      BY <1>2, <2>2, <3>1, GrownType
  <2>4. /\ db' \in Policies /\ db'.nprim = db.nprim /\ db'.value = db.value
        /\ db'.name = db.name /\ UNCHANGED starved
        /\ \/ /\ update[u].at = "grow" /\ update' = [update EXCEPT ![u].at = "grow struct"]
              /\ db'.attr = Grown(db.name, v, x) /\ db'.struct = db.name
           \/ /\ update[u].at = "grow struct" /\ update' = [update EXCEPT ![u].at = "grow name"]
              /\ db'.attr = Grown(db.name, v, x) /\ db'.struct = Grown(db.name, v, x)
    <3>1. CASE GrowAttr(u)
      <4>1. /\ update[u].at = "grow" /\ update' = [update EXCEPT ![u].at = "grow struct"]
            /\ db' = [db EXCEPT !.attr = Grown(db.attr, v, x)] /\ UNCHANGED starved
        BY <3>1 DEF GrowAttr, At, Goto, history
      <4>2. db.attr = db.name /\ db.struct = db.name
        BY <2>2, <4>1 DEF Replacing
      <4> HIDE DEF x, v
      <4> QED
        BY <1>2, <2>3, <4>1, <4>2 DEF Policies
    <3>2. CASE GrowStruct(u)
      <4>1. /\ update[u].at = "grow struct" /\ update' = [update EXCEPT ![u].at = "grow name"]
            /\ db' = [db EXCEPT !.struct = Grown(db.struct, v, x)] /\ UNCHANGED starved
        BY <3>2 DEF GrowStruct, At, Goto, history
      <4>2. db.attr = Grown(db.name, v, x) /\ db.struct = db.name
        BY <2>2, <4>1 DEF Replacing
      <4> HIDE DEF x, v
      <4> QED
        BY <1>2, <2>3, <4>1, <4>2 DEF Policies
    <3> QED
      BY <1>10, <3>1, <3>2
  <2>5. /\ update'[u].value = v /\ (Command(u))' = Command(u)
        /\ update'[u].at = IF update[u].at = "grow" THEN "grow struct" ELSE "grow name"
        /\ \A w \in Updaters \ {u} : update'[w] = update[w]
    BY <1>1, <2>4 DEF UpdateStates, Command
  <2>6. Replacing(u)'
    BY <2>2, <2>4, <2>5 DEF Replacing, OwnElement, Slot
  <2>7. \A w \in Updaters \ {u} : update'[w].at \notin Growing
    BY <2>1, <2>5 DEF IInv, OneWriter, Growing, Mutating
  <2>8. ValuesDistinct'
    BY <1>3, <2>4 DEF ValuesDistinct
  <2>9. update'[u].at \in Growing
    BY <2>5 DEF Growing, Mutating
  <2> QED
    BY <2>4, <2>6, <2>7, <2>8, <2>9 DEF ArraysInv
<1>11. CASE GrowName(u)
  <2>1. /\ update[u].at = "grow name" /\ update[u].at \in Mutating /\ update[u].at \in Growing
        /\ CommandEnds(u, TRUE) /\ UNCHANGED starved
        /\ db' = [db EXCEPT !.name = Grown(db.name, v, x)]
    BY <1>11 DEF GrowName, At, Mutating, Growing
  <2>2. Replacing(u) /\ v \in Nat /\ x \in Types
    BY <1>1, <2>1 DEF ArraysInv, UpdateStates, Replacing
  <2>3. /\ Grown(db.name, v, x) \in Arrays /\ DOMAIN Grown(db.name, v, x) = 1 .. v
        /\ \A i \in 1 .. v : Grown(db.name, v, x)[i] =
             IF i = v THEN x ELSE IF i \in DOMAIN db.name THEN db.name[i] ELSE Null
    <3>1. db.name \in Arrays /\ v \in Nat /\ x \in Types
      BY <1>2, <2>2
    <3> HIDE DEF x, v
    <3>2. Grown(db.name, v, x) \in Arrays
      BY <3>1, GrownType
    <3>3. DOMAIN Grown(db.name, v, x) = 1 .. v
      BY <3>1, GrownType
    <3>4. ASSUME NEW i \in 1 .. v
          PROVE  Grown(db.name, v, x)[i] =
                   IF i = v THEN x ELSE IF i \in DOMAIN db.name THEN db.name[i] ELSE Null
      BY <3>4 DEF Grown
    <3> QED
      BY <3>2, <3>3, <3>4
  <2>4. /\ db' \in Policies /\ db'.nprim = db.nprim /\ db'.value = db.value
        /\ db'.attr = db.attr /\ db'.struct = db.struct /\ db'.name = Grown(db.name, v, x)
    BY <1>2, <2>1, <2>3 DEF Policies
  <2>5. db'.attr = db'.name /\ db'.struct = db'.name
    BY <2>1, <2>2, <2>4 DEF Replacing
  <2>6. Len(db'.name) = v /\ v = db.nprim /\ db.value[x] = v /\ v # 0
    <3>1. v = db.nprim /\ db.value[x] = v /\ Len(db.name) < v
      BY <2>2 DEF Replacing
    <3>2. v # 0
      BY <1>2, <2>2, <3>1
    <3> HIDE DEF x, v
    <3>3. Len(Grown(db.name, v, x)) = v
      BY <2>2, <2>3, LenOf DEF Arrays
    <3> QED
      BY <2>4, <3>1, <3>2, <3>3
  <2>7. ASSUME NEW t \in Types, db.value[t] # 0 PROVE OwnElement(db.name, t)'
    <3>1. CASE t = x
      <4>1. v \in 1 .. v
        BY <2>2, <2>6
      <4>2. Grown(db.name, v, x)[v] = x
        BY <2>3, <4>1
      <4> HIDE DEF x, v
      <4> QED
        BY <2>3, <2>4, <2>6, <3>1, <4>1, <4>2 DEF OwnElement, Slot
    <3>2. CASE t # x
      <4>1. OwnElement(db.name, t) /\ db.value[x] = v
        BY <2>2, <2>7, <3>2 DEF Replacing
      <4>2. db.value[t] \in 1 .. v /\ db.value[t] # v
        BY <1>2, <1>3, <2>2, <2>6, <2>7, <3>2, <4>1 DEF ValuesDistinct
      <4>3. Grown(db.name, v, x)[db.value[t]] = Slot(db.name, t)
        BY <2>3, <4>2 DEF Slot
      <4> QED
        BY <2>1, <2>3, <2>4, <4>1, <4>2, <4>3 DEF OwnElement, Slot
    <3> QED
      BY <3>1, <3>2
  <2>8. Settled'
    BY <2>4, <2>5, <2>6, <2>7 DEF Settled
  <2>9. ValuesDistinct'
    BY <1>3, <2>4 DEF ValuesDistinct
  <2> QED
    BY <2>1, <2>4, <2>8, <2>9, EndsPlaces DEF ArraysInv
<1> QED
  BY <1>6, <1>7, <1>8, <1>9, <1>10, <1>11 DEF Apply

LEMMA NextArrays == IInv /\ ArraysInv /\ [Next]_vars => ArraysInv'
<1> SUFFICES ASSUME IInv, ArraysInv, [Next]_vars PROVE ArraysInv'
  OBVIOUS
<1>1. update \in [Updaters -> UpdateStates]
  BY DEF IInv, LockTypes
<1>2. CASE ServerStarts \/ UNCHANGED vars
  BY <1>2, ArraysUntouched DEF ServerStarts, vars, history
<1>3. ASSUME NEW u \in Updaters, UpdateStep(u) \/ \E job \in Jobs : Begin(u, job), ~Apply(u)
      PROVE  ArraysInv'
  <2>1. /\ UNCHANGED <<db, starved>> /\ update[u].at \notin Growing
        /\ \E r \in {"idle", "validate", "find", "spin", "apply", "flush", "synchronize"} :
             update'[u].at = r
        /\ \A w \in Updaters \ {u} : update'[w] = update[w]
    <3>1. CASE Reject(u) \/ NoServer(u) \/ Return(u)
      <4>1. UNCHANGED <<db, starved>> /\ update[u].at \notin Growing
            /\ update' = [update EXCEPT ![u] = NoJob]
        BY <3>1 DEF Reject, NoServer, Return, At, Growing, Mutating, history
      <4> QED
        BY <1>1, <4>1, NoJobType
    <3>2. CASE Validated(u) \/ AskLock(u) \/ TakeLock(u) \/ Unlock(u)
      BY <1>1, <3>2 DEF Validated, AskLock, TakeLock, Unlock, At, Goto, UpdateStates, Growing,
         Mutating, history
    <3>3. CASE FlushAvc(u)
      BY <1>1, <3>3 DEF FlushAvc, At, UpdateStates, Growing, Mutating
    <3>4. CASE \E job \in Jobs : Begin(u, job)
      BY <1>1, <3>4 DEF Begin, At, NoJob, Growing, Mutating, history
    <3> QED
      BY <1>3, <3>1, <3>2, <3>3, <3>4 DEF UpdateStep
  <2>2. update'[u].at \notin Growing
    BY <2>1 DEF Growing, Mutating
  <2> QED
    BY <2>1, <2>2, ArraysUntouched
<1>4. ASSUME NEW l \in Lookups, LookupStep(l) \/ \E q \in Queries : SearchAvc(l, q)
      PROVE  ArraysInv'
  <2>1. UNCHANGED <<db, starved>> /\ (UNCHANGED update \/ LeaveRcu(l))
    BY <1>4 DEF LookupStep, AvcHit, AvcMiss, ReadLock, ReadType, ReadRule, EnterAgain,
       InsertAvc, SearchAvc, history
  <2>2. ASSUME NEW w \in Updaters
        PROVE  /\ update'[w].at = update[w].at /\ update'[w].cmds = update[w].cmds
               /\ update'[w].value = update[w].value
    BY <1>1, <2>1 DEF LeaveRcu, UpdateStates
  <2> QED
    BY <2>1, <2>2, ArraysUntouched
<1> QED
  BY <1>2, <1>3, <1>4, ApplyArrays DEF Next, UpdateStep

LEMMA ArraysInvariant == Spec => []ArraysInv
<1>1. Spec => []IInv
  BY IInvInvariant
<1> QED
  BY <1>1, InitArrays, NextArrays, PTL DEF Spec

(* Whatever allocation fails in whatever batch, between updates the three  *)
(* arrays agree and every type's element is its own or missing.            *)
THEOREM ArraysAlwaysSound == Spec => []TypeArraysSound
<1>1. IInv /\ ArraysInv => TypeArraysSound
  BY PolicyAssumption DEF IInv, OneWriter, ArraysInv, Settled, ValuesDistinct, OwnElement,
     Growing, TypeArraysSound
<1> QED
  BY <1>1, IInvInvariant, ArraysInvariant, PTL

(***************************************************************************)
(* What the lookups read, and what they leave in the cache.  CacheCurrent  *)
(* follows from the versions: a decision is the policy's as long as no     *)
(* update has been unlocked since it was read, an entry is as long as none *)
(* has been since the last reset, and an update that has been unlocked     *)
(* stays on its way to its reset until it gets there.                      *)
(***************************************************************************)
Stations == {"out", "search", "compute", "read type", "read rule", "computed", "insert"}

LookupStates ==
  [at : Stations, on : Updaters \cup {Null}, q : Queries \cup {<<>>}, slot : Types \cup {Null},
   granted : BOOLEAN, version : Nat]

Entries == [granted : BOOLEAN, late : BOOLEAN]

ReadTypes ==
  /\ ss \in BOOLEAN /\ version \in Nat /\ flushed \in 0 .. version
  /\ starved \subseteq Types /\ reported \subseteq Commands
  /\ avc \in [Queries -> {Null} \cup Entries]
  /\ lookup \in [Lookups -> LookupStates]
  /\ \A l \in Lookups : lookup[l].at # "out" => lookup[l].q \in Queries

(* A lookup between its two reads holds the lock, and what it has read is  *)
(* what the policy says until it lets go.                                  *)
SlotsRead ==
  \A l \in Lookups :
    /\ lookup[l].at \in {"read type", "read rule"} => l \in readers
    /\ lookup[l].at = "read rule" => lookup[l].slot = Slot(db.attr, lookup[l].q[1])

DecisionsRead ==
  \A l \in Lookups : lookup[l].at \in {"computed", "insert"} =>
    /\ lookup[l].version <= version
    /\ lookup[l].version = version /\ writer = Null =>
         lookup[l].granted = (lookup[l].q \in db.allow)

FlushPending == flushed = version \/ \E u \in Updaters : update[u].at = "flush"

EntriesCurrent ==
  writer = Null /\ flushed = version =>
    \A q \in Queries : avc[q] # Null => avc[q].late \/ avc[q].granted = (q \in db.allow)

(* Arrays are replaced for the sake of a new type only.                    *)
GrowsType == \A u \in Updaters : update[u].at \in Growing => Command(u).cmd = "type"

(* A transition that is reported is of a type that has its value for good. *)
TransKept ==
  \A t \in Types : Trans(t) \in reported =>
    t \in db.trans /\ db.value[t] # 0 /\ db.value[t] \in db.ttypes

SearchInv ==
  /\ ReadTypes /\ SlotsRead /\ DecisionsRead /\ FlushPending /\ EntriesCurrent
  /\ GrowsType /\ TransKept

LEMMA OutType ==
  Out \in LookupStates /\ Out.at = "out"
  BY DEF Out, LookupStates, Stations

LEMMA InitSearch == Init => SearchInv
<1> SUFFICES ASSUME Init PROVE SearchInv
  OBVIOUS
<1>1. /\ lookup = [l \in Lookups |-> Out] /\ update = [u \in Updaters |-> NoJob]
      /\ avc = [q \in Queries |-> Null] /\ ss = FALSE /\ version = 0 /\ flushed = 0
      /\ starved = {} /\ reported = {}
  BY DEF Init
<1>2. ReadTypes
  <2>1. lookup \in [Lookups -> LookupStates]
    BY <1>1, OutType
  <2>2. flushed \in 0 .. version
    BY <1>1
  <2> QED
    BY <1>1, <2>1, <2>2, OutType DEF ReadTypes
<1>3. SlotsRead /\ DecisionsRead
  BY <1>1, OutType DEF SlotsRead, DecisionsRead
<1>4. FlushPending /\ EntriesCurrent /\ TransKept
  BY <1>1 DEF FlushPending, EntriesCurrent, TransKept
<1>5. GrowsType
  BY <1>1, NoJobType DEF GrowsType, Growing, Mutating
<1> QED
  BY <1>2, <1>3, <1>4, <1>5 DEF SearchInv

(* What the steps of an updater do to what the lookups rely on.            *)
LEMMA UpdateEffect ==
  ASSUME IInv, NEW u \in Updaters,
         UpdateStep(u) \/ \E job \in Jobs : Begin(u, job), ~Apply(u)
  PROVE  /\ UNCHANGED <<ss, db, lookup, readers, starved, reported>>
         /\ \A v \in Updaters \ {u} : update'[v] = update[v]
         /\ update'[u].at \notin Growing
         /\ \/ /\ update[u].at # "flush" /\ UNCHANGED <<avc, version, flushed>>
               /\ writer' = writer \/ writer' = u
            \/ /\ update'[u].at = "flush" /\ version' = version + 1
               /\ UNCHANGED <<avc, flushed>>
            \/ /\ avc' = [q \in Queries |-> Null] /\ flushed' = version
               /\ UNCHANGED <<writer, version>>
<1>1. update \in [Updaters -> UpdateStates]
  BY DEF IInv, LockTypes
<1>2. CASE Reject(u) \/ NoServer(u) \/ Return(u)
  <2>1. /\ UNCHANGED <<ss, db, writer, lookup, readers, avc, history>> /\ update[u].at # "flush"
        /\ update' = [update EXCEPT ![u] = NoJob]
    BY <1>2 DEF Reject, NoServer, Return, At
  <2> QED
    BY <1>1, <2>1, NoJobType DEF history, Growing, Mutating
<1>3. CASE Validated(u) \/ AskLock(u) \/ TakeLock(u)
  <2>1. PICK p \in {"find", "spin", "apply"} :
          /\ UNCHANGED <<ss, db, lookup, readers, avc, history>> /\ update[u].at # "flush"
          /\ update' = [update EXCEPT ![u].at = p] /\ (writer' = writer \/ writer' = u)
    BY <1>3 DEF Validated, AskLock, TakeLock, At, Goto
  <2>2. update'[u].at = p
    BY <1>1, <2>1 DEF UpdateStates
  <2> QED
    BY <1>1, <2>1, <2>2 DEF history, Growing, Mutating
<1>4. CASE Unlock(u)
  <2>1. update'[u].at = "flush"
    BY <1>1, <1>4 DEF Unlock, Goto, UpdateStates
  <2> QED
    BY <1>1, <1>4, <2>1 DEF Unlock, Goto, Growing, Mutating
<1>5. CASE FlushAvc(u)
  <2>1. update'[u].at = "synchronize"
    BY <1>1, <1>5 DEF FlushAvc, UpdateStates
  <2> QED
    BY <1>1, <1>5, <2>1 DEF FlushAvc, Growing, Mutating
<1>6. CASE \E job \in Jobs : Begin(u, job)
  <2>1. PICK job \in Jobs : Begin(u, job)
    BY <1>6
  <2>2. update'[u].at \in {"validate", "find"}
    BY <1>1, <2>1 DEF Begin, NoJob
  <2>3. UNCHANGED <<ss, db, writer, lookup, readers, avc, history>> /\ update[u].at # "flush"
    BY <2>1 DEF Begin, At
  <2>4. \A v \in Updaters \ {u} : update'[v] = update[v]
    BY <1>1, <2>1 DEF Begin
  <2> QED
    BY <2>2, <2>3, <2>4 DEF history, Growing, Mutating
<1> QED
  BY <1>2, <1>3, <1>4, <1>5, <1>6 DEF UpdateStep

LEMMA ApplyEffect ==
  ASSUME IInv, NEW u \in Updaters, Apply(u)
  PROVE  /\ writer = u /\ readers = {} /\ update[u].at \in Mutating
         /\ UNCHANGED <<ss, writer, readers, lookup, avc, version, flushed>>
         /\ \A v \in Updaters \ {u} : update'[v] = update[v]
<1>1. update \in [Updaters -> UpdateStates]
  BY DEF IInv, LockTypes
<1>2. CASE TypeKnown(u) \/ TypeNotInserted(u) \/ TypeInserted(u)
  BY <1>1, <1>2, PolicyAssumption DEF TypeKnown, TypeNotInserted, TypeInserted, NewType,
     Applying, At, Mutating, CommandEnds, history, IInv, OneWriter, ReadersExcluded
<1>3. CASE ArraysFail(u) \/ GrowAttr(u) \/ GrowStruct(u) \/ GrowName(u)
  BY <1>1, <1>3, PolicyAssumption DEF ArraysFail, GrowAttr, GrowStruct, GrowName, At, Goto,
     Mutating, CommandEnds, history, IInv, OneWriter, ReadersExcluded
<1>4. CASE RuleRefused(u) \/ RuleAllowed(u) \/ TransAdded(u) \/ TransBitFails(u)
  BY <1>1, <1>4, PolicyAssumption DEF RuleRefused, RuleAllowed, TransAdded, TransBitFails,
     Applying, At, Mutating, CommandEnds, IInv, OneWriter, ReadersExcluded
<1> QED
  BY <1>2, <1>3, <1>4 DEF Apply

(* A command that ends is the one in hand, and is reported if it worked.   *)
LEMMA ReportOfEnds ==
  ASSUME IInv, NEW u \in Updaters, update[u].at \in Mutating, update[u].cmds # <<>>,
         NEW ok \in BOOLEAN, CommandEnds(u, ok)
  PROVE  /\ Command(u) \in Commands /\ update'[u].at = "apply"
         /\ reported' = IF ok THEN reported \cup {Command(u)} ELSE reported
<1>1. update \in [Updaters -> UpdateStates]
  BY DEF IInv, LockTypes
<1>2. Command(u) \in Commands
  BY <1>1 DEF Command, UpdateStates
<1>3. update'[u].at = "apply"
  <2>1. update'[u] = [update[u] EXCEPT !.at = "apply", !.cmds = Tail(update[u].cmds)]
    BY <1>1 DEF CommandEnds
  <2> QED
    BY <1>1, <2>1 DEF UpdateStates
<1> QED
  BY <1>2, <1>3 DEF CommandEnds

(* The holder's steps keep what is said of reported commands.              *)
LEMMA ApplyReported ==
  ASSUME IInv, ArraysInv, SearchInv, NEW u \in Updaters, Apply(u)
  PROVE  /\ starved' \subseteq Types /\ reported' \subseteq Commands
         /\ TransKept' /\ (update'[u].at \in Growing => (Command(u).cmd = "type")')
<1>1. update \in [Updaters -> UpdateStates]
  BY DEF IInv, LockTypes
<1>2. /\ db \in Policies /\ db.value \in [Types -> Nat] /\ db.nprim \in Nat
      /\ db.trans \subseteq Types /\ db.ttypes \subseteq Nat
  BY DEF ArraysInv, Policies
<1>3. starved \subseteq Types /\ reported \subseteq Commands /\ TransKept
  BY DEF SearchInv, ReadTypes
<1>4. \A t \in Types : Trans(t).cmd = "trans" /\ Trans(t).of[1] = t
  BY DEF Trans
<1>5. ASSUME NEW kind \in {"type", "allow", "trans"}, Applying(u, kind)
      PROVE  /\ update[u].at \in Mutating /\ update[u].cmds # <<>> /\ Command(u).cmd = kind
  BY <1>5 DEF Applying, At, Mutating
<1>6. ASSUME update[u].at \in Growing
      PROVE  update[u].at \in Mutating /\ update[u].cmds # <<>> /\ Command(u).cmd = "type"
  BY <1>6 DEF Growing, SearchInv, GrowsType, IInv, CommandInHand
<1>7. "apply" \notin Growing
  BY DEF Growing
<1>8. CASE TypeKnown(u)
  <2>1. CommandEnds(u, TRUE) /\ UNCHANGED <<db, starved>> /\ Applying(u, "type")
    BY <1>8 DEF TypeKnown
  <2>2. /\ Command(u) \in Commands /\ update'[u].at = "apply"
        /\ reported' = reported \cup {Command(u)} /\ Command(u).cmd = "type"
    BY <1>5, <2>1, ReportOfEnds
  <2> QED
    BY <1>3, <1>4, <1>7, <2>1, <2>2 DEF TransKept
<1>9. CASE TypeNotInserted(u)
  <2>1. CommandEnds(u, FALSE) /\ UNCHANGED starved /\ Applying(u, "type")
        /\ db' = [db EXCEPT !.nprim = @ + 1]
    BY <1>9 DEF TypeNotInserted, NewType
  <2>2. update'[u].at = "apply" /\ reported' = reported
    BY <1>5, <2>1, ReportOfEnds
  <2>3. db'.value = db.value /\ db'.trans = db.trans /\ db'.ttypes = db.ttypes
    BY <1>2, <2>1 DEF Policies
  <2> QED
    BY <1>3, <1>7, <2>1, <2>2, <2>3 DEF TransKept
<1>10. CASE TypeInserted(u)
  <2> DEFINE x == Command(u).of[1]
             n == db.nprim + 1
             e == [db EXCEPT !.nprim = @ + 1]
  <2>1. /\ UNCHANGED <<starved, reported>> /\ Applying(u, "type") /\ db.value[x] = 0
        /\ db' = [e EXCEPT !.value[x] = n]
        /\ update' = [update EXCEPT ![u].at = "grow", ![u].value = n]
    BY <1>10 DEF TypeInserted, NewType, history
  <2>2. Command(u)' = Command(u)
    BY <1>1, <2>1 DEF Command, UpdateStates
  <2>3. \A t \in Types : db.value[t] # 0 => db'.value[t] = db.value[t]
    BY <1>2, <2>1 DEF Policies
  <2>4. db'.trans = db.trans /\ db'.ttypes = db.ttypes
    BY <1>2, <2>1 DEF Policies
  <2>5. TransKept'
    BY <1>3, <2>1, <2>3, <2>4 DEF TransKept
  <2> QED
    BY <1>3, <1>5, <2>1, <2>2, <2>5
<1>11. CASE ArraysFail(u)
  <2>1. /\ update[u].at \in Growing /\ CommandEnds(u, FALSE) /\ UNCHANGED db
        /\ starved' = starved \cup {Command(u).of[1]}
    BY <1>11 DEF ArraysFail, At, Growing, Mutating
  <2>2. update'[u].at = "apply" /\ reported' = reported
    BY <1>6, <2>1, ReportOfEnds
  <2>3. Command(u).of[1] \in Types
    BY <2>1 DEF ArraysInv, Replacing
  <2> QED
    BY <1>3, <1>7, <2>1, <2>2, <2>3 DEF TransKept
<1>12. CASE GrowAttr(u) \/ GrowStruct(u)
  <2>1. /\ update[u].at \in Growing /\ UNCHANGED <<starved, reported>>
        /\ \E p \in Growing : update' = [update EXCEPT ![u].at = p]
        /\ db'.value = db.value /\ db'.trans = db.trans /\ db'.ttypes = db.ttypes
    BY <1>2, <1>12 DEF GrowAttr, GrowStruct, At, Goto, Growing, Mutating, history, Policies
  <2>2. Command(u)' = Command(u)
    BY <1>1, <2>1 DEF Command, UpdateStates
  <2> QED
    BY <1>3, <1>6, <2>1, <2>2 DEF TransKept
<1>13. CASE GrowName(u)
  <2>1. /\ update[u].at \in Growing /\ CommandEnds(u, TRUE) /\ UNCHANGED starved
        /\ db'.value = db.value /\ db'.trans = db.trans /\ db'.ttypes = db.ttypes
    BY <1>2, <1>13 DEF GrowName, At, Growing, Mutating, Policies
  <2>2. /\ Command(u) \in Commands /\ update'[u].at = "apply"
        /\ reported' = reported \cup {Command(u)} /\ Command(u).cmd = "type"
    BY <1>6, <2>1, ReportOfEnds
  <2> QED
    BY <1>3, <1>4, <1>7, <2>1, <2>2 DEF TransKept
<1>14. CASE RuleRefused(u)
  <2>1. /\ CommandEnds(u, FALSE) /\ UNCHANGED <<db, starved>>
        /\ Applying(u, "allow") \/ Applying(u, "trans")
    BY <1>14 DEF RuleRefused
  <2>2. update'[u].at = "apply" /\ reported' = reported
    BY <1>5, <2>1, ReportOfEnds
  <2> QED
    BY <1>3, <1>7, <2>1, <2>2 DEF TransKept
<1>15. CASE RuleAllowed(u)
  <2>1. /\ CommandEnds(u, TRUE) /\ UNCHANGED starved /\ Applying(u, "allow")
        /\ db'.value = db.value /\ db'.trans = db.trans /\ db'.ttypes = db.ttypes
    BY <1>2, <1>15 DEF RuleAllowed, Policies
  <2>2. /\ Command(u) \in Commands /\ update'[u].at = "apply"
        /\ reported' = reported \cup {Command(u)} /\ Command(u).cmd = "allow"
    BY <1>5, <2>1, ReportOfEnds
  <2> QED
    BY <1>3, <1>4, <1>7, <2>1, <2>2 DEF TransKept
<1>16. CASE TransAdded(u)
  <2>1. PICK x : x = Command(u).of[1]
    OBVIOUS
  <2>2. /\ CommandEnds(u, TRUE) /\ UNCHANGED starved /\ Applying(u, "trans")
        /\ db' = [db EXCEPT !.trans = @ \cup {x}, !.ttypes = @ \cup {db.value[x]}]
        /\ db.value[x] # 0
    <3>1. CommandEnds(u, TRUE) /\ UNCHANGED starved /\ Applying(u, "trans") /\ Known(u)
      BY <1>16 DEF TransAdded
    <3>2. Command(u) \in Commands /\ Command(u).cmd = "trans"
      BY <1>1, <1>5, <3>1 DEF Command, UpdateStates
    <3>3. Command(u) \in {Trans(t) : t \in Types}
      BY <3>2 DEF Commands, AddType, Allow, Malformed
    <3>4. 1 \in DOMAIN Command(u).of
      BY <3>3 DEF Trans
    <3> QED
      BY <1>16, <2>1, <3>1, <3>4 DEF TransAdded, TransBit, Known
  <2>3. /\ Command(u) \in Commands /\ update'[u].at = "apply"
        /\ reported' = reported \cup {Command(u)} /\ Command(u).cmd = "trans"
    BY <1>5, <2>2, ReportOfEnds
  <2>4. /\ db'.value = db.value /\ db'.trans = db.trans \cup {x}
        /\ db'.ttypes = db.ttypes \cup {db.value[x]}
    BY <1>2, <2>2 DEF Policies
  <2>5. ASSUME NEW t \in Types, Trans(t) = Command(u) PROVE t = x
    BY <1>4, <2>1, <2>5
  <2>6. TransKept'
    BY <1>3, <2>2, <2>3, <2>4, <2>5 DEF TransKept
  <2> QED
    BY <1>3, <1>7, <2>2, <2>3, <2>6
<1>17. CASE TransBitFails(u)
  <2>1. /\ CommandEnds(u, FALSE) /\ UNCHANGED starved /\ Applying(u, "trans")
        /\ db'.value = db.value /\ db.trans \subseteq db'.trans /\ db'.ttypes = db.ttypes
    BY <1>2, <1>17 DEF TransBitFails, Policies
  <2>2. update'[u].at = "apply" /\ reported' = reported
    BY <1>5, <2>1, ReportOfEnds
  <2> QED
    BY <1>3, <1>7, <2>1, <2>2 DEF TransKept
<1> QED
  BY <1>8, <1>9, <1>10, <1>11, <1>12, <1>13, <1>14, <1>15, <1>16, <1>17 DEF Apply

LEMMA ApplySearch ==
  ASSUME IInv, ArraysInv, SearchInv, NEW u \in Updaters, Apply(u)
  PROVE  SearchInv'
<1>1. /\ writer = u /\ readers = {} /\ update[u].at \in Mutating
      /\ UNCHANGED <<ss, writer, readers, lookup, avc, version, flushed>>
      /\ \A v \in Updaters \ {u} : update'[v] = update[v]
  BY ApplyEffect
<1>2. /\ starved' \subseteq Types /\ reported' \subseteq Commands
      /\ TransKept' /\ (update'[u].at \in Growing => (Command(u).cmd = "type")')
  BY ApplyReported
<1>3. ReadTypes'
  BY <1>1, <1>2 DEF SearchInv, ReadTypes
<1>4. SlotsRead'
  BY <1>1 DEF SearchInv, SlotsRead
<1>5. DecisionsRead' /\ EntriesCurrent'
  BY <1>1, PolicyAssumption DEF SearchInv, DecisionsRead, EntriesCurrent
<1>6. FlushPending'
  BY <1>1 DEF SearchInv, FlushPending, Mutating
<1>7. GrowsType'
  BY <1>1, <1>2 DEF SearchInv, GrowsType, Command
<1> QED
  BY <1>2, <1>3, <1>4, <1>5, <1>6, <1>7 DEF SearchInv

LEMMA UpdateSearch ==
  ASSUME IInv, SearchInv, NEW u \in Updaters,
         UpdateStep(u) \/ \E job \in Jobs : Begin(u, job), ~Apply(u)
  PROVE  SearchInv'
<1>1. /\ UNCHANGED <<ss, db, lookup, readers, starved, reported>>
      /\ \A v \in Updaters \ {u} : update'[v] = update[v]
      /\ update'[u].at \notin Growing
      /\ \/ /\ update[u].at # "flush" /\ UNCHANGED <<avc, version, flushed>>
            /\ writer' = writer \/ writer' = u
         \/ /\ update'[u].at = "flush" /\ version' = version + 1
            /\ UNCHANGED <<avc, flushed>>
         \/ /\ avc' = [q \in Queries |-> Null] /\ flushed' = version
            /\ UNCHANGED <<writer, version>>
  BY UpdateEffect
<1>2. /\ version \in Nat /\ flushed \in 0 .. version
      /\ avc \in [Queries -> {Null} \cup Entries]
      /\ \A l \in Lookups : lookup[l].version \in Nat
  BY DEF SearchInv, ReadTypes, LookupStates
<1>3. ReadTypes'
  <2>1. version' \in Nat /\ flushed' \in 0 .. version'
    BY <1>1, <1>2
  <2>2. avc' \in [Queries -> {Null} \cup Entries]
    BY <1>1, <1>2
  <2> QED
    BY <1>1, <2>1, <2>2 DEF SearchInv, ReadTypes
<1>4. SlotsRead'
  BY <1>1 DEF SearchInv, SlotsRead, Slot
<1>5. DecisionsRead'
  BY <1>1, <1>2, PolicyAssumption DEF SearchInv, DecisionsRead
<1>6. FlushPending'
  BY <1>1 DEF SearchInv, FlushPending
<1>7. EntriesCurrent'
  BY <1>1, <1>2, PolicyAssumption DEF SearchInv, EntriesCurrent
<1>8. GrowsType' /\ TransKept'
  BY <1>1 DEF SearchInv, GrowsType, TransKept, Command
<1> QED
  BY <1>3, <1>4, <1>5, <1>6, <1>7, <1>8 DEF SearchInv

(* A lookup's step changes its own state and the cache at most.            *)
LEMMA LookupEffect ==
  ASSUME IInv, NEW l \in Lookups,
         LookupStep(l) \/ \E q \in Queries : SearchAvc(l, q)
  PROVE  /\ UNCHANGED <<ss, db, writer, version, flushed, starved, reported>>
         /\ \A u \in Updaters :
              update'[u].at = update[u].at /\ update'[u].cmds = update[u].cmds
<1>1. update \in [Updaters -> UpdateStates]
  BY DEF IInv, LockTypes
<1>2. UNCHANGED <<ss, db, writer, version, flushed, starved, reported>>
  BY DEF LookupStep, AvcHit, AvcMiss, ReadLock, ReadType, ReadRule, EnterAgain, InsertAvc,
     SearchAvc, history
<1>3. UNCHANGED update \/ LeaveRcu(l)
  BY DEF LookupStep, AvcHit, AvcMiss, ReadLock, ReadType, ReadRule, EnterAgain, InsertAvc,
     SearchAvc
<1>4. ASSUME NEW u \in Updaters
      PROVE  update'[u].at = update[u].at /\ update'[u].cmds = update[u].cmds
  BY <1>1, <1>3 DEF LeaveRcu, UpdateStates
<1> QED
  BY <1>2, <1>4

LEMMA SlotUnchanged ==
  ASSUME NEW o, db' = db
  PROVE  Slot(db.attr, lookup[o].q[1])' = Slot(db.attr, lookup'[o].q[1])
BY DEF Slot

(* A lookup goes on to a state r; what is left to show is about r.         *)
LEMMA LookupMoves ==
  ASSUME SearchInv, NEW l \in Lookups, NEW r \in LookupStates,
         UNCHANGED <<ss, db, writer, version, flushed, starved, reported>>,
         \A u \in Updaters :
           update'[u].at = update[u].at /\ update'[u].cmds = update[u].cmds,
         lookup' = [lookup EXCEPT ![l] = r],
         r.at # "out" => r.q \in Queries,
         r.at \in {"read type", "read rule"} => l \in readers',
         r.at = "read rule" => r.slot = Slot(db.attr, r.q[1]),
         \A o \in Lookups \ {l} : o \in readers => o \in readers',
         r.at \in {"computed", "insert"} =>
           /\ r.version <= version
           /\ r.version = version /\ writer = Null => r.granted = (r.q \in db.allow),
         avc' \in [Queries -> {Null} \cup Entries], EntriesCurrent'
  PROVE  SearchInv'
<1>1. lookup \in [Lookups -> LookupStates]
  BY DEF SearchInv, ReadTypes
<1>2. lookup'[l] = r /\ \A o \in Lookups \ {l} : lookup'[o] = lookup[o]
  BY <1>1
<1>3. ReadTypes'
  BY <1>1, <1>2 DEF SearchInv, ReadTypes
<1>4. SlotsRead'
  <2>1. SlotsRead
    BY DEF SearchInv
  <2>2. ASSUME NEW o \in Lookups
        PROVE  /\ lookup'[o].at \in {"read type", "read rule"} => o \in readers'
               /\ lookup'[o].at = "read rule" =>
                    lookup'[o].slot = Slot(db.attr, lookup[o].q[1])'
    <3>0. Slot(db.attr, lookup[o].q[1])' = Slot(db.attr, lookup'[o].q[1])
      BY SlotUnchanged, Zenon
    <3>1. CASE o = l
      BY <1>2, <3>0, <3>1
    <3>2. CASE o # l
      BY <1>2, <2>1, <3>0, <3>2 DEF SlotsRead
    <3> QED
      BY <3>1, <3>2
  <2> QED
    BY <2>2 DEF SlotsRead
<1>5. DecisionsRead'
  BY <1>2 DEF SearchInv, DecisionsRead
<1>6. FlushPending' /\ GrowsType' /\ TransKept'
  BY DEF SearchInv, FlushPending, GrowsType, TransKept, Command
<1> QED
  BY <1>3, <1>4, <1>5, <1>6 DEF SearchInv

LEMMA LookupSearch ==
  ASSUME IInv, ArraysInv, SearchInv, NEW l \in Lookups,
         LookupStep(l) \/ \E q \in Queries : SearchAvc(l, q)
  PROVE  SearchInv'
<1>1. /\ UNCHANGED <<ss, db, writer, version, flushed, starved, reported>>
      /\ \A u \in Updaters :
           update'[u].at = update[u].at /\ update'[u].cmds = update[u].cmds
  BY LookupEffect
<1>2. /\ lookup \in [Lookups -> LookupStates] /\ lookup[l] \in LookupStates
      /\ lookup[l].at # "out" => lookup[l].q \in Queries
      /\ avc \in [Queries -> {Null} \cup Entries] /\ version \in Nat
      /\ flushed \in 0 .. version
  BY DEF SearchInv, ReadTypes
<1>3. UNCHANGED avc => EntriesCurrent'
  BY <1>1 DEF SearchInv, EntriesCurrent
<1>4. CASE \E q \in Queries : SearchAvc(l, q)
  <2>1. PICK q \in Queries : SearchAvc(l, q)
    BY <1>4
  <2>0. PICK on \in {Null} \cup Updaters :
          lookup' = [lookup EXCEPT ![l] = [Out EXCEPT !.at = "search", !.on = on, !.q = q]]
    BY <2>1 DEF SearchAvc
  <2> DEFINE r == [Out EXCEPT !.at = "search", !.on = on, !.q = q]
  <2>2. UNCHANGED <<readers, avc>> /\ lookup' = [lookup EXCEPT ![l] = r]
    BY <2>0, <2>1 DEF SearchAvc
  <2>3. r \in LookupStates /\ r.at = "search" /\ r.q = q
    BY DEF Out, LookupStates, Stations
  <2> HIDE DEF r
  <2> QED
    BY <1>1, <1>2, <1>3, <2>2, <2>3, LookupMoves
<1>5. CASE AvcHit(l)
  <2>1. UNCHANGED <<readers, avc>> /\ lookup' = [lookup EXCEPT ![l] = Out]
    BY <1>5 DEF AvcHit
  <2> QED
    BY <1>1, <1>2, <1>3, <2>1, OutType, LookupMoves
<1>6. CASE AvcMiss(l)
  <2> DEFINE r == [lookup[l] EXCEPT !.at = "compute"]
  <2>1. /\ UNCHANGED <<readers, avc>> /\ lookup' = [lookup EXCEPT ![l] = r]
        /\ lookup[l].at = "search"
    BY <1>6 DEF AvcMiss
  <2>2. r \in LookupStates /\ r.at = "compute" /\ r.q = lookup[l].q
    BY <1>2 DEF LookupStates, Stations
  <2> HIDE DEF r
  <2> QED
    BY <1>1, <1>2, <1>3, <2>1, <2>2, LookupMoves
<1>7. CASE ReadLock(l)
  <2> DEFINE r == [lookup[l] EXCEPT !.at = "read type"]
  <2>1. /\ UNCHANGED avc /\ lookup' = [lookup EXCEPT ![l] = r]
        /\ lookup[l].at = "compute" /\ readers' = readers \cup {l}
    BY <1>7 DEF ReadLock
  <2>2. r \in LookupStates /\ r.at = "read type" /\ r.q = lookup[l].q
    BY <1>2 DEF LookupStates, Stations
  <2> HIDE DEF r
  <2> QED
    BY <1>1, <1>2, <1>3, <2>1, <2>2, LookupMoves
<1>8. CASE ReadType(l)
  <2>1. PICK t : t = lookup[l].q[1]
    OBVIOUS
  <2> DEFINE r == [lookup[l] EXCEPT !.at = "read rule", !.slot = Slot(db.attr, t)]
  <2>2. /\ UNCHANGED <<readers, avc>> /\ lookup' = [lookup EXCEPT ![l] = r]
        /\ lookup[l].at = "read type"
    BY <1>2, <1>8, <2>1 DEF ReadType
  <2>3. Slot(db.attr, t) \in Types \cup {Null}
    <3>1. db.attr \in Seq(Types \cup {Null})
      BY DEF ArraysInv, Policies, Arrays
    <3> QED
      BY <3>1 DEF Slot
  <2>4. /\ r \in LookupStates /\ r.at = "read rule" /\ r.q = lookup[l].q
        /\ r.slot = Slot(db.attr, t)
    BY <1>2, <2>3 DEF LookupStates, Stations
  <2>5. l \in readers
    BY <2>2 DEF SearchInv, SlotsRead
  <2> HIDE DEF r
  <2> QED
    BY <1>1, <1>2, <1>3, <2>1, <2>2, <2>4, <2>5, LookupMoves
<1>9. CASE ReadRule(l)
  <2>1. PICK g : g = (lookup[l].q \in db.allow)
    OBVIOUS
  <2> DEFINE r == [lookup[l] EXCEPT !.at = "computed", !.granted = g, !.version = version]
  <2>2. /\ UNCHANGED avc /\ lookup' = [lookup EXCEPT ![l] = r]
        /\ lookup[l].at = "read rule" /\ readers' = readers \ {l}
    BY <1>2, <1>9, <2>1 DEF ReadRule
  <2>3. g \in BOOLEAN
    BY <2>1
  <2>4. /\ r \in LookupStates /\ r.at = "computed" /\ r.q = lookup[l].q
        /\ r.granted = g /\ r.version = version
    BY <1>2, <2>3 DEF LookupStates, Stations
  <2> HIDE DEF r
  <2>5. version <= version
    BY <1>2
  <2> QED
    BY <1>1, <1>2, <1>3, <2>1, <2>2, <2>4, <2>5, LookupMoves
<1>10. CASE EnterAgain(l)
  <2> DEFINE r == [lookup[l] EXCEPT !.at = "insert"]
  <2>1. /\ UNCHANGED <<readers, avc>> /\ lookup' = [lookup EXCEPT ![l] = r]
        /\ lookup[l].at = "computed"
    BY <1>10 DEF EnterAgain
  <2>2. /\ r \in LookupStates /\ r.at = "insert" /\ r.q = lookup[l].q
        /\ r.granted = lookup[l].granted /\ r.version = lookup[l].version
    BY <1>2 DEF LookupStates, Stations
  <2>3. /\ lookup[l].version <= version
        /\ lookup[l].version = version /\ writer = Null =>
             lookup[l].granted = (lookup[l].q \in db.allow)
    BY <2>1 DEF SearchInv, DecisionsRead
  <2> HIDE DEF r
  <2> QED
    BY <1>1, <1>2, <1>3, <2>1, <2>2, <2>3, LookupMoves
<1>11. CASE InsertAvc(l)
  <2> DEFINE p == lookup[l].q
             x == [granted |-> lookup[l].granted, late |-> lookup[l].version < flushed]
  <2>1. /\ UNCHANGED readers /\ lookup' = [lookup EXCEPT ![l] = Out]
        /\ avc' = [avc EXCEPT ![p] = x] /\ lookup[l].at = "insert"
    BY <1>11 DEF InsertAvc
  <2>2. p \in Queries /\ x \in Entries
    BY <1>2, <2>1 DEF LookupStates, Entries
  <2>3. avc' \in [Queries -> {Null} \cup Entries]
    BY <1>2, <2>1, <2>2
  <2>4. ASSUME writer = Null, flushed = version PROVE x.late \/ x.granted = (p \in db.allow)
    <3>1. /\ lookup[l].version <= version /\ lookup[l].version \in Nat
          /\ lookup[l].version = version => lookup[l].granted = (p \in db.allow)
      BY <1>2, <2>1, <2>4 DEF SearchInv, DecisionsRead, LookupStates
    <3>2. lookup[l].version < flushed \/ lookup[l].version = version
      BY <1>2, <2>4, <3>1
    <3> QED
      BY <3>1, <3>2
  <2>5. EntriesCurrent'
    <3>1. ASSUME writer = Null, flushed = version, NEW q \in Queries, avc'[q] # Null
          PROVE  avc'[q].late \/ avc'[q].granted = (q \in db.allow)
      <4> HIDE DEF x, p
      <4>1. CASE q = p
        BY <1>2, <2>1, <2>4, <3>1, <4>1
      <4>2. CASE q # p
        BY <1>2, <2>1, <3>1, <4>2 DEF SearchInv, EntriesCurrent
      <4> QED
        BY <4>1, <4>2
    <3> QED
      BY <1>1, <3>1 DEF EntriesCurrent
  <2> QED
    BY <1>1, <1>2, <2>1, <2>3, <2>5, OutType, LookupMoves
<1> QED
  BY <1>4, <1>5, <1>6, <1>7, <1>8, <1>9, <1>10, <1>11 DEF LookupStep

LEMMA NextSearch == IInv /\ ArraysInv /\ SearchInv /\ [Next]_vars => SearchInv'
<1> SUFFICES ASSUME IInv, ArraysInv, SearchInv, [Next]_vars PROVE SearchInv'
  OBVIOUS
<1>1. CASE ServerStarts \/ UNCHANGED vars
  <2>1. /\ ss' \in BOOLEAN
        /\ UNCHANGED <<db, writer, readers, update, lookup, avc, history>>
    BY <1>1 DEF ServerStarts, vars, history, SearchInv, ReadTypes
  <2>2. ReadTypes' /\ FlushPending' /\ EntriesCurrent'
    BY <2>1 DEF SearchInv, ReadTypes, FlushPending, EntriesCurrent, history
  <2>3. SlotsRead' /\ DecisionsRead' /\ GrowsType' /\ TransKept'
    BY <2>1 DEF SearchInv, SlotsRead, DecisionsRead, GrowsType, TransKept, Command, Slot,
       history
  <2> QED
    BY <2>2, <2>3 DEF SearchInv
<1>2. CASE \E u \in Updaters : UpdateStep(u) \/ \E job \in Jobs : Begin(u, job)
  BY <1>2, ApplySearch, UpdateSearch
<1>3. CASE \E l \in Lookups : LookupStep(l) \/ \E q \in Queries : SearchAvc(l, q)
  BY <1>3, LookupSearch
<1> QED
  BY <1>1, <1>2, <1>3 DEF Next

LEMMA SearchInvariant == Spec => []SearchInv
  BY IInvInvariant, ArraysInvariant, InitSearch, NextSearch, PTL DEF Spec

(* However lookups and updates interleave and whatever allocation fails, a *)
(* lookup finds the element of every type the policy names, and every      *)
(* filename transition that was reported has the bit the lookup tests.     *)
THEOREM NamesAlwaysFound == Spec => []NamesFound
<1>1. IInv /\ ArraysInv /\ SearchInv => NamesFound
  <2> SUFFICES ASSUME IInv, ArraysInv, SearchInv PROVE NamesFound
    OBVIOUS
  <2>1. TypeOK
    BY DEF IInv, LockTypes, ArraysInv, SearchInv, ReadTypes, Entries, TypeOK
  <2>2. TransitionsFound
    BY DEF SearchInv, TransKept, TransitionsFound
  <2>3. LookupFindsType
    <3> SUFFICES ASSUME NEW l \in Lookups, lookup[l].at = "read rule",
                        db.value[lookup[l].q[1]] # 0, lookup[l].q[1] \notin starved
                 PROVE  lookup[l].slot = lookup[l].q[1]
      BY DEF LookupFindsType
    <3>1. lookup[l].q \in Types \X Types
      BY PolicyAssumption DEF SearchInv, ReadTypes
    <3>2. PICK s \in Types : s = lookup[l].q[1]
      BY <3>1
    <3>3. l \in readers /\ lookup[l].slot = Slot(db.attr, s)
      BY <3>2 DEF SearchInv, SlotsRead
    <3>4. writer = Null
      BY <3>3 DEF IInv, ReadersExcluded
    <3>5. Settled
      BY <3>4, PolicyAssumption DEF IInv, OneWriter, ArraysInv, Growing
    <3>6. Slot(db.attr, s) = s
      BY <3>2, <3>5 DEF Settled, OwnElement
    <3> QED
      BY <3>2, <3>3, <3>6
  <2> QED
    BY <2>1, <2>2, <2>3 DEF NamesFound
<1> QED
  BY <1>1, IInvInvariant, ArraysInvariant, SearchInvariant, PTL

(* Once every update has reset the cache, what is cached is the policy's   *)
(* decision, except for answers read before a reset and inserted after it. *)
THEOREM CacheAlwaysCurrent == Spec => []CacheCurrent
<1>1. IInv /\ SearchInv => CacheCurrent
  <2> SUFFICES ASSUME IInv, SearchInv,
                      \A u \in Updaters : update[u].at \notin Mutating \cup {"flush"}
               PROVE  \A q \in Queries :
                        avc[q] # Null => avc[q].late \/ avc[q].granted = (q \in db.allow)
    BY DEF CacheCurrent
  <2>1. writer = Null
    BY DEF IInv, LockTypes, OneWriter
  <2>2. flushed = version
    BY DEF SearchInv, FlushPending
  <2> QED
    BY <2>1, <2>2 DEF SearchInv, EntriesCurrent
<1> QED
  BY <1>1, IInvInvariant, SearchInvariant, PTL

==============================================================================
