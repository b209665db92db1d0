----------------------------- MODULE BoundedLog -----------------------------
(***************************************************************************)
(* What the persistent zone promises to those who mark and to the next     *)
(* boot, without ring, header or slots: a log of numbered cells.  A writer *)
(* reserves numbers for the cells of a line and then owes the log these    *)
(* cells; a cell it has delivered is kept, also when the power is cut,     *)
(* until Capacity later numbers have been reserved.  Only a writer that    *)
(* delivers so late that its cell is past keeping can do harm: the log may *)
(* then lose one cell that it kept.                                        *)
(***************************************************************************)
EXTENDS Integers

CONSTANTS
  Writers,        (* Who may be writing a line.                            *)
  Lines,          (* What a line says.                                     *)
  MaxLine,        (* Cells of the longest line.                            *)
  Capacity        (* How many cells the log keeps.                         *)

VARIABLES
  on,             (* Lines are being written; the power has not been cut.  *)
  next,           (* The number of the next cell.                          *)
  owed,           (* Per writer, the cells it has still to deliver.        *)
  kept            (* The cells that a reader of the log finds.             *)

logVars == <<on, next, owed, kept>>

Entry(number, line, part, n) ==
  [off |-> number, line |-> line, part |-> part, n |-> n]

(* When count numbers have been reserved, this one is past keeping.        *)
Past(number, count) == number + Capacity < count

NothingOwed == [x \in Writers |-> {}]

LogInit ==
  /\ on   = FALSE
  /\ next = 0
  /\ owed = NothingOwed
  /\ kept = {}

Reserve(x, line, n) ==
  /\ on
  /\ owed[x] = {}
  /\ next' = next + n
  /\ owed' = [owed EXCEPT ![x] = {Entry(next + k, line, k + 1, n) : k \in 0 .. n - 1}]
  /\ kept' = {e \in kept : ~Past(e.off, next')}
  /\ UNCHANGED on

(* A writer delivers in the order of its numbers.                          *)
Deliver(x, e) ==
  /\ on
  /\ \A f \in owed[x] : e.off <= f.off
  /\ owed' = [owed EXCEPT ![x] = @ \ {e}]
  /\ \/ ~Past(e.off, next) /\ kept' = kept \cup {e}
     \/ Past(e.off, next) /\ kept' = kept
     \/ Past(e.off, next) /\ \E f \in kept : kept' = kept \ {f}
  /\ UNCHANGED <<on, next>>

PowerCut ==
  /\ on
  /\ on' = FALSE
  /\ UNCHANGED <<next, owed, kept>>

Restart ==
  /\ ~on
  /\ on'   = TRUE
  /\ next' = 0
  /\ owed' = NothingOwed
  /\ kept' = {}

LogNext ==
  \/ \E x \in Writers :
       \/ \E line \in Lines, n \in 1 .. MaxLine : Reserve(x, line, n)
       \/ \E e \in owed[x] : Deliver(x, e)
  \/ PowerCut
  \/ Restart

LogSpec == LogInit /\ [][LogNext]_logVars

=============================================================================
