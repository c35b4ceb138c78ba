---------------------------- MODULE RowDropLoop ----------------------------
(***************************************************************************)
(* The loop of checkRemoveRows that moves the remaining rows down, one      *)
(* iteration per step.  Playfield!DropRows says in closed form what it      *)
(* leaves behind; here that is checked against the loop itself, which       *)
(* copies rows inside one array and could read a row it has overwritten.    *)
(***************************************************************************)
EXTENDS Playfield

CONSTANT Grids   \* the data the loop may start from

ASSUME GridsAssumption == Grids \subseteq Grid

VARIABLES data, removeYs, y, newY,
          before   \* history: data before the loop

loopVars == <<data, removeYs, y, newY, before>>

\* Mutant: the first row is copied one row too high.
LoopInitOneHigher ==
  /\ before \in Grids /\ data = before
  /\ removeYs \in (SUBSET Rows) \ {{}}
  /\ newY = Height - 2
  /\ y = Height - 2

LoopInit ==
  /\ before \in Grids /\ data = before
  /\ removeYs \in (SUBSET Rows) \ {{}}
  /\ newY = Height - 1
  /\ y = Height - 2

\* Mutant: a row to be removed leaves a gap.
SkipRowAndPlace ==
  /\ y >= 0 /\ y \in removeYs
  /\ y' = y - 1
  /\ newY' = newY - 1
  /\ UNCHANGED <<data, removeYs, before>>

SkipRow ==
  /\ y >= 0 /\ y \in removeYs
  /\ y' = y - 1
  /\ UNCHANGED <<data, newY, removeYs, before>>

\* Mutants: newY moves down instead of up; newY moves up by two.
CopyRowDownwards ==
  /\ y >= 0 /\ y \notin removeYs
  /\ data' = [data EXCEPT ![newY] = data[y]]
  /\ newY' = newY + 1
  /\ y' = y - 1
  /\ UNCHANGED <<removeYs, before>>

CopyRowEverySecond ==
  /\ y >= 0 /\ y \notin removeYs
  /\ data' = [data EXCEPT ![newY] = data[y]]
  /\ newY' = newY - 2
  /\ y' = y - 1
  /\ UNCHANGED <<removeYs, before>>

CopyRow ==
  /\ y >= 0 /\ y \notin removeYs
  /\ data' = [data EXCEPT ![newY] = data[y]]
  /\ newY' = newY - 1
  /\ y' = y - 1
  /\ UNCHANGED <<removeYs, before>>

LoopNext == SkipRow \/ CopyRow

LoopSpec == LoopInit /\ [][LoopNext]_loopVars

Done == y < 0

-----------------------------------------------------------------------------
(* The rows of the array as the loop found it. *)
LoopTypeOK == /\ data \in Grid /\ before \in Grid
          /\ removeYs \subseteq Rows
          /\ y \in -1 .. Height - 2
          /\ newY \in y + 1 .. Height - 1

(* A row the loop has yet to read still holds what it held before. *)
UnreadRowsIntact == \A z \in 0 .. y : data[z] = before[z]

(* The loop leaves what DropRows says. *)
LoopIsDropRows == Done => data = DropRows(before, removeYs)

(* When the bottom row is one of the rows to be removed, every other row    *)
(* falls by the number of removed rows below it.                            *)
RowsFallPastRemoved ==
  Done /\ Height - 1 \in removeYs =>
    \A z \in Rows \ removeYs :
      data[z + Cardinality({w \in removeYs : w > z})] = before[z]

(* The loop invariant: the rows the loop has copied lie where NewY says,    *)
(* newY is where the next one goes, and no other row has changed.           *)
Copied == {z \in CopiedRows(removeYs) : z > y}

LoopInv ==
  /\ newY = Height - 1 - Cardinality(Copied)
  /\ \A z \in Copied : data[NewY(removeYs, z)] = before[z]
  /\ \A r \in Rows : (\A z \in Copied : NewY(removeYs, z) # r) => data[r] = before[r]
=============================================================================
