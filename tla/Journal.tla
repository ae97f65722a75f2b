------------------------------ MODULE Journal ------------------------------
(***************************************************************************)
(* What the indexer promises about the blocks behind its figures, with     *)
(* none of its retries, splits, restarts or polling: a journal written in  *)
(* order.  Blocks are written just past a frontier, at most Chunk of them  *)
(* ahead, and the frontier only moves forward, over written blocks.        *)
(***************************************************************************)
EXTENDS Integers

CONSTANTS
  Chunk       \* blocks that may be written ahead of the frontier

VARIABLES
  first,      \* first block of the journal, or None before it is opened
  frontier,   \* last block recorded as covered, or None
  written     \* blocks whose transfers are in the stored aggregates

jvars == <<first, frontier, written>>

None == -1

\* The block the journal continues at.
Base == IF frontier = None THEN first ELSE frontier + 1

Init ==
  /\ first = None
  /\ frontier = None
  /\ written = {}

\* As long as nothing is recorded as covered, the journal may be opened
\* (again) at any block.
Open ==
  /\ frontier = None
  /\ first' \in Nat
  /\ UNCHANGED <<frontier, written>>

\* A run of blocks that starts exactly where the journal continues.
Write ==
  /\ Base \in Nat
  /\ \E k \in Base .. Base + Chunk - 1 : written' = written \cup (Base .. k)
  /\ UNCHANGED <<first, frontier>>

Advance ==
  /\ Base \in Nat
  /\ \E k \in Base .. Base + Chunk - 1 :
       /\ Base .. k \subseteq written
       /\ frontier' = k
  /\ UNCHANGED <<first, written>>

Next == Open \/ Write \/ Advance

Spec == Init /\ [][Next]_jvars
=============================================================================
