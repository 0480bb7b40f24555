------------------------------ MODULE Threads ------------------------------
(***************************************************************************)
(* Calls as threads: a call is the sequence of its store and connector     *)
(* calls, each one step, and what it holds between two of them is a record *)
(* with the place of the next one.  The records are the component's.       *)
(***************************************************************************)
EXTENDS Naturals

CONSTANTS
  Calls,     \* threads: calls that run at the same time
  MaxBegun,  \* bound: calls begun in a behaviour; for Refunds 0 is no bound
  None

VARIABLES
  begun,     \* calls begun, counted up to the bound
  call       \* [Calls -> what a thread holds]

At(c, pc) == call[c].pc = pc
Goto(c, pc) == call' = [call EXCEPT ![c].pc = pc]
Start(c, fields) == At(c, "idle") /\ call' = [call EXCEPT ![c] = fields]
=============================================================================
