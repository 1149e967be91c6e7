--------------------------- MODULE TftpRefinement ---------------------------
(***************************************************************************)
(* The client and the server implement FileCopy.                           *)
(***************************************************************************)
EXTENDS TftpInvariant

\* What FileCopy calls the state of p.
StateOf(p) ==
  CASE pc[p] = "fsm" /\ Receiving(p) -> "receiving"
    [] pc[p] = "fsm" /\ Sending(p) -> "sending"
    [] pc[p] # "fsm" /\ outcome[p] = "got" -> "received"
    [] pc[p] # "fsm" /\ outcome[p] = "sent" -> "sent"
    [] OTHER -> "idle"

Delivered ==
  {get[2] : get \in finished} \cup {localfp[ch] : ch \in {x \in Children : outcome[x] = "got"}}

FC == INSTANCE FileCopy WITH
  Processes <- Procs,
  Blocks    <- [f \in Files |-> NChunks(f)],
  job       <- [p \in Procs |-> [state |-> StateOf(p), file |-> localfp[p], text |-> written[p]]],
  delivered <- Delivered

\* Loss, duplication, retransmission, interrupts and failures of the network
\* code never show in the copies: each step of fsm_loop() is a step of FileCopy
\* or changes nothing there.  Whatever ends a get, its local file, which has
\* been emptied, holds an initial part of the file.
CopiesFiles == FC!Spec
=============================================================================
