--------------------------- MODULE TftpInvariant ---------------------------
(***************************************************************************)
(* The inductive invariant from which TftpCopyProofs derives that the      *)
(* receiver of a file ends up with a copy of it.  Its parts say why a      *)
(* block number of 16 bits is enough: every DATA packet on its way to a    *)
(* receiver is for the block it waits for or an earlier one.               *)
(***************************************************************************)
EXTENDS TftpSystem

\* p is in fsm_loop() and receives, or sends, the file.
ActiveReceiver(p) == pc[p] = "fsm" /\ Receiving(p)
ActiveSender(p)   == pc[p] = "fsm" /\ op_sent[p] = OP_DATA

IsData(k)    == k.op = OP_DATA
IsAck(k)     == k.op = OP_ACK
IsRequest(k) == k.op \in {OP_RRQ, OP_WRQ}

\* k is a DATA packet with a block of f, numbered 1 to n.
BlockOf(k, f, n) ==
  /\ k.data[1] = f
  /\ k.data[2] \in 1..n
  /\ k.blk = Wire(k.data[2])
  /\ k.len = ChunkLen(f, k.data[2])

-----------------------------------------------------------------------------
(* Ports. *)

\* A port that has been bound.
Bound(port) == port[1] \in Procs => port[2] \in 1..sock[port[1]]

\* Datagrams and processes name only ports that have been bound.
PortsBound ==
  /\ \A m \in net : Bound(m.src) /\ Bound(m.dst)
  /\ \A p \in Procs : Bound(peer[p])
  /\ \A ch \in Children : pc[ch] = "idle" => sock[ch] = 0
  /\ \A ch \in Children : sock[ch] <= 1
  /\ \A p \in Procs : pc[p] = "fsm" => sock[p] > 0

\* Nobody has heard of a child that has only just been forked.
StartSilent ==
  \A ch \in Children : pc[ch] = "start" =>
    /\ sock[ch] = 1
    /\ \A m \in net : m.src # Port(ch) /\ m.dst # Port(ch)
    /\ \A p \in Procs : pc[p] = "fsm" => peer[p] # Port(ch)

\* Clients talk to children and children to clients.
Parties ==
  /\ \A m \in net : IsRequest(m.pkt) => m.src[1] \in Clients /\ m.dst = WellKnown
  /\ \A m \in net : (IsData(m.pkt) \/ IsAck(m.pkt)) =>
       \/ m.src[1] \in Children /\ m.dst[1] \in Clients /\ m.dst = peer[m.src[1]]
       \/ m.src[1] \in Clients /\ m.dst[1] \in Children
  /\ \A c \in Clients : pc[c] = "fsm" =>
       IF op_sent[c] \in {OP_RRQ, OP_WRQ}
       THEN peer[c] = WellKnown
       ELSE peer[c][1] \in Children /\ ~recv_first[c]
  /\ \A ch \in Children : pc[ch] = "fsm" =>
       peer[ch][1] \in Clients /\ op_sent[ch] \in {OP_DATA, OP_ACK}
  /\ \A ch \in Children : (pc[ch] = "start" /\ IsRequest(recvbuff[ch])) =>
       peer[ch][1] \in Clients
  /\ \A ch \in Children : ~recv_first[ch]
  /\ \A c \in Clients : pc[c] # "start"

-----------------------------------------------------------------------------
(* Files. *)

\* A process in fsm_loop() has a file open.
FileOpen == \A p \in Procs : pc[p] = "fsm" => localfp[p] \in Files

\* The two ends of a transfer work on the same file.
SameFile ==
  /\ \A m \in net, c \in Clients :
       (IsRequest(m.pkt) /\ pc[c] = "fsm" /\ m.src = Port(c))
          => m.pkt.file = localfp[c]
  /\ \A ch \in Children, c \in Clients :
       (pc[ch] = "start" /\ IsRequest(recvbuff[ch]) /\ pc[c] = "fsm"
        /\ peer[ch] = Port(c)) => recvbuff[ch].file = localfp[c]
  /\ \A ch \in Children, c \in Clients :
       (pc[ch] = "fsm" /\ pc[c] = "fsm" /\ peer[ch] = Port(c))
          => localfp[ch] = localfp[c]
  /\ \A s, r \in Procs :
       (ActiveSender(s) /\ ActiveReceiver(r) /\ peer[s] = Port(r))
          => localfp[s] = localfp[r]

-----------------------------------------------------------------------------
(* Blocks. *)

\* What a process in fsm_loop() would send again is what it last sent.
LastSent ==
  \A p \in Procs : pc[p] = "fsm" =>
    /\ sendbuff[p].op = op_sent[p]
    /\ IsRequest(sendbuff[p]) => p \in Clients /\ sendbuff[p].file = localfp[p]
    /\ IsAck(sendbuff[p]) => sendbuff[p].blk < nextblknum[p]
    /\ IsData(sendbuff[p]) =>
         /\ nextblknum[p] > 0 /\ sendbuff[p].data[2] = nextblknum[p]
         /\ BlockOf(sendbuff[p], localfp[p], nextblknum[p])

\* A sender has read the blocks up to the one it last sent.
SenderPosition ==
  \A p \in Procs : (pc[p] = "fsm" /\ Sending(p)) =>
    IF op_sent[p] = OP_WRQ
    THEN nextblknum[p] = 0 /\ fpos[p] = 0 /\ lastsend[p] = MAXDATA
    ELSE /\ lastsend[p] = ChunkLen(localfp[p], nextblknum[p])
         /\ fpos[p] = IF lastsend[p] > 0 THEN nextblknum[p] ELSE nextblknum[p] - 1

\* A sender is never ahead of its receiver.
NotAhead ==
  \A s, r \in Procs :
    (ActiveSender(s) /\ ActiveReceiver(r) /\ peer[s] = Port(r))
       => nextblknum[s] <= nextblknum[r]

\* Nor is an acknowledgement ahead of the process that sent it.
AcksBehind ==
  \A m \in net, r \in Procs :
    (IsAck(m.pkt) /\ ActiveReceiver(r) /\ m.src = Port(r))
       => m.pkt.blk < nextblknum[r]

\* Every DATA packet on its way to a receiver holds a block of its file that is
\* the expected one or an earlier one.
DataBehind ==
  \A m \in net, r \in Procs :
    (IsData(m.pkt) /\ ActiveReceiver(r) /\ m.dst = Port(r))
       => BlockOf(m.pkt, localfp[r], nextblknum[r])

\* A receiver that has the whole file has left fsm_loop().
GotOutside ==
  \A p \in Procs : outcome[p] = "got" =>
    pc[p] = "exit" \/ (p \in Clients /\ pc[p] = "idle")

CopyInv ==
  /\ PortsBound /\ StartSilent /\ Parties /\ SameFile
  /\ LastSent /\ SenderPosition /\ NotAhead /\ AcksBehind /\ DataBehind
  /\ CopyPrefix /\ GotOutside /\ ReceiverComplete
=============================================================================
