---------------------------- MODULE TftpDialogue ----------------------------
(***************************************************************************)
(* The second inductive invariant of TftpSystem, on top of CopyInv: who    *)
(* talks to whom, and what a sender may conclude from an ACK.  CopyInv is  *)
(* enough for the receiver; a sender, which sees nothing of the copy but   *)
(* 16-bit block numbers, needs to know that every ACK it will ever read    *)
(* was sent by the end it talks to, about the file it sends, for a block   *)
(* it has sent.                                                            *)
(***************************************************************************)
EXTENDS TftpInvariant

\* p is in fsm_loop() and sends a file, or has asked to.
InPut(p) == pc[p] = "fsm" /\ Sending(p)

-----------------------------------------------------------------------------
(* Who talks to whom. *)

\* What a child starts with; how it has ended is known when it has.
Unused ==
  \A ch \in Children :
    /\ pc[ch] = "idle" => peer[ch] = WellKnown
    /\ pc[ch] # "exit" => outcome[ch] = "none"
    /\ pc[ch] \in {"idle", "start"} => op_sent[ch] = 0 /\ written[ch] = <<>>

\* A client in fsm_loop() waits for a first answer from any port, or has had one
\* from a child that took the request on and answers to the client's port.
Answered ==
  \A c \in Clients : pc[c] = "fsm" =>
    \/ op_sent[c] \in {OP_RRQ, OP_WRQ} /\ recv_first[c]
    \/ /\ op_sent[c] \in {OP_DATA, OP_ACK}
       /\ peer[peer[c][1]] = Port(c)
       /\ outcome[peer[c][1]] # "denied"

\* A child that refused its request sends no block and no ACK; a client sends
\* them to a child from the port that child answers to.
Conversation ==
  \A m \in net : (IsData(m.pkt) \/ IsAck(m.pkt)) =>
    IF m.src[1] \in Children THEN outcome[m.src[1]] # "denied"
                             ELSE m.src = peer[m.dst[1]]

\* One end of a transfer sends, the other receives, from the request on.
Roles ==
  /\ \A m \in net, c \in Clients :
       (IsRequest(m.pkt) /\ pc[c] = "fsm" /\ m.src = Port(c))
          => (m.pkt.op = OP_WRQ <=> Sending(c))
  /\ \A ch \in Children, c \in Clients :
       (pc[ch] = "start" /\ IsRequest(recvbuff[ch]) /\ pc[c] = "fsm"
        /\ peer[ch] = Port(c)) => (recvbuff[ch].op = OP_WRQ <=> Sending(c))
  /\ \A ch \in Children, c \in Clients :
       (pc[ch] = "fsm" /\ pc[c] = "fsm" /\ peer[ch] = Port(c))
          => (Receiving(ch) <=> Sending(c))
  /\ \A m \in net, p \in Procs : (pc[p] = "fsm" /\ m.dst = Port(p)) =>
       /\ IsData(m.pkt) => Receiving(p)
       /\ IsAck(m.pkt) => Sending(p)

TalkInv == Unused /\ Answered /\ Conversation /\ Roles

-----------------------------------------------------------------------------
(* What the sender of a file knows. *)

\* No block is under way that its sender has not sent yet.
DataSent ==
  \A m \in net, s \in Procs :
    (IsData(m.pkt) /\ InPut(s) /\ m.src = Port(s))
       => m.pkt.data[2] <= nextblknum[s]

\* A receiver that answers to the port of s is at most one block ahead of it.
InStep ==
  \A s, r \in Procs :
    (InPut(s) /\ ActiveReceiver(r) /\ peer[r] = Port(s))
       => nextblknum[r] <= nextblknum[s] + 1

\* The process that had this port has received the file of s.
HasCopy(s, port) ==
  IF s \in Children
  THEN <<port, localfp[s]>> \in finished
  ELSE /\ port[1] \in Children
       /\ outcome[port[1]] = "got" /\ localfp[port[1]] = localfp[s]

\* An ACK on its way to s is for a block that s has sent, and one for the last
\* block comes from a process that has the whole file.
AcksTrue ==
  \A m \in net, s \in Procs :
    (IsAck(m.pkt) /\ InPut(s) /\ m.dst = Port(s)) =>
       /\ m.pkt.blk <= nextblknum[s]
       /\ \/ m.pkt.blk <= NFull[localfp[s]]
          \/ m.pkt.blk = NFull[localfp[s]] + 1 /\ HasCopy(s, m.src)

\* A sender that has ended its transfer has left fsm_loop(), and the other end
\* has the file.
SentRight ==
  \A s \in Procs : outcome[s] = "sent" =>
    /\ pc[s] = "exit" \/ (s \in Clients /\ pc[s] = "idle")
    /\ HasCopy(s, peer[s])
    /\ s \in Clients => peer[s] = Port(peer[s][1])

SendInv == DataSent /\ InStep /\ AcksTrue /\ SentRight /\ LongFilesNeverComplete

-----------------------------------------------------------------------------
(* Without a foreign implementation. *)

\* Errors come from children that refuse a request, and only requests reach the
\* well-known port.
Undisturbed ==
  /\ \A m \in net : m.pkt.op # 0
  /\ \A m \in net : m.pkt.op = OP_ERROR =>
       /\ m.src[1] \in Children /\ m.dst[1] \in Clients
       /\ pc[m.src[1]] = "exit" /\ outcome[m.src[1]] = "denied"
       /\ m.dst = peer[m.src[1]]
  /\ \A ch \in Children : pc[ch] = "start" => IsRequest(recvbuff[ch])

StrayInv ==
  /\ strays = 0 => Undisturbed
  /\ NoProtocolBotch
  /\ PortMismatchNeedsTwoChildren

-----------------------------------------------------------------------------
(* The uploaded files. *)

\* While one child alone has opened a file, the file holds what it has written.
SoleWriter ==
  \A ch \in Children :
    /\ outcome[ch] = "got" => op_sent[ch] = OP_ACK
    /\ (op_sent[ch] = OP_ACK /\ Openers(localfp[ch]) = {ch})
         => upload[localfp[ch]] = written[ch]
=============================================================================
