------------------------- MODULE TftpDialogueProofs -------------------------
(***************************************************************************)
(* Every step of TftpSystem has one of twelve shapes, which say what it    *)
(* does to the globals that the two ends of a transfer share knowledge of. *)
(* With one case per shape, TalkInv, SendInv and StrayInv are invariants:  *)
(* what a sender concludes from an ACK is true, and without a foreign      *)
(* implementation nothing goes wrong that the network alone cannot cause.  *)
(* Last comes what transfers leave behind: the files that clients have put *)
(* on the server, and the refinement of FileCopy.                          *)
(***************************************************************************)
EXTENDS TftpCopyProofs, TftpDialogue, TftpRefinement

-----------------------------------------------------------------------------
(* The shapes. *)

Keeps(q)  == Same(q) /\ sock'[q] = sock[q]
RestKeeps(p) == \A q \in Procs : q # p => Keeps(q)

\* p has left fsm_loop(), for the prompt or for good.
Outside(p) == pc[p] = "exit" \/ (p \in Clients /\ pc[p] = "idle")

\* m is waiting at the socket of p, which is in fsm_loop().
Waiting(p, m) == pc[p] = "fsm" /\ m.dst = Port(p)

\* At most a is sent, and the network otherwise loses, keeps and delivers.
Adds(a) == \A x \in net' : x \in net \/ x = a

\* No process does anything; what is sent is from a foreign implementation.
Idles ==
  /\ \A q \in Procs : Keeps(q)
  /\ UNCHANGED <<recvbuff, upload, finished>>
  /\ strays' >= strays
  /\ \A x \in net' : x \in net \/ (strays' # 0 /\ x.pkt.op \in {OP_ERROR, 0})

\* What the code stops for.
Reason(p, why) ==
  /\ why = "ahead" => \E m \in net :
       /\ Waiting(p, m) /\ m.pkt.blk > nextblknum[p]
       /\ (IsData(m.pkt) /\ Receiving(p)) \/ (IsAck(m.pkt) /\ Sending(p))
  /\ why = "botch" =>
       \/ \E m \in net : /\ Waiting(p, m) /\ FromExpected(p, m)
                         /\ fsm_ptr(p, op_sent[p], m.pkt.op) \in {"fsm_error", "fsm_invalid"}
       \/ /\ p \in Children /\ pc[p] = "start"
          /\ fsm_ptr(p, 0, recvbuff[p].op) = "fsm_invalid"
  /\ why = "port" => \E m \in net : Waiting(p, m) /\ ~FromExpected(p, m)
  /\ why = "denied" => /\ p \in Children /\ pc[p] = "start"
                       /\ peer[p][1] \in Clients

\* p stops, not because its transfer is complete.
Fails(p, why) ==
  /\ pc[p] # "exit" /\ (p \in Children => pc[p] # "idle")
  /\ Outside(p)' /\ outcome'[p] = why /\ why \notin {"got", "sent"} /\ Reason(p, why)
  /\ op_sent'[p] = op_sent[p] /\ nextblknum'[p] = nextblknum[p]
  /\ localfp'[p] = localfp[p] /\ written'[p] = written[p] /\ sock'[p] = sock[p]
  /\ p \in Children => peer'[p] = peer[p]
  /\ RestKeeps(p) /\ UNCHANGED <<recvbuff, upload, finished, strays>>
  /\ \A x \in net' : x \in net \/ (why = "denied" /\ x = Msg(Port(p), peer[p], ERROR))

\* Chunk n of its file is written by p, or nothing if the chunk is empty.
Writes(p, n) ==
  \/ written'[p] = written[p] /\ UNCHANGED upload
  \/ /\ n = nextblknum[p] /\ n <= NChunks(localfp[p])
     /\ written'[p] = Append(written[p], <<localfp[p], n>>)
     /\ upload' = IF p \in Clients THEN upload
                  ELSE [upload EXCEPT ![localfp[p]] =
                          WriteAt(@, Len(written[p]) + 1, <<localfp[p], n>>)]

\* p acknowledges block n, which it was waiting for or has already, to the
\* sender of m.
Acknowledges(p, m, n) ==
  /\ Waiting(p, m) /\ IsData(m.pkt) /\ Receiving(p)
  /\ m.pkt.blk = n /\ m.pkt.data[2] = n /\ nextblknum[p] \in {n, n + 1}
  /\ peer'[p] = m.src /\ (p \in Children => m.src = peer[p]) /\ ~recv_first'[p]
  /\ op_sent'[p] = OP_ACK /\ nextblknum'[p] = n + 1 /\ sendbuff'[p] = ACK(n)
  /\ localfp'[p] = localfp[p] /\ sock'[p] = sock[p] /\ outcome[p] # "got"
  /\ RestKeeps(p) /\ UNCHANGED <<recvbuff, strays>>
  /\ Adds(Msg(Port(p), m.src, ACK(n))) /\ ACK(n).blk = n
  /\ Writes(p, n)

GoesOn(p, m, n) ==
  /\ Acknowledges(p, m, n)
  /\ pc'[p] = "fsm" /\ outcome'[p] = outcome[p] /\ UNCHANGED finished
  /\ n <= NFull[localfp[p]]

Gets(p, m, n) ==
  /\ Acknowledges(p, m, n)
  /\ Outside(p)' /\ outcome'[p] = "got" /\ written'[p] = Copy(localfp[p])
  /\ n = nextblknum[p] /\ n = NFull[localfp[p]] + 1 /\ n < BLKMOD
  /\ finished' = IF p \in Clients THEN finished \cup {<<Port(p), localfp[p]>>}
                 ELSE finished

\* The last block that p sent is acknowledged.
Confirmed(p, m) ==
  /\ Waiting(p, m) /\ IsAck(m.pkt) /\ Sending(p) /\ m.pkt.blk = nextblknum[p]
  /\ peer'[p] = m.src /\ (p \in Children => m.src = peer[p]) /\ ~recv_first'[p]
  /\ localfp'[p] = localfp[p] /\ sock'[p] = sock[p] /\ written'[p] = written[p]
  /\ RestKeeps(p) /\ UNCHANGED <<recvbuff, upload, finished, strays>>

SendsNext(p, m) ==
  /\ Confirmed(p, m)
  /\ op_sent'[p] = OP_DATA /\ nextblknum'[p] = nextblknum[p] + 1
  /\ pc'[p] = "fsm" /\ outcome'[p] = outcome[p]
  /\ \E d : IsData(d) /\ d.data[2] = nextblknum[p] + 1 /\ Adds(Msg(Port(p), m.src, d))

IsSent(p, m) ==
  /\ Confirmed(p, m)
  /\ op_sent[p] = OP_DATA /\ nextblknum[p] > NFull[localfp[p]]
  /\ op_sent'[p] = op_sent[p] /\ nextblknum'[p] = nextblknum[p]
  /\ Outside(p)' /\ outcome'[p] = "sent" /\ net' \subseteq net

Resends(p) ==
  /\ pc[p] = "fsm"
  /\ \A q \in Procs : Keeps(q)
  /\ UNCHANGED <<recvbuff, upload, finished, strays>>
  /\ Adds(Msg(Port(p), peer[p], sendbuff[p]))

\* c opens f at its prompt, and if op is a request sends it from a new port.
Opens(c, f) ==
  /\ pc[c] = "idle"
  /\ localfp'[c] = f /\ written'[c] = <<>> /\ outcome'[c] = "none"
  /\ RestKeeps(c) /\ UNCHANGED <<recvbuff, upload, finished, strays>>

SendsRequest(c, f, op) ==
  /\ Opens(c, f)
  /\ op \in {OP_RRQ, OP_WRQ} /\ op_sent'[c] = op
  /\ nextblknum'[c] = IF op = OP_WRQ THEN 0 ELSE 1
  /\ pc'[c] = "fsm" /\ sock'[c] = sock[c] + 1
  /\ peer'[c] = WellKnown /\ recv_first'[c]
  /\ Adds(Msg(<<c, sock[c] + 1>>, WellKnown, RQ(op, f)))

OpensOnly(c, f) ==
  /\ Opens(c, f)
  /\ pc'[c] = "idle" /\ sock'[c] = sock[c] /\ peer'[c] = peer[c] /\ net' = net

Forks(ch, m) ==
  /\ m.dst = WellKnown /\ pc[ch] = "idle" /\ pc'[ch] = "start"
  /\ peer'[ch] = m.src /\ recvbuff' = [recvbuff EXCEPT ![ch] = m.pkt] /\ sock'[ch] = 1
  /\ op_sent'[ch] = op_sent[ch] /\ outcome'[ch] = outcome[ch]
  /\ localfp'[ch] = localfp[ch] /\ written'[ch] = written[ch]
  /\ RestKeeps(ch) /\ UNCHANGED <<upload, finished, strays>>
  /\ net' \subseteq net

\* A child starts on its request, with block 1 or the ACK of block 0.
Serves(ch, f) ==
  /\ Asked(ch, f) /\ f = recvbuff[ch].file /\ pc'[ch] = "fsm"
  /\ peer'[ch] = peer[ch] /\ sock'[ch] = sock[ch] /\ localfp'[ch] = f
  /\ outcome'[ch] = outcome[ch] /\ nextblknum'[ch] = 1
  /\ RestKeeps(ch) /\ UNCHANGED <<recvbuff, finished, strays>>

ServesRead(ch, f) ==
  /\ Serves(ch, f) /\ recvbuff[ch].op = OP_RRQ /\ op_sent'[ch] = OP_DATA
  /\ written'[ch] = written[ch] /\ UNCHANGED upload
  /\ \E d : IsData(d) /\ d.data[2] = 1 /\ Adds(Msg(Port(ch), peer[ch], d))

ServesWrite(ch, f) ==
  /\ Serves(ch, f) /\ recvbuff[ch].op = OP_WRQ /\ op_sent'[ch] = OP_ACK
  /\ written'[ch] = <<>> /\ upload' = [upload EXCEPT ![f] = <<>>]
  /\ Adds(Msg(Port(ch), peer[ch], ACK(0))) /\ ACK(0).blk = 0

Shaped ==
  \/ Idles
  \/ \E p \in Procs, why \in Outcomes : Fails(p, why)
  \/ \E p \in Procs, m \in net, n \in Nat : GoesOn(p, m, n) \/ Gets(p, m, n)
  \/ \E p \in Procs, m \in net : SendsNext(p, m) \/ IsSent(p, m)
  \/ \E p \in Procs : Resends(p)
  \/ \E c \in Clients, f \in Files :
       OpensOnly(c, f) \/ \E op \in {OP_RRQ, OP_WRQ} : SendsRequest(c, f, op)
  \/ \E ch \in Children, m \in net : Forks(ch, m)
  \/ \E ch \in Children, f \in Files : ServesRead(ch, f) \/ ServesWrite(ch, f)

-----------------------------------------------------------------------------
(* What is known of the globals and the packets. *)

\* The globals are functions on the processes.
LEMMA Domains ==
  ASSUME TypeInv
  PROVE  /\ DOMAIN op_sent = Procs /\ DOMAIN nextblknum = Procs /\ DOMAIN lastsend = Procs
         /\ DOMAIN sendbuff = Procs /\ DOMAIN fpos = Procs /\ DOMAIN peer = Procs
         /\ DOMAIN recv_first = Procs /\ DOMAIN localfp = Procs /\ DOMAIN written = Procs
         /\ DOMAIN outcome = Procs /\ DOMAIN sock = Procs /\ DOMAIN recvbuff = Children
         /\ DOMAIN pc = Procs \cup {Server} /\ DOMAIN upload = Files
         /\ nextblknum \in [Procs -> Nat] /\ sock \in [Procs -> Nat]
         /\ strays \in Nat
  BY DEF TypeInv, TypeOK

\* The numbers of a DATA or ACK packet.
LEMMA PacketNumbers ==
  ASSUME TypeInv, NEW m \in net
  PROVE  /\ IsData(m.pkt) => /\ m.pkt.blk \in Nat /\ m.pkt.blk < BLKMOD
                             /\ m.pkt.data[2] \in Nat \ {0}
         /\ IsAck(m.pkt) => m.pkt.blk \in Nat /\ m.pkt.blk < BLKMOD
  <1>1. m.pkt \in Packets
    BY DEF TypeInv, TypeOK, Messages
  <1>2. ASSUME IsData(m.pkt)
        PROVE  m.pkt.blk \in 0..(BLKMOD - 1) /\ m.pkt.data \in Chunks
    BY <1>1, <1>2, PacketFields DEF IsData, Datas
  <1>3. ASSUME IsAck(m.pkt)
        PROVE  m.pkt.blk \in 0..(BLKMOD - 1)
    BY <1>1, <1>3, PacketFields DEF IsAck, Acks
  <1> QED
    BY <1>2, <1>3, ConstAssumption DEF Chunks

\* A bound port of a child is its only one.
LEMMA ChildPort ==
  ASSUME TypeInv, PortsBound, NEW port \in Ports, Bound(port), port[1] \in Children
  PROVE  port = Port(port[1]) /\ sock[port[1]] = 1
  <1>1. port[1] \in Procs /\ port[2] \in 1..sock[port[1]] /\ sock[port[1]] <= 1
        /\ sock[port[1]] \in Nat
    BY DEF PortsBound, Bound, TypeInv, TypeOK, Procs
  <1>2. port = <<port[1], port[2]>>
    BY DEF Ports
  <1> QED
    BY <1>1, <1>2 DEF Port

\* Ports of datagrams and of processes.
LEMMA NamedPorts ==
  ASSUME TypeInv
  PROVE  /\ \A m \in net : m.src \in Ports /\ m.dst \in Ports
         /\ \A p \in Procs : peer[p] \in Ports
  BY DEF TypeInv, TypeOK, Messages

-----------------------------------------------------------------------------
(* The shapes of the actions. *)

\* A block number out of the window, a bad packet or a refusal: p fails.
LEMMA ShapeLastPass ==
  ASSUME TypeInv, CopyInv, NEW p \in Procs, NEW m \in net, NEW h, Handles(p, m, h),
         NEW why \in Outcomes \ {"got", "sent", "denied", "port"}, Reason(p, why),
         pc' = [pc EXCEPT ![p] = "exit"]
           \/ pc' = [pc EXCEPT ![p] = IF p \in Clients THEN "idle" ELSE "exit"],
         outcome' = [outcome EXCEPT ![p] = why],
         Exchange(m, {}), UNCHANGED xferVars
  PROVE  Fails(p, why)
  <1>1. UNCHANGED <<op_sent, nextblknum, lastsend, fpos, written, localfp, sock,
                    recvbuff, sendbuff, upload, finished, strays>>
    BY DEF Handles, xferVars
  <1>2. \A x \in net' : x \in net
    BY DEF Exchange
  <1>3. /\ pc[p] = "fsm"
        /\ peer' = [peer EXCEPT ![p] = m.src]
        /\ recv_first' = [recv_first EXCEPT ![p] = FALSE]
    BY DEF Handles
  <1>4. RestKeeps(p)
    BY <1>1, <1>3, Domains DEF RestKeeps, Keeps, Same
  <1>5. p \in Children => peer'[p] = peer[p]
    <2>1. p \in Children => m.src = peer[p]
      BY DEF Handles, FromExpected, CopyInv, Parties
    <2> QED
      BY <1>3, <2>1, Domains
  <1>6. Outside(p)' /\ outcome'[p] = why
    BY Domains DEF Outside
  <1> QED
    BY <1>1, <1>2, <1>3, <1>4, <1>5, <1>6 DEF Fails

\* The block numbers out of the window.
LEMMA ShapeOutOfWindow ==
  ASSUME TypeInv, CopyInv, NEW p \in Procs, NEW m \in net,
         \/ Handles(p, m, "recv_DATA") /\ IsData(m.pkt) /\ Receiving(p)
         \/ Handles(p, m, "recv_ACK") /\ IsAck(m.pkt) /\ Sending(p),
         OutOfWindow(p, m)
  PROVE  \E why \in Outcomes : Fails(p, why)
  <1> DEFINE why == IF m.pkt.blk > nextblknum[p] THEN "ahead" ELSE "behind"
  <1>1. PICK h : Handles(p, m, h)
    OBVIOUS
  <1>2. why \in Outcomes \ {"got", "sent", "denied", "port"} /\ why # "botch"
        /\ (why = "ahead" => m.pkt.blk > nextblknum[p])
    BY DEF Outcomes
  <1>3. /\ pc' = [pc EXCEPT ![p] = "exit"] /\ outcome' = [outcome EXCEPT ![p] = why]
        /\ Exchange(m, {}) /\ UNCHANGED xferVars
    BY DEF OutOfWindow, Exit
  <1>4. Waiting(p, m)
    BY <1>1 DEF Handles, Waiting
  <1> HIDE DEF why
  <1>5. Reason(p, why)
    BY <1>2, <1>4 DEF Reason
  <1> QED
    BY <1>1, <1>2, <1>3, <1>5, ShapeLastPass

\* recv_DATA() acknowledges the block it waits for or the one before.
LEMMA ShapeRecvData ==
  ASSUME TypeInv, FileOpen, CopyInv, ReceiverComplete', NEW p \in Procs, NEW m \in net,
         recv_DATA(p, m)
  PROVE  Shaped
  <1>1. Handles(p, m, "recv_DATA")
    BY DEF recv_DATA
  <1>2. UNCHANGED <<recvbuff, localfp, sock, strays>> /\ pc[p] = "fsm" /\ m.dst = Port(p)
        /\ m.pkt \in Packets
    BY <1>1, HandlesType DEF TypeInv, Handles
  <1>3. m.pkt.op = OP_DATA /\ Receiving(p) /\ IsData(m.pkt) /\ ActiveReceiver(p) /\ Waiting(p, m)
    BY <1>1, <1>2, TableFacts DEF Handles, ActiveReceiver, Receiving, IsData, Waiting
  <1>4. /\ peer' = [peer EXCEPT ![p] = m.src]
        /\ recv_first' = [recv_first EXCEPT ![p] = FALSE]
        /\ p \in Children => m.src = peer[p]
    BY <1>1, <1>3, Taken
  <1> DEFINE n == nextblknum[p]
             f == localfp[p]
             i == m.pkt.data[2]
             b == m.pkt.blk
  <1>5. /\ n \in Nat /\ f \in Files /\ i \in 1..n
        /\ b = Wire(i) /\ m.pkt.len = ChunkLen(f, i) /\ m.pkt.data[1] = f
    <2>1. n \in Nat /\ f \in Files
      BY <1>2 DEF FileOpen, TypeInv, TypeOK
    <2>2. BlockOf(m.pkt, f, n)
      BY <1>2, <1>3 DEF CopyInv, DataBehind
    <2> QED
      BY <2>1, <2>2 DEF BlockOf
  <1>6. m.pkt.data = <<f, i>>
    <2>1. m.pkt.data \in Chunks
      BY <1>2, <1>3, PacketFields DEF Datas
    <2> QED
      BY <1>5, <2>1 DEF Chunks
  <1>7. n - 1 <= NFull[f] /\ NFull[f] \in Nat
    <2>1. Len(written[p]) = n - 1 /\ Len(written[p]) <= NFull[f]
      BY <1>3 DEF CopyInv, CopyPrefix, ActiveReceiver
    <2> QED
      BY <1>5, <2>1, ConstAssumption
  <1>8. outcome[p] # "got"
    BY <1>2 DEF CopyInv, GotOutside
  <1>9. b \in Nat /\ b < BLKMOD
    BY <1>3, PacketNumbers
  <1>10. ACK(b).blk = b
    <2>1. Wire(b) = b
      BY <1>9, WireFacts
    <2> QED
      BY <2>1 DEF ACK
  <1>11. ASSUME send_ACK(p, m, b, m.pkt.len), b = i, n \in {b, b + 1},
                nextblknum' = [nextblknum EXCEPT ![p] = b + 1],
                written' = written \/ \E s : written' = [written EXCEPT ![p] = s],
                Writes(p, b)
         PROVE  /\ Acknowledges(p, m, b)
                /\ m.pkt.len = MAXDATA => UNCHANGED <<pc, outcome, finished>>
                /\ m.pkt.len # MAXDATA =>
                     /\ Outside(p)' /\ outcome'[p] = "got"
                     /\ finished' = IF p \in Clients THEN finished \cup {<<Port(p), f>>}
                                    ELSE finished
    <2>1. /\ sendbuff' = [sendbuff EXCEPT ![p] = ACK(b)]
          /\ op_sent' = [op_sent EXCEPT ![p] = OP_ACK]
          /\ Adds(Msg(Port(p), m.src, ACK(b)))
      BY <1>11 DEF send_ACK, Exchange, Adds
    <2>2. /\ m.pkt.len = MAXDATA => UNCHANGED <<pc, outcome, finished>>
          /\ m.pkt.len # MAXDATA =>
               /\ pc' = [pc EXCEPT ![p] = IF p \in Clients THEN "idle" ELSE "exit"]
               /\ outcome' = [outcome EXCEPT ![p] = "got"]
               /\ finished' = IF p \in Clients THEN finished \cup {<<Port(p), f>>}
                              ELSE finished
      BY <1>11 DEF send_ACK, Return
    <2>3. UNCHANGED <<lastsend, fpos>>
      BY DEF recv_DATA, OutOfWindow, xferVars
    <2>4. RestKeeps(p)
      BY <1>2, <1>4, <1>11, <2>1, <2>2, <2>3, Domains DEF RestKeeps, Keeps, Same
    <2>5. /\ peer'[p] = m.src /\ ~recv_first'[p] /\ op_sent'[p] = OP_ACK
          /\ nextblknum'[p] = b + 1 /\ sendbuff'[p] = ACK(b)
          /\ localfp'[p] = localfp[p] /\ sock'[p] = sock[p]
      BY <1>2, <1>4, <1>11, <2>1, Domains
    <2>6. m.pkt.len # MAXDATA => Outside(p)' /\ outcome'[p] = "got"
      BY <2>2, Domains DEF Outside
    <2>7. m.pkt.data[2] = b
      BY <1>11
    <2> QED
      BY <1>2, <1>3, <1>4, <1>8, <1>10, <1>11, <2>1, <2>2, <2>4, <2>5, <2>6, <2>7
         DEF Acknowledges
  <1>12. CASE OutOfWindow(p, m)
    BY <1>1, <1>3, <1>12, ShapeOutOfWindow DEF Shaped
  <1>13. CASE /\ DataExpected(p, m)
              /\ nextblknum' = [nextblknum EXCEPT ![p] = @ + 1]
              /\ file_write(p, m.pkt)
              /\ send_ACK(p, m, b, m.pkt.len)
    <2>1. i = n /\ b = n
      BY <1>5, <1>13, WireExact DEF DataExpected
    <2>2. m.pkt.len > 0 => n <= NChunks(f)
      BY <1>5, <1>7, <2>1, ConstAssumption DEF ChunkLen, NChunks
    <2>3. /\ Writes(p, b)
          /\ written' = written \/ \E s : written' = [written EXCEPT ![p] = s]
      BY <1>6, <1>13, <2>1, <2>2, Domains DEF file_write, Writes
    <2>4. /\ Acknowledges(p, m, b)
          /\ m.pkt.len = MAXDATA => UNCHANGED <<pc, outcome, finished>>
          /\ m.pkt.len # MAXDATA =>
               /\ Outside(p)' /\ outcome'[p] = "got"
               /\ finished' = IF p \in Clients THEN finished \cup {<<Port(p), f>>}
                              ELSE finished
      BY <1>11, <1>13, <2>1, <2>3
    <2>5. CASE m.pkt.len = MAXDATA
      <3>1. b <= NFull[f]
        BY <1>5, <2>1, <2>5, ChunkLenFacts
      <3> QED
        BY <1>2, <1>9, <2>4, <2>5, <3>1 DEF GoesOn, Shaped
    <2>6. CASE m.pkt.len # MAXDATA
      <3>1. b = NFull[f] + 1
        BY <1>5, <1>7, <2>1, <2>6 DEF ChunkLen
      <3>2. written'[p] = Copy(f)
        BY <1>2, <2>4, <2>6 DEF ReceiverComplete
      <3> QED
        BY <1>2, <1>9, <2>1, <2>4, <2>6, <3>1, <3>2 DEF Gets, Shaped
    <2> QED
      BY <2>5, <2>6
  <1>14. CASE /\ b = n - 1
              /\ send_ACK(p, m, b, m.pkt.len)
              /\ UNCHANGED <<nextblknum, written, upload, lastsend, fpos>>
    <2>1. i = n - 1
      BY <1>5, <1>14, WireExact
    <2>2. m.pkt.len = MAXDATA
      BY <1>5, <1>7, <2>1, ChunkLenFacts
    <2>3. nextblknum' = [nextblknum EXCEPT ![p] = b + 1]
      BY <1>5, <1>14, Domains
    <2>4. Writes(p, b)
      BY <1>14 DEF Writes
    <2>6. b = i /\ n \in {b, b + 1}
      BY <1>5, <1>14, <2>1
    <2>7. written' = written /\ send_ACK(p, m, b, m.pkt.len)
      BY <1>14
    <2>5. Acknowledges(p, m, b) /\ UNCHANGED <<pc, outcome, finished>>
      BY <1>11, <2>2, <2>3, <2>4, <2>6, <2>7
    <2> QED
      BY <1>2, <1>5, <1>7, <1>9, <1>14, <2>5 DEF GoesOn, Shaped
  <1> QED
    BY <1>12, <1>13, <1>14 DEF recv_DATA

\* recv_ACK() sends the next block, ends, or ignores what it has seen before.
LEMMA ShapeRecvAck ==
  ASSUME TypeInv, FileOpen, CopyInv, NEW p \in Procs, NEW m \in net,
         recv_ACK(p, m)
  PROVE  Shaped
  <1>1. Handles(p, m, "recv_ACK")
    BY DEF recv_ACK
  <1>2. UNCHANGED <<recvbuff, localfp, sock, strays>> /\ pc[p] = "fsm" /\ m.dst = Port(p)
    BY <1>1, HandlesType DEF TypeInv, Handles
  <1>3. IsAck(m.pkt) /\ op_sent[p] \in {OP_WRQ, OP_DATA} /\ Sending(p) /\ Waiting(p, m)
    BY <1>1, <1>2, TableFacts DEF Handles, IsAck, Sending, Waiting
  <1>4. /\ peer' = [peer EXCEPT ![p] = m.src]
        /\ recv_first' = [recv_first EXCEPT ![p] = FALSE]
        /\ p \in Children => m.src = peer[p]
        /\ (p \in Clients /\ op_sent[p] \notin {OP_RRQ, OP_WRQ}) => m.src = peer[p]
    BY <1>1, <1>3, Taken
  <1>5. m.pkt.blk \in Nat
    BY <1>3, PacketNumbers
  <1> DEFINE n == nextblknum[p]
             f == localfp[p]
  <1>6. n \in Nat /\ f \in Files /\ fpos[p] \in Nat /\ lastsend[p] \in 0..MAXDATA
    BY <1>2 DEF FileOpen, TypeInv, TypeOK
  <1>7. /\ op_sent[p] = OP_WRQ => n = 0 /\ fpos[p] = 0 /\ lastsend[p] = MAXDATA
        /\ op_sent[p] # OP_WRQ =>
             /\ lastsend[p] = ChunkLen(f, n)
             /\ fpos[p] = IF lastsend[p] > 0 THEN n ELSE n - 1
    BY <1>2, <1>3 DEF CopyInv, SenderPosition, Sending
  <1>8. CASE OutOfWindow(p, m)
    BY <1>1, <1>3, <1>8, ShapeOutOfWindow DEF Shaped
  <1>9. CASE /\ AckExpected(p, m) /\ LastAcked(p)
             /\ Return(p, rtt_stop(rtt[p]), "sent")
             /\ Exchange(m, {})
             /\ UNCHANGED xferVars
    <2>1. op_sent[p] = OP_DATA /\ n > NFull[f]
      <3>1. lastsend[p] < MAXDATA
        BY <1>9 DEF LastAcked
      <3>2. op_sent[p] = OP_DATA /\ ChunkLen(f, n) < MAXDATA
        BY <1>3, <1>6, <1>7, <3>1, ConstAssumption
      <3> QED
        BY <1>6, <3>2, ChunkLenFacts, ConstAssumption
    <2>2. /\ pc' = [pc EXCEPT ![p] = IF p \in Clients THEN "idle" ELSE "exit"]
          /\ outcome' = [outcome EXCEPT ![p] = "sent"]
          /\ net' \subseteq net
          /\ UNCHANGED <<op_sent, nextblknum, lastsend, sendbuff, fpos, written, upload,
                         finished>>
      BY <1>9 DEF Return, Exchange, xferVars
    <2>3. RestKeeps(p)
      BY <1>2, <1>4, <2>2, Domains DEF RestKeeps, Keeps, Same
    <2>4. Outside(p)' /\ outcome'[p] = "sent" /\ peer'[p] = m.src /\ ~recv_first'[p]
      BY <1>4, <2>2, Domains DEF Outside
    <2>5. Confirmed(p, m)
      BY <1>2, <1>3, <1>4, <1>9, <2>2, <2>3, <2>4 DEF Confirmed, AckExpected
    <2> QED
      BY <2>1, <2>2, <2>4, <2>5 DEF IsSent, Shaped
  <1>10. CASE /\ m.pkt.blk = nextblknum[p] - 1
              /\ Exchange(m, {})
              /\ UNCHANGED <<pc, outcome>> /\ UNCHANGED xferVars
    <2>1. op_sent[p] # OP_WRQ
      BY <1>5, <1>7, <1>10
    <2>2. m.src = peer[p] /\ ~recv_first[p]
      BY <1>2, <1>3, <1>4, <2>1 DEF CopyInv, Parties, Procs, OP_WRQ, OP_RRQ, OP_DATA
    <2>3. peer' = peer /\ recv_first' = recv_first
      BY <1>4, <2>2 DEF TypeInv, TypeOK
    <2> QED
      BY <1>2, <1>10, <2>3, Domains DEF Shaped, Idles, Keeps, Same, xferVars, Exchange
  <1>11. CASE /\ AckExpected(p, m)
              /\ ~LastAcked(p)
              /\ send_DATA(p, localfp[p], fpos[p], nextblknum[p] + 1)
              /\ Exchange(m, {Msg(Port(p), m.src,
                                  NextData(localfp[p], fpos[p], nextblknum[p] + 1))})
              /\ UNCHANGED <<pc, outcome, written, upload, finished>>
    <2> DEFINE d == NextData(f, fpos[p], n + 1)
    <2>1. fpos[p] = n
      <3>1. CASE op_sent[p] = OP_WRQ
        BY <1>7, <3>1
      <3>2. CASE op_sent[p] # OP_WRQ
        <4>1. lastsend[p] = 0 => LastAcked(p)
          <5> SUFFICES ASSUME lastsend[p] = 0
                       PROVE  LastAcked(p)
            OBVIOUS
          <5>1. fpos[p] + 1 = n
            BY <1>6, <1>7, <3>2
          <5> QED
            BY <1>7, <3>2, <5>1, ConstAssumption DEF LastAcked
        <4> QED
          BY <1>6, <1>7, <1>11, <3>2, <4>1
      <3> QED
        BY <3>1, <3>2
    <2>2. IsData(d) /\ d.data[2] = n + 1
      BY <2>1 DEF NextData, DATA, IsData
    <2>3. Adds(Msg(Port(p), m.src, d))
      BY <1>11 DEF Exchange, Adds
    <2> HIDE DEF d
    <2>4. /\ nextblknum' = [nextblknum EXCEPT ![p] = n + 1]
          /\ op_sent' = [op_sent EXCEPT ![p] = OP_DATA]
          /\ RestKeeps(p)
      BY <1>2, <1>4, <1>11, Domains DEF send_DATA, RestKeeps, Keeps, Same
    <2>5. Confirmed(p, m)
      BY <1>2, <1>3, <1>4, <1>11, <2>4, Domains DEF Confirmed, AckExpected
    <2>6. SendsNext(p, m)
      BY <1>2, <1>11, <2>2, <2>3, <2>4, <2>5, Domains DEF SendsNext
    <2> QED
      BY <2>6 DEF Shaped
  <1> QED
    BY <1>8, <1>9, <1>10, <1>11 DEF recv_ACK

\* p stops and keeps its globals.
LEMMA ShapeStop ==
  ASSUME TypeInv, NEW p \in Procs, NEW why \in Outcomes \ {"got", "sent"}, Reason(p, why),
         pc[p] # "exit", p \in Children => pc[p] # "idle",
         outcome' = [outcome EXCEPT ![p] = why],
         pc' = [pc EXCEPT ![p] = "exit"]
           \/ (p \in Clients /\ pc' = [pc EXCEPT ![p] = "idle"]),
         UNCHANGED <<op_sent, nextblknum, lastsend, fpos, written, localfp, sock,
                     recvbuff, peer, recv_first, upload, finished, strays>>,
         \A q \in Procs : q # p => sendbuff'[q] = sendbuff[q],
         \A x \in net' : x \in net \/ (why = "denied" /\ x = Msg(Port(p), peer[p], ERROR))
  PROVE  Shaped
  <1>1. RestKeeps(p)
    BY Domains DEF RestKeeps, Keeps, Same
  <1>2. Outside(p)' /\ outcome'[p] = why
    BY Domains DEF Outside
  <1> QED
    BY <1>1, <1>2 DEF Fails, Shaped

\* An error packet, a bad packet, or one from another port.
LEMMA ShapeOtherPackets ==
  ASSUME TypeInv, CopyInv, NEW p \in Procs, NEW m \in net,
         recv_RQERR(p, m) \/ fsm_invalid(p, m) \/ net_recv_other(p, m)
  PROVE  Shaped
  <1>1. CASE recv_RQERR(p, m)
    <2>1. /\ Handles(p, m, "recv_RQERR") /\ Exchange(m, {}) /\ UNCHANGED xferVars
          /\ pc' = [pc EXCEPT ![p] = IF p \in Clients THEN "idle" ELSE "exit"]
          /\ outcome' = [outcome EXCEPT ![p] = "rqerr"]
      BY <1>1 DEF recv_RQERR, Return
    <2>2. Reason(p, "rqerr") /\ "rqerr" \in Outcomes
      BY DEF Reason, Outcomes
    <2>3. Fails(p, "rqerr")
      BY <2>1, <2>2, ShapeLastPass
    <2> QED
      BY <2>2, <2>3 DEF Shaped
  <1>2. CASE fsm_invalid(p, m)
    <2>1. PICK h \in {"fsm_error", "fsm_invalid"} : Handles(p, m, h)
      BY <1>2 DEF fsm_invalid
    <2>2. /\ pc' = [pc EXCEPT ![p] = "exit"] /\ outcome' = [outcome EXCEPT ![p] = "botch"]
          /\ Exchange(m, {}) /\ UNCHANGED xferVars
      BY <1>2 DEF fsm_invalid, Exit
    <2>3. "botch" \in Outcomes
      BY DEF Outcomes
    <2>4. Reason(p, "botch")
      BY <2>1 DEF Reason, Handles, Waiting
    <2>5. Fails(p, "botch")
      BY <2>1, <2>2, <2>3, <2>4, ShapeLastPass
    <2> QED
      BY <2>3, <2>5 DEF Shaped
  <1>3. CASE net_recv_other(p, m)
    <2>1. "port" \in Outcomes
      BY DEF Outcomes
    <2>2. Reason(p, "port")
      BY <1>3 DEF net_recv_other, Reason, Waiting
    <2>3. \A x \in net' : x \in net
      BY <1>3 DEF net_recv_other, Exchange
    <2> QED
      BY <1>3, <2>1, <2>2, <2>3, ShapeStop DEF net_recv_other, Exit, xferVars
  <1> QED
    BY <1>1, <1>2, <1>3

\* Timeouts, system errors, signals and exit.
LEMMA ShapeInterruptions ==
  ASSUME TypeInv
  PROVE  /\ \A p \in Procs : timeout(p) \/ alarm_lost(p) => Shaped
         /\ \A p \in Procs \cup {Server} : sys_error(p) => Shaped
         /\ \A c \in Clients : sig_intr(c) \/ cmd_exit(c) => Shaped
  <1>1. \A why \in {"timeout", "syserr", "intr", "quit"} :
          why \in Outcomes \ {"got", "sent"} /\ \A p : Reason(p, why)
    BY DEF Outcomes, Reason
  <1>2. ASSUME NEW p \in Procs, timeout(p)
        PROVE  Shaped
    <2>1. CASE Return(p, rtt_timeout(rtt[p]), "timeout") /\ UNCHANGED net
      <3>1. /\ outcome' = [outcome EXCEPT ![p] = "timeout"]
            /\ pc' = [pc EXCEPT ![p] = "exit"]
                 \/ (p \in Clients /\ pc' = [pc EXCEPT ![p] = "idle"])
        BY <2>1 DEF Return
      <3> QED
        BY <1>1, <1>2, <2>1, <3>1, ShapeStop DEF timeout, xferVars
    <2>2. CASE UNCHANGED <<pc, outcome>> /\ net' = net \cup {Msg(Port(p), peer[p], sendbuff[p])}
      <3>1. Resends(p)
        BY <1>2, <2>2 DEF timeout, xferVars, Resends, Keeps, Same, Adds
      <3> QED
        BY <3>1 DEF Shaped
    <2> QED
      BY <1>2, <2>1, <2>2 DEF timeout
  <1>3. ASSUME NEW p \in Procs, alarm_lost(p)
        PROVE  Shaped
    <2>1. Idles
      BY <1>3, Domains DEF alarm_lost, xferVars, Idles, Keeps, Same
    <2> QED
      BY <2>1 DEF Shaped
  <1>4. ASSUME NEW p \in Procs, sys_error(p)
        PROVE  Shaped
    <2>1. p # Server
      BY ConstAssumption
    <2> QED
      BY <1>1, <1>4, <2>1, ShapeStop DEF sys_error, xferVars
  <1>5. ASSUME sys_error(Server)
        PROVE  Shaped
    <2>1. \A q \in Procs : pc'[q] = pc[q]
      BY <1>5, ConstAssumption, Domains DEF sys_error
    <2>2. Idles
      BY <1>5, <2>1, Domains DEF sys_error, xferVars, Idles, Keeps, Same
    <2> QED
      BY <2>2 DEF Shaped
  <1>6. ASSUME NEW c \in Clients, sig_intr(c)
        PROVE  Shaped
    BY <1>1, <1>6, ShapeStop DEF sig_intr, xferVars, Procs
  <1>7. ASSUME NEW c \in Clients, cmd_exit(c)
        PROVE  Shaped
    BY <1>1, <1>7, ConstAssumption, ShapeStop DEF cmd_exit, Exit, xferVars, Procs
  <1> QED
    BY <1>2, <1>3, <1>4, <1>5, <1>6, <1>7

\* get and put open the local file, and send a request unless there is no host.
LEMMA ShapeCommands ==
  ASSUME TypeInv, NEW c \in Clients, NEW f \in Files
  PROVE  /\ do_get(c, f) \/ do_put(c, f) => Shaped
         /\ \A blk \in {0, 1} : net_open_fails(c, f, blk) => Shaped
  <1>1. c \in Procs
    BY DEF Procs
  <1>2. ASSUME NEW op \in {OP_RRQ, OP_WRQ}, NEW blk, blk = IF op = OP_WRQ THEN 0 ELSE 1,
               pc[c] = "idle", file_open(c, f, blk), send_RQ(c, f, op),
               \A q \in Procs : q # c => lastsend'[q] = lastsend[q],
               UNCHANGED <<recvbuff, upload, finished, strays>>
        PROVE  Shaped
    <2>1. RestKeeps(c)
      BY <1>2, Domains DEF file_open, send_RQ, RestKeeps, Keeps, Same
    <2>2. Opens(c, f)
      BY <1>1, <1>2, <2>1, Domains DEF file_open, Opens
    <2>3. SendsRequest(c, f, op)
      BY <1>1, <1>2, <2>2, Domains DEF file_open, send_RQ, SendsRequest, Adds
    <2> QED
      BY <2>3 DEF Shaped
  <1>3. OP_RRQ # OP_WRQ
    BY DEF OP_RRQ, OP_WRQ
  <1>4. ASSUME do_get(c, f) PROVE Shaped
    BY <1>2, <1>3, <1>4 DEF do_get
  <1>5. ASSUME do_put(c, f) PROVE Shaped
    BY <1>2, <1>5, Domains DEF do_put
  <1>6. ASSUME NEW blk \in {0, 1}, net_open_fails(c, f, blk) PROVE Shaped
    <2>1. RestKeeps(c)
      BY <1>6, Domains DEF net_open_fails, file_open, RestKeeps, Keeps, Same
    <2>2. OpensOnly(c, f)
      BY <1>1, <1>6, <2>1, Domains DEF net_open_fails, file_open, Opens, OpensOnly
    <2> QED
      BY <2>2 DEF Shaped
  <1> QED
    BY <1>4, <1>5, <1>6

\* The parent server forks a child.
LEMMA ShapeFork ==
  ASSUME TypeInv, NEW ch \in Children, NEW m \in net, net_open(ch, m)
  PROVE  Shaped
  <1>1. ch \in Procs
    BY DEF Procs
  <1>2. RestKeeps(ch)
    BY Domains DEF net_open, xferVars, RestKeeps, Keeps, Same
  <1>3. net' \subseteq net
    BY DEF net_open, Exchange
  <1>4. Forks(ch, m)
    BY <1>1, <1>2, <1>3, Domains DEF net_open, xferVars, Forks
  <1> QED
    BY <1>4 DEF Shaped

\* A child takes its request on.
LEMMA ShapeServes ==
  ASSUME TypeInv, CopyInv, NEW ch \in Children, recv_RRQ(ch) \/ recv_WRQ(ch)
  PROVE  Shaped
  <1> DEFINE f == recvbuff[ch].file
  <1>1. PICK h \in {"recv_RRQ", "recv_WRQ"} :
          FirstPass(ch, h) /\ (recv_RRQ(ch) => h = "recv_RRQ") /\ (recv_WRQ(ch) => h = "recv_WRQ")
    BY DEF recv_RRQ, recv_WRQ, FirstPass
  <1>2. Asked(ch, f) /\ UNCHANGED <<peer, recv_first, recvbuff, sock, dups, strays>>
    BY <1>1, AskedFacts DEF FirstPass
  <1>3. ch \in Procs /\ ch \notin Clients /\ f \in Files
    BY <1>2 DEF Asked
  <1>4. recvbuff[ch].op = IF h = "recv_RRQ" THEN OP_RRQ ELSE OP_WRQ
    BY <1>1, <1>3 DEF FirstPass, fsm_ptr, fsm_ptr_server
  <1>5. CASE recv_RRQ(ch)
    <2> DEFINE d == NextData(f, 0, 1)
    <2>1. IsData(d) /\ d.data[2] = 1
      BY DEF NextData, DATA, IsData
    <2>2. /\ nextblknum' = [nextblknum EXCEPT ![ch] = 1]
          /\ op_sent' = [op_sent EXCEPT ![ch] = OP_DATA]
          /\ localfp' = [localfp EXCEPT ![ch] = f]
          /\ pc' = [pc EXCEPT ![ch] = "fsm"]
          /\ Adds(Msg(Port(ch), peer[ch], d))
          /\ UNCHANGED <<outcome, written, upload, finished>>
          /\ \A q \in Procs : q # ch => /\ lastsend'[q] = lastsend[q] /\ fpos'[q] = fpos[q]
                                        /\ sendbuff'[q] = sendbuff[q]
      BY <1>5, Domains DEF recv_RRQ, send_DATA, EnterLoop, Adds
    <2> HIDE DEF d
    <2>3. RestKeeps(ch)
      BY <1>2, <2>2, Domains DEF RestKeeps, Keeps, Same
    <2>4. Serves(ch, f) /\ op_sent'[ch] = OP_DATA
      BY <1>2, <1>3, <2>2, <2>3, Domains DEF Serves
    <2>5. ServesRead(ch, f)
      BY <1>1, <1>4, <1>5, <2>1, <2>2, <2>4 DEF ServesRead
    <2> QED
      BY <1>3, <2>5 DEF Shaped
  <1>6. CASE recv_WRQ(ch)
    <2>1. /\ nextblknum' = [nextblknum EXCEPT ![ch] = 1]
          /\ op_sent' = [op_sent EXCEPT ![ch] = OP_ACK]
          /\ localfp' = [localfp EXCEPT ![ch] = f]
          /\ written' = [written EXCEPT ![ch] = <<>>]
          /\ upload' = [upload EXCEPT ![f] = <<>>]
          /\ sendbuff' = [sendbuff EXCEPT ![ch] = ACK(0)]
          /\ pc' = [pc EXCEPT ![ch] = "fsm"]
          /\ Adds(Msg(Port(ch), peer[ch], ACK(0)))
          /\ UNCHANGED <<outcome, lastsend, fpos, finished>>
      BY <1>6 DEF recv_WRQ, EnterLoop, Adds
    <2>2. RestKeeps(ch)
      BY <1>2, <2>1, Domains DEF RestKeeps, Keeps, Same
    <2>3. Serves(ch, f) /\ op_sent'[ch] = OP_ACK /\ written'[ch] = <<>>
      BY <1>2, <1>3, <2>1, <2>2, Domains DEF Serves
    <2>4. ACK(0).blk = 0
      BY WireFacts, ConstAssumption DEF ACK
    <2>5. recvbuff[ch].op = OP_WRQ
      BY <1>1, <1>4, <1>6
    <2>6. ServesWrite(ch, f)
      BY <2>1, <2>3, <2>4, <2>5 DEF ServesWrite
    <2> QED
      BY <1>3, <2>6 DEF Shaped
  <1> QED
    BY <1>5, <1>6

\* A child refuses its request or has none.
LEMMA ShapeRefusal ==
  ASSUME TypeInv, CopyInv, NEW ch \in Children, send_ERROR(ch) \/ not_a_request(ch)
  PROVE  Shaped
  <1>1. ch \in Procs
    BY DEF Procs
  <1>2. "denied" \in Outcomes /\ "botch" \in Outcomes
    BY DEF Outcomes
  <1>3. CASE send_ERROR(ch)
    <2>1. PICK h \in {"recv_RRQ", "recv_WRQ"} : FirstPass(ch, h)
      BY <1>3 DEF send_ERROR
    <2>2. Asked(ch, recvbuff[ch].file)
      BY <2>1, AskedFacts
    <2>3. Reason(ch, "denied")
      BY <2>2 DEF Asked, Reason
    <2>4. \A q \in Procs : q # ch => sendbuff'[q] = sendbuff[q]
      BY <1>3, Domains DEF send_ERROR
    <2>5. /\ pc' = [pc EXCEPT ![ch] = "exit"]
          /\ outcome' = [outcome EXCEPT ![ch] = "denied"]
          /\ UNCHANGED <<op_sent, nextblknum, lastsend, fpos, written, localfp, sock,
                         recvbuff, peer, recv_first, upload, finished, strays>>
          /\ \A x \in net' : x \in net \/ x = Msg(Port(ch), peer[ch], ERROR)
      BY <1>3, <2>1 DEF send_ERROR, FirstPass, Exit
    <2>6. pc[ch] = "start"
      BY <2>1 DEF FirstPass
    <2> QED
      BY <1>1, <1>2, <2>3, <2>4, <2>5, <2>6, ShapeStop
  <1>4. CASE not_a_request(ch)
    <2>1. FirstPass(ch, "fsm_invalid") /\ pc[ch] = "start"
      BY <1>4 DEF not_a_request, FirstPass
    <2>2. Reason(ch, "botch")
      BY <2>1 DEF FirstPass, Reason
    <2>3. /\ pc' = [pc EXCEPT ![ch] = "exit"]
          /\ outcome' = [outcome EXCEPT ![ch] = "botch"]
          /\ UNCHANGED <<op_sent, nextblknum, lastsend, fpos, written, localfp, sock,
                         recvbuff, peer, recv_first, upload, finished, strays, sendbuff, net>>
      BY <1>4, <2>1 DEF not_a_request, FirstPass, Exit, xferVars
    <2> QED
      BY <1>1, <1>2, <2>1, <2>2, <2>3, ShapeStop
  <1> QED
    BY <1>3, <1>4

\* A foreign implementation sends a packet.
LEMMA ShapeStray ==
  ASSUME TypeInv, NEW m \in StrayMsgs, stray(m)
  PROVE  Shaped
  <1>1. m.pkt.op \in {OP_ERROR, 0}
    BY DEF stray, ERROR, NoPacket
  <1>2. strays \in Nat /\ strays' = strays + 1
    BY Domains DEF stray
  <1>3. \A x \in net' : x \in net \/ (strays' # 0 /\ x.pkt.op \in {OP_ERROR, 0})
    BY <1>1, <1>2 DEF stray
  <1>4. Idles
    BY <1>2, <1>3 DEF stray, xferVars, Idles, Keeps, Same
  <1> QED
    BY <1>4 DEF Shaped

\* Every step has one of the shapes.
LEMMA Shapes ==
  ASSUME TypeInv, FileOpen, CopyInv, ReceiverComplete', [Next]_vars
  PROVE  Shaped
  <1>1. ASSUME NEW p \in Procs, Receive(p) PROVE Shaped
    BY <1>1, ShapeRecvData, ShapeRecvAck, ShapeOtherPackets DEF Receive
  <1>2. ASSUME NEW c \in Clients, Command(c) PROVE Shaped
    <2>1. ASSUME NEW f \in Files, do_get(c, f) \/ do_put(c, f) PROVE Shaped
      BY <2>1, ShapeCommands
    <2>2. ASSUME NEW f \in Files, NEW blk \in {0, 1}, net_open_fails(c, f, blk) PROVE Shaped
      BY <2>2, ShapeCommands
    <2> QED
      BY <1>2, <2>1, <2>2, ShapeInterruptions DEF Command
  <1>3. ASSUME NEW ch \in Children, Start(ch) PROVE Shaped
    BY <1>3, ShapeServes, ShapeRefusal DEF Start
  <1>4. ASSUME Fork PROVE Shaped
    BY <1>4, ShapeFork DEF Fork
  <1>5. ASSUME UNCHANGED vars PROVE Shaped
    <2>1. Idles
      BY <1>5, Domains DEF vars, Idles, Keeps, Same
    <2> QED
      BY <2>1 DEF Shaped
  <1>6. ASSUME NEW m \in StrayMsgs, stray(m) PROVE Shaped
    BY <1>6, ShapeStray
  <1>7. ASSUME NEW p \in Procs, timeout(p) \/ alarm_lost(p) PROVE Shaped
    BY <1>7, ShapeInterruptions
  <1>8. ASSUME NEW p \in Procs \cup {Server}, sys_error(p) PROVE Shaped
    BY <1>8, ShapeInterruptions
  <1>9. ASSUME NEW c \in Clients, sig_intr(c) PROVE Shaped
    BY <1>9, ShapeInterruptions
  <1> QED
    BY <1>1, <1>2, <1>3, <1>4, <1>5, <1>6, <1>7, <1>8, <1>9 DEF Next, Done

-----------------------------------------------------------------------------
(* The two ends of a transfer. *)

\* One of p and q sends the file the other receives.
Meet(p, q) ==
  /\ localfp[p] = localfp[q]
  /\ Receiving(p) <=> ~Sending(p)
  /\ Receiving(q) <=> ~Sending(q)
  /\ Receiving(p) <=> Sending(q)

\* A process in fsm_loop() sends or receives.
LEMMA InLoop ==
  ASSUME TypeInv, CopyInv, TalkInv, NEW p \in Procs, pc[p] = "fsm"
  PROVE  /\ Receiving(p) <=> ~Sending(p)
         /\ op_sent[p] \in {OP_RRQ, OP_WRQ, OP_DATA, OP_ACK}
         /\ p \in Children => op_sent[p] \in {OP_DATA, OP_ACK}
         /\ outcome[p] # "denied" \/ p \in Clients
  <1>1. op_sent[p] \in {OP_RRQ, OP_WRQ, OP_DATA, OP_ACK}
    BY DEF TalkInv, Answered, CopyInv, Parties, Procs
  <1>2. p \in Children => op_sent[p] \in {OP_DATA, OP_ACK}
    BY DEF CopyInv, Parties
  <1>3. p \in Children => outcome[p] = "none"
    BY DEF TalkInv, Unused
  <1> QED
    BY <1>1, <1>2, <1>3
       DEF Receiving, Sending, OP_RRQ, OP_WRQ, OP_DATA, OP_ACK, Procs

\* A child meets the client it answers to.
LEMMA ChildMeets ==
  ASSUME TypeInv, CopyInv, TalkInv, NEW ch \in Children, NEW c \in Clients,
         pc[ch] = "fsm", pc[c] = "fsm", peer[ch] = Port(c)
  PROVE  Meet(ch, c) /\ Meet(c, ch)
  <1>1. ch \in Procs /\ c \in Procs
    BY DEF Procs
  <1>2. localfp[ch] = localfp[c] /\ (Receiving(ch) <=> Sending(c))
    BY DEF CopyInv, SameFile, TalkInv, Roles
  <1> QED
    BY <1>1, <1>2, InLoop DEF Meet

\* A process meets the sender of a block or an ACK at its socket.
LEMMA Heard ==
  ASSUME TypeInv, CopyInv, TalkInv, NEW p \in Procs, NEW q \in Procs, NEW m \in net,
         pc[p] = "fsm", pc[q] = "fsm", IsData(m.pkt) \/ IsAck(m.pkt),
         m.dst = Port(p), m.src = Port(q)
  PROVE  Meet(p, q)
  <1>1. m.src[1] = q /\ m.dst[1] = p
    BY DEF Port
  <1>2. CASE q \in Children /\ p \in Clients /\ m.dst = peer[q]
    BY <1>2, ChildMeets
  <1>3. CASE q \in Clients /\ p \in Children
    <2>1. m.src = peer[p]
      BY <1>1, <1>3, ConstAssumption DEF TalkInv, Conversation
    <2> QED
      BY <1>3, <2>1, ChildMeets
  <1> QED
    BY <1>1, <1>2, <1>3 DEF CopyInv, Parties

\* A process that sends blocks or ACKs meets its peer.
LEMMA Answers ==
  ASSUME TypeInv, CopyInv, TalkInv, NEW p \in Procs, NEW q \in Procs,
         pc[p] = "fsm", pc[q] = "fsm", op_sent[p] \in {OP_DATA, OP_ACK}, peer[p] = Port(q)
  PROVE  Meet(p, q)
  <1>1. peer[p][1] = q
    BY DEF Port
  <1>2. CASE p \in Children
    <2>1. q \in Clients
      BY <1>1, <1>2 DEF CopyInv, Parties
    <2> QED
      BY <1>2, <2>1, ChildMeets
  <1>3. CASE p \in Clients
    <2>1. op_sent[p] \notin {OP_RRQ, OP_WRQ}
      BY DEF OP_RRQ, OP_WRQ, OP_DATA, OP_ACK
    <2>2. q \in Children /\ peer[q] = Port(p)
      BY <1>1, <1>3, <2>1 DEF CopyInv, Parties, TalkInv, Answered
    <2> QED
      BY <1>3, <2>2, ChildMeets
  <1> QED
    BY <1>2, <1>3 DEF Procs

-----------------------------------------------------------------------------
(* Steps that send a block or an ACK. *)

\* p sends a block or an ACK, in a, to the other end; it goes on or stops.
Speaks(p, a) ==
  /\ pc[p] = "fsm" \/ (p \in Children /\ pc[p] = "start")
  /\ RestKeeps(p) /\ sock'[p] = sock[p] /\ UNCHANGED recvbuff
  /\ Adds(a) /\ a.src = Port(p)
  /\ \/ IsData(a.pkt) /\ op_sent'[p] = OP_DATA
     \/ IsAck(a.pkt) /\ op_sent'[p] = OP_ACK
  /\ \/ pc'[p] = "fsm" /\ outcome'[p] = outcome[p]
     \/ Outside(p)' /\ outcome'[p] # "denied"
  /\ peer'[p] = a.dst
  /\ p \in Children => a.dst = peer[p] /\ a.dst[1] \in Clients
  /\ p \in Clients => /\ a.dst[1] \in Children
                      /\ peer[a.dst[1]] = Port(p) /\ outcome[a.dst[1]] # "denied"
  /\ pc[p] = "fsm" => (Sending(p)' <=> Sending(p))
  /\ \A q \in Procs : (pc[q] = "fsm" /\ a.dst = Port(q)) =>
       IF IsData(a.pkt) THEN Receiving(q) ELSE Sending(q)

\* Such a step keeps TalkInv.
LEMMA SpeaksTalk ==
  ASSUME TypeInv, CopyInv, TalkInv, NEW p \in Procs, NEW a, Speaks(p, a)
  PROVE  TalkInv'
  <1>1. /\ \A q \in Procs : q # p => Same(q)
        /\ \A q \in Procs : Port(q)' = Port(q)
        /\ \A x \in net' : x \in net \/ x = a
        /\ recvbuff' = recvbuff
    BY DEF Speaks, RestKeeps, Keeps, Adds, Port
  <1>2. /\ Children \subseteq Procs /\ Clients \subseteq Procs
        /\ \A q \in Children : q \notin Clients
    BY ConstAssumption DEF Procs
  <1>3. /\ a.src = Port(p) /\ a.src[1] = p
        /\ a.pkt.op = op_sent'[p] /\ op_sent'[p] \in {OP_DATA, OP_ACK}
        /\ \A ch \in Children : peer'[ch] = peer[ch]
        /\ \A ch \in Children : outcome[ch] # "denied" => outcome'[ch] # "denied"
    BY <1>1 DEF Speaks, Port, Same, IsData, IsAck, Procs
  <1>4. /\ OP_DATA \notin {OP_RRQ, OP_WRQ, OP_ACK} /\ OP_ACK \notin {OP_RRQ, OP_WRQ}
        /\ OP_RRQ # OP_WRQ /\ 0 \notin {OP_DATA, OP_ACK}
    BY DEF OP_DATA, OP_ACK, OP_RRQ, OP_WRQ
  <1>5. Unused'
    <2>1. \A ch \in Children : pc'[ch] \in {"idle", "start"} => Same(ch)
      BY <1>1, <1>2 DEF Speaks, Outside
    <2>2. \A ch \in Children : pc'[ch] # "exit" => outcome'[ch] = "none"
      BY <1>1, <1>2 DEF Speaks, Outside, TalkInv, Unused, Same
    <2> QED
      BY <2>1, <2>2 DEF TalkInv, Unused, Same
  <1>6. Answered'
    <2> SUFFICES ASSUME NEW c \in Clients, pc'[c] = "fsm"
                 PROVE  \/ op_sent'[c] \in {OP_RRQ, OP_WRQ} /\ recv_first'[c]
                        \/ /\ op_sent'[c] \in {OP_DATA, OP_ACK}
                           /\ peer'[peer'[c][1]] = Port(c)
                           /\ outcome'[peer'[c][1]] # "denied"
      BY <1>1, <1>2 DEF Answered
    <2>1. CASE c = p
      BY <1>2, <1>3, <2>1 DEF Speaks
    <2>2. CASE c # p /\ op_sent[c] \in {OP_RRQ, OP_WRQ}
      BY <1>1, <1>2, <1>4, <2>2 DEF TalkInv, Answered, Same
    <2>3. CASE c # p /\ op_sent[c] \notin {OP_RRQ, OP_WRQ}
      <3>1. /\ pc[c] = "fsm" /\ op_sent'[c] = op_sent[c] /\ peer'[c] = peer[c]
            /\ peer[c][1] \in Children
        BY <1>1, <1>2, <2>3 DEF CopyInv, Parties, Same
      <3> QED
        BY <1>3, <2>3, <3>1 DEF TalkInv, Answered
    <2> QED
      BY <2>1, <2>2, <2>3
  <1>7. Conversation'
    <2> SUFFICES ASSUME NEW x \in net', IsData(x.pkt) \/ IsAck(x.pkt)
                 PROVE  IF x.src[1] \in Children THEN outcome'[x.src[1]] # "denied"
                                                 ELSE x.src = peer'[x.dst[1]]
      BY DEF Conversation
    <2>1. CASE x \in net
      BY <1>2, <1>3, <2>1 DEF CopyInv, Parties, TalkInv, Conversation
    <2>2. CASE x = a
      <3>1. CASE p \in Children
        <4>1. outcome[p] # "denied"
          BY <3>1 DEF Speaks, TalkInv, Unused
        <4> QED
          BY <1>3, <2>2, <3>1, <4>1
      <3>2. CASE p \in Clients
        BY <1>2, <1>3, <2>2, <3>2 DEF Speaks
      <3> QED
        BY <3>1, <3>2 DEF Procs
    <2> QED
      BY <1>1, <2>1, <2>2
  <1>8. \A q \in Procs : (pc[q] = "fsm" /\ pc'[q] = "fsm") =>
          (Sending(q)' <=> Sending(q)) /\ (Receiving(q)' <=> Receiving(q))
    <2>1. ASSUME NEW q \in Procs, q # p
          PROVE  (Sending(q)' <=> Sending(q)) /\ (Receiving(q)' <=> Receiving(q))
      BY <1>1, <2>1 DEF Sending, Receiving, Same
    <2>2. ASSUME pc[p] = "fsm"
          PROVE  (Sending(p)' <=> Sending(p)) /\ (Receiving(p)' <=> Receiving(p))
      <3>1. Sending(p)' <=> Sending(p)
        BY <2>2 DEF Speaks
      <3>2. Receiving(p)' <=> ~Sending(p)'
        BY <1>3, <1>4 DEF Receiving, Sending
      <3> QED
        BY <2>2, <3>1, <3>2, InLoop
    <2> QED
      BY <2>1, <2>2
  <1>9. \A q \in Procs : pc'[q] = "fsm" => pc[q] = "fsm" \/ (q = p /\ p \in Children /\ pc[p] = "start")
    BY <1>1 DEF Speaks, Same
  <1>10. \A ch \in Children : pc'[ch] = "start" => pc[ch] = "start"
    BY <1>1, <1>2 DEF Speaks, Outside, Same
  <1>11. Roles'
    <2>1. ASSUME NEW x \in net', NEW c \in Clients, IsRequest(x.pkt), pc'[c] = "fsm",
                 x.src = Port(c)
          PROVE  x.pkt.op = OP_WRQ <=> Sending(c)'
      <3>1. x \in net
        BY <1>1, <1>3, <1>4, <2>1 DEF IsRequest
      <3>2. pc[c] = "fsm"
        BY <1>2, <1>9, <2>1
      <3> QED
        BY <1>2, <1>8, <2>1, <3>1, <3>2 DEF TalkInv, Roles
    <2>2. ASSUME NEW ch \in Children, NEW c \in Clients, pc'[ch] = "start",
                 IsRequest(recvbuff[ch]), pc'[c] = "fsm", peer'[ch] = Port(c)
          PROVE  recvbuff[ch].op = OP_WRQ <=> Sending(c)'
      <3>1. pc[c] = "fsm" /\ pc[ch] = "start" /\ peer[ch] = Port(c)
        BY <1>2, <1>3, <1>9, <1>10, <2>2
      <3> QED
        BY <1>2, <1>8, <2>2, <3>1 DEF TalkInv, Roles
    <2>3. ASSUME NEW ch \in Children, NEW c \in Clients, pc'[ch] = "fsm", pc'[c] = "fsm",
                 peer'[ch] = Port(c)
          PROVE  Receiving(ch)' <=> Sending(c)'
      <3>1. pc[c] = "fsm" /\ peer[ch] = Port(c)
        BY <1>2, <1>3, <1>9, <2>3
      <3>2. CASE pc[ch] = "fsm"
        BY <1>2, <1>8, <2>3, <3>1, <3>2 DEF TalkInv, Roles
      <3>3. CASE pc[ch] # "fsm"
        <4>1. ch = p /\ c # p
          BY <1>2, <1>9, <2>3, <3>3
        <4>2. a.dst = Port(c)
          BY <3>1, <4>1 DEF Speaks
        <4>3. IF IsData(a.pkt) THEN Receiving(c) ELSE Sending(c)
          BY <1>2, <3>1, <4>2 DEF Speaks
        <4>4. Receiving(ch)' <=> ~IsData(a.pkt)
          BY <1>3, <1>4, <4>1 DEF Receiving, IsData
        <4> QED
          BY <1>2, <1>8, <2>3, <3>1, <4>3, <4>4, InLoop
      <3> QED
        BY <3>2, <3>3
    <2>4. ASSUME NEW x \in net', NEW q \in Procs, pc'[q] = "fsm", x.dst = Port(q)
          PROVE  (IsData(x.pkt) => Receiving(q)') /\ (IsAck(x.pkt) => Sending(q)')
      <3>1. CASE x \in net /\ pc[q] = "fsm"
        BY <1>8, <2>4, <3>1 DEF TalkInv, Roles
      <3>2. CASE x \in net /\ pc[q] # "fsm"
        BY <1>9, <2>4, <3>2 DEF CopyInv, StartSilent
      <3>3. CASE x = a
        <4>1. q # p
          BY <1>2, <2>4, <3>3 DEF Speaks, Port, Procs
        <4>2. pc[q] = "fsm"
          BY <1>9, <2>4, <4>1
        <4>3. (IsData(x.pkt) => Receiving(q)) /\ (IsAck(x.pkt) => Sending(q))
          BY <1>4, <2>4, <3>3, <4>2 DEF Speaks, IsData, IsAck
        <4> QED
          BY <1>8, <2>4, <4>2, <4>3
      <3> QED
        BY <1>1, <2>4, <3>1, <3>2, <3>3
    <2> QED
      BY <1>1, <1>2, <2>1, <2>2, <2>3, <2>4 DEF Roles
  <1> QED
    BY <1>5, <1>6, <1>7, <1>11 DEF TalkInv

\* What recv_DATA() acknowledges and recv_ACK() answers is from the other end.
LEMMA TakesFromOther ==
  ASSUME TypeInv, CopyInv, TalkInv, NEW p \in Procs, NEW m \in net, Waiting(p, m),
         IsData(m.pkt) \/ IsAck(m.pkt), p \in Children => m.src = peer[p]
  PROVE  /\ p \in Children => m.src[1] \in Clients
         /\ p \in Clients => /\ m.src[1] \in Children /\ peer[m.src[1]] = Port(p)
                             /\ outcome[m.src[1]] # "denied"
         /\ \A q \in Procs : (pc[q] = "fsm" /\ m.src = Port(q)) => Meet(p, q)
  <1>1. m.dst = Port(p) /\ pc[p] = "fsm" /\ m.dst[1] = p
    BY DEF Waiting, Port
  <1>2. p \in Children => m.src[1] \in Clients
    BY <1>1 DEF CopyInv, Parties
  <1>3. p \in Clients => m.src[1] \in Children /\ peer[m.src[1]] = Port(p)
    BY <1>1, ConstAssumption DEF CopyInv, Parties
  <1>4. p \in Clients => outcome[m.src[1]] # "denied"
    BY <1>3 DEF TalkInv, Conversation
  <1> QED
    BY <1>1, <1>2, <1>3, <1>4, Heard

\* The shapes that send a block or an ACK.
LEMMA SpeakingShapes ==
  ASSUME TypeInv, CopyInv, TalkInv
  PROVE  /\ \A p \in Procs, m \in net, n \in Nat :
              GoesOn(p, m, n) \/ Gets(p, m, n) => TalkInv'
         /\ \A p \in Procs, m \in net : SendsNext(p, m) => TalkInv'
         /\ \A ch \in Children, f \in Files :
              ServesRead(ch, f) \/ ServesWrite(ch, f) => TalkInv'
  <1>0. /\ OP_DATA \notin {OP_RRQ, OP_WRQ, OP_ACK} /\ OP_ACK \notin {OP_RRQ, OP_WRQ}
        /\ \A ch \in Children : ch \notin Clients
    BY ConstAssumption DEF OP_DATA, OP_ACK, OP_RRQ, OP_WRQ
  <1>1. ASSUME NEW p \in Procs, NEW m \in net, NEW n \in Nat,
               GoesOn(p, m, n) \/ Gets(p, m, n)
        PROVE  TalkInv'
    <2> DEFINE a == Msg(Port(p), m.src, ACK(n))
    <2>1. Acknowledges(p, m, n) /\ pc[p] = "fsm" /\ Waiting(p, m) /\ IsData(m.pkt)
          /\ (p \in Children => m.src = peer[p]) /\ Receiving(p)
      BY <1>1 DEF GoesOn, Gets, Acknowledges, Waiting
    <2>2. a.src = Port(p) /\ a.dst = m.src /\ IsAck(a.pkt) /\ ~IsData(a.pkt)
      BY <1>0 DEF Msg, ACK, IsAck, IsData
    <2>3. \/ pc'[p] = "fsm" /\ outcome'[p] = outcome[p]
          \/ Outside(p)' /\ outcome'[p] # "denied"
      BY <1>1 DEF GoesOn, Gets
    <2>4. ~Sending(p)' /\ ~Sending(p)
      BY <1>0, <2>1, InLoop DEF Acknowledges, Sending
    <2>5. \A q \in Procs : (pc[q] = "fsm" /\ m.src = Port(q)) => Sending(q)
      BY <2>1, TakesFromOther DEF Meet
    <2>6. /\ p \in Children => m.src[1] \in Clients
          /\ p \in Clients => /\ m.src[1] \in Children /\ peer[m.src[1]] = Port(p)
                              /\ outcome[m.src[1]] # "denied"
      BY <2>1, TakesFromOther
    <2>7. /\ RestKeeps(p) /\ sock'[p] = sock[p] /\ UNCHANGED recvbuff /\ Adds(a)
          /\ op_sent'[p] = OP_ACK /\ peer'[p] = m.src
      BY <2>1 DEF Acknowledges
    <2> HIDE DEF a
    <2>8. Speaks(p, a)
      BY <2>1, <2>2, <2>3, <2>4, <2>5, <2>6, <2>7 DEF Speaks
    <2> QED
      BY <2>8, SpeaksTalk
  <1>2. ASSUME NEW p \in Procs, NEW m \in net, SendsNext(p, m)
        PROVE  TalkInv'
    <2>1. PICK d : IsData(d) /\ Adds(Msg(Port(p), m.src, d))
      BY <1>2 DEF SendsNext
    <2> DEFINE a == Msg(Port(p), m.src, d)
    <2>2. a.src = Port(p) /\ a.dst = m.src /\ IsData(a.pkt) /\ Adds(a)
      BY <2>1 DEF Msg
    <2>3. /\ pc[p] = "fsm" /\ Waiting(p, m) /\ IsAck(m.pkt) /\ Sending(p)
          /\ p \in Children => m.src = peer[p]
          /\ RestKeeps(p) /\ sock'[p] = sock[p] /\ UNCHANGED recvbuff
          /\ op_sent'[p] = OP_DATA /\ peer'[p] = m.src
          /\ pc'[p] = "fsm" /\ outcome'[p] = outcome[p]
      BY <1>2 DEF SendsNext, Confirmed, Waiting
    <2>4. Sending(p)'
      BY <2>3 DEF Sending
    <2>5. \A q \in Procs : (pc[q] = "fsm" /\ m.src = Port(q)) => Receiving(q)
      BY <2>3, TakesFromOther DEF Meet
    <2>6. /\ p \in Children => m.src[1] \in Clients
          /\ p \in Clients => /\ m.src[1] \in Children /\ peer[m.src[1]] = Port(p)
                              /\ outcome[m.src[1]] # "denied"
      BY <2>3, TakesFromOther
    <2> HIDE DEF a
    <2>7. Speaks(p, a)
      BY <2>2, <2>3, <2>4, <2>5, <2>6 DEF Speaks
    <2> QED
      BY <2>7, SpeaksTalk
  <1>3. ASSUME NEW ch \in Children, NEW f \in Files,
               ServesRead(ch, f) \/ ServesWrite(ch, f)
        PROVE  TalkInv'
    <2>1. PICK a : /\ a.src = Port(ch) /\ a.dst = peer[ch] /\ Adds(a)
                   /\ \/ ServesRead(ch, f) /\ IsData(a.pkt)
                      \/ ServesWrite(ch, f) /\ IsAck(a.pkt) /\ ~IsData(a.pkt)
      <3>1. CASE ServesRead(ch, f)
        <4>1. PICK d : IsData(d) /\ Adds(Msg(Port(ch), peer[ch], d))
          BY <3>1 DEF ServesRead
        <4> QED
          BY <3>1, <4>1 DEF Msg
      <3>2. CASE ServesWrite(ch, f)
        <4>1. Adds(Msg(Port(ch), peer[ch], ACK(0)))
          BY <3>2 DEF ServesWrite
        <4> QED
          BY <1>0, <3>2, <4>1 DEF Msg, ACK, IsAck, IsData
      <3> QED
        BY <1>3, <3>1, <3>2
    <2>2. /\ ch \in Procs /\ pc[ch] = "start" /\ pc'[ch] = "fsm" /\ peer'[ch] = peer[ch]
          /\ outcome'[ch] = outcome[ch] /\ sock'[ch] = sock[ch] /\ RestKeeps(ch)
          /\ UNCHANGED recvbuff /\ peer[ch][1] \in Clients
          /\ recvbuff[ch].op \in {OP_RRQ, OP_WRQ}
          /\ ServesRead(ch, f) => recvbuff[ch].op = OP_RRQ /\ op_sent'[ch] = OP_DATA
          /\ ServesWrite(ch, f) => recvbuff[ch].op = OP_WRQ /\ op_sent'[ch] = OP_ACK
      BY <1>3 DEF ServesRead, ServesWrite, Serves, Asked
    <2>3. ASSUME NEW q \in Procs, pc[q] = "fsm", peer[ch] = Port(q)
          PROVE  IF IsData(a.pkt) THEN Receiving(q) ELSE Sending(q)
      <3>1. q \in Clients
        BY <2>2, <2>3 DEF Port
      <3>2. recvbuff[ch].op = OP_WRQ <=> Sending(q)
        BY <2>2, <2>3, <3>1 DEF TalkInv, Roles, IsRequest
      <3>3. OP_RRQ # OP_WRQ
        BY DEF OP_RRQ, OP_WRQ
      <3> QED
        BY <2>1, <2>2, <2>3, <3>2, <3>3, InLoop
    <2>4. \/ IsData(a.pkt) /\ op_sent'[ch] = OP_DATA
          \/ IsAck(a.pkt) /\ op_sent'[ch] = OP_ACK
      BY <2>1, <2>2
    <2>5. Speaks(ch, a)
      BY <1>0, <2>1, <2>2, <2>3, <2>4 DEF Speaks
    <2> QED
      BY <2>2, <2>5, SpeaksTalk
  <1> QED
    BY <1>1, <1>2, <1>3

-----------------------------------------------------------------------------
(* Steps that send no new block or ACK. *)

\* q leaves fsm_loop() or stays out of it.
Leaves(q) ==
  /\ Outside(q)' /\ sock'[q] = sock[q]
  /\ q \in Children => /\ peer'[q] = peer[q]
                       /\ outcome'[q] # "denied" \/ pc[q] = "start"

\* Processes at most leave, and what is sent is a client's request once more or
\* an error.
Fades ==
  /\ \A q \in Procs : Keeps(q) \/ Leaves(q)
  /\ recvbuff' = recvbuff
  /\ \A x \in net' :
       \/ x \in net
       \/ ~IsData(x.pkt) /\ ~IsAck(x.pkt) /\ ~IsRequest(x.pkt)
       \/ /\ ~IsData(x.pkt) /\ ~IsAck(x.pkt)
          /\ \A c \in Clients : x.src = Port(c) => x.pkt.op = op_sent[c]

\* Such a step keeps TalkInv.
LEMMA FadesTalk ==
  ASSUME TypeInv, CopyInv, TalkInv, Fades
  PROVE  TalkInv'
  <1>1. /\ Children \subseteq Procs /\ Clients \subseteq Procs
        /\ \A q \in Children : q \notin Clients
    BY ConstAssumption DEF Procs
  <1>2. /\ \A q \in Procs : Port(q)' = Port(q)
        /\ \A q \in Procs : pc'[q] \in {"fsm", "start"} => Same(q) /\ pc[q] = pc'[q]
        /\ \A ch \in Children : pc'[ch] \in {"fsm", "start", "idle"} => Same(ch)
        /\ \A ch \in Children : peer'[ch] = peer[ch]
        /\ \A x \in net' : (IsData(x.pkt) \/ IsAck(x.pkt)) => x \in net
        /\ recvbuff' = recvbuff
    BY <1>1 DEF Fades, Keeps, Same, Leaves, Outside, Port
  <1>3. \A ch \in Children : (outcome[ch] # "denied" /\ pc[ch] # "start") => outcome'[ch] # "denied"
    BY <1>1 DEF Fades, Keeps, Same, Leaves
  <1>4. Unused'
    <2>1. \A ch \in Children : pc'[ch] # "exit" => Same(ch)
      BY <1>1 DEF Fades, Keeps, Leaves, Outside
    <2> QED
      BY <1>2, <2>1 DEF TalkInv, Unused, Same
  <1>5. Answered'
    <2> SUFFICES ASSUME NEW c \in Clients, pc'[c] = "fsm"
                 PROVE  \/ op_sent'[c] \in {OP_RRQ, OP_WRQ} /\ recv_first'[c]
                        \/ /\ op_sent'[c] \in {OP_DATA, OP_ACK}
                           /\ peer'[peer'[c][1]] = Port(c)
                           /\ outcome'[peer'[c][1]] # "denied"
      BY <1>1, <1>2 DEF Answered
    <2>1. Same(c) /\ pc[c] = "fsm" /\ c \in Procs
      BY <1>1, <1>2
    <2>2. CASE op_sent[c] \in {OP_RRQ, OP_WRQ} /\ recv_first[c]
      BY <2>1, <2>2 DEF Same
    <2>3. CASE /\ op_sent[c] \in {OP_DATA, OP_ACK}
               /\ peer[peer[c][1]] = Port(c)
               /\ outcome[peer[c][1]] # "denied"
      <3>1. op_sent[c] \notin {OP_RRQ, OP_WRQ}
        BY <2>3 DEF OP_DATA, OP_ACK, OP_RRQ, OP_WRQ
      <3>2. peer[c][1] \in Children
        BY <2>1, <3>1 DEF CopyInv, Parties
      <3>3. peer[c] = Port(peer[c][1])
        BY <2>1, <3>2, ChildPort, NamedPorts DEF CopyInv, PortsBound
      <3>4. pc[peer[c][1]] # "start"
        BY <2>1, <3>2, <3>3 DEF CopyInv, StartSilent
      <3> QED
        BY <1>2, <1>3, <2>1, <2>3, <3>2, <3>4 DEF Same
    <2> QED
      BY <2>1, <2>2, <2>3 DEF TalkInv, Answered
  <1>6. Conversation'
    <2> SUFFICES ASSUME NEW x \in net', IsData(x.pkt) \/ IsAck(x.pkt)
                 PROVE  IF x.src[1] \in Children THEN outcome'[x.src[1]] # "denied"
                                                 ELSE x.src = peer'[x.dst[1]]
      BY DEF Conversation
    <2>1. x \in net
      BY <1>2
    <2>2. CASE x.src[1] \in Children
      <3>1. x.src = Port(x.src[1])
        BY <2>1, <2>2, ChildPort, NamedPorts DEF CopyInv, PortsBound
      <3>2. pc[x.src[1]] # "start"
        BY <2>1, <2>2, <3>1 DEF CopyInv, StartSilent
      <3> QED
        BY <1>3, <2>1, <2>2, <3>2 DEF TalkInv, Conversation
    <2>3. CASE x.src[1] \notin Children
      BY <1>2, <2>1, <2>3 DEF CopyInv, Parties, TalkInv, Conversation
    <2> QED
      BY <2>2, <2>3
  <1>7. Roles'
    <2>0. \A q \in Procs : pc'[q] = "fsm" =>
             /\ pc[q] = "fsm" /\ peer'[q] = peer[q] /\ Port(q)' = Port(q)
             /\ op_sent'[q] = op_sent[q]
             /\ (Sending(q)' <=> Sending(q)) /\ (Receiving(q)' <=> Receiving(q))
      BY <1>2 DEF Same, Sending, Receiving
    <2>1. ASSUME NEW x \in net', NEW c \in Clients, IsRequest(x.pkt), pc'[c] = "fsm",
                 x.src = Port(c)
          PROVE  x.pkt.op = OP_WRQ <=> Sending(c)'
      <3>1. CASE x \in net
        BY <1>1, <2>0, <2>1, <3>1 DEF TalkInv, Roles
      <3>2. CASE x \notin net
        <4>1. x.pkt.op = op_sent[c]
          BY <2>1, <3>2 DEF Fades
        <4> QED
          BY <1>1, <2>0, <2>1, <4>1 DEF Sending, IsRequest, OP_RRQ, OP_WRQ, OP_DATA
      <3> QED
        BY <3>1, <3>2
    <2>2. ASSUME NEW ch \in Children, NEW c \in Clients, pc'[ch] = "start",
                 IsRequest(recvbuff[ch]), pc'[c] = "fsm", peer'[ch] = Port(c)
          PROVE  recvbuff[ch].op = OP_WRQ <=> Sending(c)'
      BY <1>1, <1>2, <2>0, <2>2 DEF TalkInv, Roles, Same
    <2>3. ASSUME NEW ch \in Children, NEW c \in Clients, pc'[ch] = "fsm", pc'[c] = "fsm",
                 peer'[ch] = Port(c)
          PROVE  Receiving(ch)' <=> Sending(c)'
      BY <1>1, <2>0, <2>3 DEF TalkInv, Roles
    <2>4. ASSUME NEW x \in net', NEW q \in Procs, pc'[q] = "fsm", x.dst = Port(q)
          PROVE  (IsData(x.pkt) => Receiving(q)') /\ (IsAck(x.pkt) => Sending(q)')
      BY <1>2, <2>0, <2>4 DEF TalkInv, Roles
    <2> QED
      BY <1>1, <1>2, <2>1, <2>2, <2>3, <2>4 DEF Roles
  <1> QED
    BY <1>4, <1>5, <1>6, <1>7 DEF TalkInv

\* The shapes that send no new block or ACK, and no first request.
LEMMA FadingShapes ==
  ASSUME TypeInv, CopyInv, TalkInv
  PROVE  /\ Idles => TalkInv'
         /\ \A p \in Procs, why \in Outcomes : Fails(p, why) => TalkInv'
         /\ \A p \in Procs, m \in net : IsSent(p, m) => TalkInv'
         /\ \A c \in Clients, f \in Files : OpensOnly(c, f) => TalkInv'
  <1>1. ASSUME Idles PROVE TalkInv'
    <2>1. \A x \in net' : x \in net \/ (~IsData(x.pkt) /\ ~IsAck(x.pkt) /\ ~IsRequest(x.pkt))
      BY <1>1 DEF Idles, IsData, IsAck, IsRequest, OP_RRQ, OP_WRQ, OP_DATA, OP_ACK, OP_ERROR
    <2> QED
      BY <1>1, <2>1, FadesTalk DEF Idles, Fades
  <1>2. ASSUME NEW p \in Procs, NEW why \in Outcomes, Fails(p, why) PROVE TalkInv'
    <2>1. ERROR.op = OP_ERROR
      BY DEF ERROR
    <2>2. \A x \in net' : x \in net \/ (~IsData(x.pkt) /\ ~IsAck(x.pkt) /\ ~IsRequest(x.pkt))
      BY <1>2, <2>1 DEF Fails, Msg, IsData, IsAck, IsRequest, OP_RRQ, OP_WRQ, OP_DATA,
                        OP_ACK, OP_ERROR
    <2>3. Leaves(p)
      BY <1>2 DEF Fails, Leaves, Reason
    <2> QED
      BY <1>2, <2>2, <2>3, FadesTalk DEF Fails, RestKeeps, Fades
  <1>3. ASSUME NEW p \in Procs, NEW m \in net, IsSent(p, m) PROVE TalkInv'
    <2>1. Leaves(p)
      BY <1>3 DEF IsSent, Confirmed, Leaves
    <2> QED
      BY <1>3, <2>1, FadesTalk DEF IsSent, Confirmed, RestKeeps, Fades
  <1>4. ASSUME NEW c \in Clients, NEW f \in Files, OpensOnly(c, f) PROVE TalkInv'
    <2>1. c \in Procs /\ c \notin Children
      BY ConstAssumption DEF Procs
    <2>2. Leaves(c)
      BY <1>4, <2>1 DEF OpensOnly, Opens, Leaves, Outside
    <2> QED
      BY <1>4, <2>1, <2>2, FadesTalk DEF OpensOnly, Opens, RestKeeps, Fades
  <1> QED
    BY <1>1, <1>2, <1>3, <1>4

\* A retransmission.
LEMMA ResendsTalk ==
  ASSUME TypeInv, CopyInv, TalkInv, NEW p \in Procs, Resends(p)
  PROVE  TalkInv'
  <1> DEFINE a == Msg(Port(p), peer[p], sendbuff[p])
  <1>1. pc[p] = "fsm" /\ a.pkt.op = op_sent[p] /\ a.src = Port(p) /\ a.dst = peer[p]
    BY DEF Resends, CopyInv, LastSent, Msg
  <1>2. /\ \A q \in Procs : Keeps(q)
        /\ recvbuff' = recvbuff /\ Adds(a)
    BY DEF Resends
  <1> HIDE DEF a
  <1>3. CASE op_sent[p] \in {OP_RRQ, OP_WRQ}
    <2>1. ~IsData(a.pkt) /\ ~IsAck(a.pkt)
      BY <1>1, <1>3 DEF IsData, IsAck, OP_DATA, OP_ACK, OP_RRQ, OP_WRQ
    <2>2. \A c \in Clients : a.src = Port(c) => a.pkt.op = op_sent[c]
      BY <1>1, PortsDiffer
    <2> QED
      BY <1>2, <2>1, <2>2, FadesTalk DEF Fades, Adds
  <1>4. CASE op_sent[p] \in {OP_DATA, OP_ACK}
    <2>1. \A q \in Procs : (pc[q] = "fsm" /\ a.dst = Port(q)) =>
             IF IsData(a.pkt) THEN Receiving(q) ELSE Sending(q)
      <3> SUFFICES ASSUME NEW q \in Procs, pc[q] = "fsm", a.dst = Port(q)
                   PROVE  IF IsData(a.pkt) THEN Receiving(q) ELSE Sending(q)
        OBVIOUS
      <3>1. Meet(p, q)
        BY <1>1, <1>4, Answers
      <3> QED
        BY <1>1, <1>4, <3>1 DEF Meet, Sending, Receiving, IsData
    <2>2. p \in Children => peer[p][1] \in Clients
      BY <1>1 DEF CopyInv, Parties
    <2>3. p \in Clients => /\ peer[p][1] \in Children
                           /\ peer[peer[p][1]] = Port(p) /\ outcome[peer[p][1]] # "denied"
      <3>1. op_sent[p] \notin {OP_RRQ, OP_WRQ}
        BY <1>4 DEF OP_DATA, OP_ACK, OP_RRQ, OP_WRQ
      <3> QED
        BY <1>1, <3>1 DEF CopyInv, Parties, TalkInv, Answered
    <2>4. /\ pc'[p] = "fsm" /\ outcome'[p] = outcome[p] /\ peer'[p] = peer[p]
          /\ op_sent'[p] = op_sent[p] /\ sock'[p] = sock[p] /\ RestKeeps(p)
      BY <1>1, <1>2 DEF Keeps, Same, RestKeeps
    <2>5. Speaks(p, a)
      BY <1>1, <1>2, <1>4, <2>1, <2>2, <2>3, <2>4
         DEF Speaks, IsData, IsAck, Sending
    <2> QED
      BY <2>5, SpeaksTalk
  <1> QED
    BY <1>1, <1>3, <1>4, InLoop

\* Nobody has heard of the port a client will bind next.
LEMMA FreshPort ==
  ASSUME TypeInv, CopyInv, NEW c \in Clients
  PROVE  /\ \A m \in net : m.src # <<c, sock[c] + 1>> /\ m.dst # <<c, sock[c] + 1>>
         /\ \A q \in Procs : peer[q] # <<c, sock[c] + 1>>
  <1>1. c \in Procs /\ sock[c] \in Nat
    BY Domains DEF Procs
  <1>2. ~Bound(<<c, sock[c] + 1>>)
    BY <1>1 DEF Bound
  <1> QED
    BY <1>2 DEF CopyInv, PortsBound

\* A first request, from a new port.
LEMMA RequestTalk ==
  ASSUME TypeInv, CopyInv, TalkInv, NEW c \in Clients, NEW f, NEW op, SendsRequest(c, f, op)
  PROVE  TalkInv'
  <1> DEFINE a == Msg(<<c, sock[c] + 1>>, WellKnown, RQ(op, f))
  <1>1. /\ Children \subseteq Procs /\ Clients \subseteq Procs
        /\ \A q \in Children : q \notin Clients
    BY ConstAssumption DEF Procs
  <1>2. /\ pc[c] = "idle" /\ pc'[c] = "fsm" /\ op_sent'[c] = op /\ op \in {OP_RRQ, OP_WRQ}
        /\ recv_first'[c] /\ peer'[c] = WellKnown
        /\ \A q \in Procs : q # c => Same(q) /\ Port(q)' = Port(q)
        /\ recvbuff' = recvbuff
        /\ Port(c)' = <<c, sock[c] + 1>>
        /\ \A x \in net' : x \in net \/ x = a
    BY DEF SendsRequest, Opens, RestKeeps, Keeps, Adds, Port
  <1>3. a.src = Port(c)' /\ a.dst = WellKnown /\ a.pkt.op = op
    BY <1>2 DEF Msg, RQ
  <1> HIDE DEF a
  <1>4. ~IsData(a.pkt) /\ ~IsAck(a.pkt)
    BY <1>2, <1>3 DEF IsData, IsAck, OP_RRQ, OP_WRQ, OP_DATA, OP_ACK
  <1>5. \A ch \in Children : Same(ch)
    BY <1>1, <1>2
  <1>6. Unused'
    BY <1>5 DEF TalkInv, Unused, Same
  <1>7. Answered'
    <2> SUFFICES ASSUME NEW d \in Clients, d # c, pc'[d] = "fsm"
                 PROVE  \/ op_sent'[d] \in {OP_RRQ, OP_WRQ} /\ recv_first'[d]
                        \/ /\ op_sent'[d] \in {OP_DATA, OP_ACK}
                           /\ peer'[peer'[d][1]] = Port(d)'
                           /\ outcome'[peer'[d][1]] # "denied"
      BY <1>2 DEF Answered
    <2>1. Same(d) /\ Port(d)' = Port(d) /\ pc[d] = "fsm"
      BY <1>1, <1>2 DEF Same
    <2>2. op_sent[d] \notin {OP_RRQ, OP_WRQ} => peer[d][1] \in Children
      BY <2>1 DEF CopyInv, Parties
    <2>3. op_sent[d] \in {OP_DATA, OP_ACK} => op_sent[d] \notin {OP_RRQ, OP_WRQ}
      BY DEF OP_RRQ, OP_WRQ, OP_DATA, OP_ACK
    <2> QED
      BY <1>5, <2>1, <2>2, <2>3 DEF TalkInv, Answered, Same
  <1>8. Conversation'
    BY <1>1, <1>2, <1>4, <1>5 DEF CopyInv, Parties, TalkInv, Conversation, Same
  <1>9. Roles'
    <2>0. \A q \in Procs : (pc'[q] = "fsm" /\ q # c) =>
             /\ pc[q] = "fsm" /\ peer'[q] = peer[q] /\ Port(q)' = Port(q)
             /\ (Sending(q)' <=> Sending(q)) /\ (Receiving(q)' <=> Receiving(q))
      BY <1>2 DEF Same, Sending, Receiving
    <2>1. ASSUME NEW x \in net', NEW d \in Clients, IsRequest(x.pkt), pc'[d] = "fsm",
                 x.src = Port(d)'
          PROVE  x.pkt.op = OP_WRQ <=> Sending(d)'
      <3>1. CASE d = c
        <4>1. x = a
          BY <1>2, <2>1, <3>1, FreshPort
        <4> QED
          BY <1>2, <1>3, <3>1, <4>1 DEF Sending, OP_RRQ, OP_WRQ, OP_DATA
      <3>2. CASE d # c
        <4>1. x # a
          BY <1>1, <1>2, <1>3, <2>1, <3>2 DEF Port
        <4> QED
          BY <1>1, <1>2, <2>0, <2>1, <3>2, <4>1 DEF TalkInv, Roles
      <3> QED
        BY <3>1, <3>2
    <2>2. ASSUME NEW ch \in Children, NEW d \in Clients, pc'[ch] = "start",
                 IsRequest(recvbuff[ch]), pc'[d] = "fsm", peer'[ch] = Port(d)'
          PROVE  recvbuff[ch].op = OP_WRQ <=> Sending(d)'
      <3>1. d # c
        BY <1>1, <1>2, <1>5, <2>2, FreshPort DEF Same
      <3> QED
        BY <1>1, <1>5, <2>0, <2>2, <3>1 DEF TalkInv, Roles, Same
    <2>3. ASSUME NEW ch \in Children, NEW d \in Clients, pc'[ch] = "fsm", pc'[d] = "fsm",
                 peer'[ch] = Port(d)'
          PROVE  Receiving(ch)' <=> Sending(d)'
      <3>1. d # c
        BY <1>1, <1>2, <1>5, <2>3, FreshPort DEF Same
      <3> QED
        BY <1>1, <1>5, <2>0, <2>3, <3>1 DEF TalkInv, Roles, Same
    <2>4. ASSUME NEW x \in net', NEW q \in Procs, pc'[q] = "fsm", x.dst = Port(q)'
          PROVE  (IsData(x.pkt) => Receiving(q)') /\ (IsAck(x.pkt) => Sending(q)')
      <3>1. CASE x = a
        BY <1>4, <3>1
      <3>2. CASE x \in net
        <4>1. q # c
          BY <1>2, <2>4, <3>2, FreshPort
        <4> QED
          BY <2>0, <2>4, <3>2, <4>1 DEF TalkInv, Roles
      <3> QED
        BY <1>2, <3>1, <3>2
    <2> QED
      BY <1>2, <2>1, <2>2, <2>3, <2>4 DEF Roles
  <1> QED
    BY <1>6, <1>7, <1>8, <1>9 DEF TalkInv

\* The parent server forks a child for a datagram.
LEMMA ForkTalk ==
  ASSUME TypeInv, CopyInv, TalkInv, NEW ch \in Children, NEW m \in net, Forks(ch, m)
  PROVE  TalkInv'
  <1>1. /\ Children \subseteq Procs /\ Clients \subseteq Procs
        /\ \A q \in Children : q \notin Clients
    BY ConstAssumption DEF Procs
  <1>2. /\ pc[ch] = "idle" /\ pc'[ch] = "start" /\ peer'[ch] = m.src
        /\ op_sent'[ch] = op_sent[ch] /\ outcome'[ch] = outcome[ch]
        /\ written'[ch] = written[ch]
        /\ \A q \in Procs : q # ch => Same(q) /\ Port(q)' = Port(q)
        /\ \A q \in Children : q # ch => recvbuff'[q] = recvbuff[q]
        /\ recvbuff'[ch] = m.pkt
        /\ net' \subseteq net
    BY Domains DEF Forks, RestKeeps, Keeps, Port
  <1>3. \A x \in net : x.src[1] # ch /\ x.dst[1] # ch
    <2>1. \A port : Bound(port) => port[1] # ch
      BY <1>1, <1>2 DEF CopyInv, PortsBound, Bound
    <2> QED
      BY <2>1 DEF CopyInv, PortsBound
  <1>4. \A q \in Procs : peer[q][1] # ch
    BY <1>1, <1>2 DEF CopyInv, PortsBound, Bound
  <1>5. Unused'
    BY <1>1, <1>2 DEF TalkInv, Unused, Same
  <1>6. Answered'
    BY <1>1, <1>2, <1>4 DEF CopyInv, Parties, TalkInv, Answered, Same,
                             OP_RRQ, OP_WRQ, OP_DATA, OP_ACK
  <1>7. Conversation'
    BY <1>1, <1>2, <1>3 DEF CopyInv, Parties, TalkInv, Conversation, Same
  <1>8. Roles'
    <2>0. \A q \in Procs : pc'[q] = "fsm" =>
             /\ q # ch /\ pc[q] = "fsm" /\ peer'[q] = peer[q] /\ Port(q)' = Port(q)
             /\ (Sending(q)' <=> Sending(q)) /\ (Receiving(q)' <=> Receiving(q))
      BY <1>2 DEF Same, Sending, Receiving
    <2>1. ASSUME NEW d \in Children, NEW c \in Clients, pc'[d] = "start",
                 IsRequest(recvbuff'[d]), pc'[c] = "fsm", peer'[d] = Port(c)
          PROVE  recvbuff'[d].op = OP_WRQ <=> Sending(c)'
      <3>1. CASE d = ch
        BY <1>1, <1>2, <2>0, <2>1, <3>1 DEF TalkInv, Roles
      <3>2. CASE d # ch
        BY <1>1, <1>2, <2>0, <2>1, <3>2 DEF TalkInv, Roles, Same
      <3> QED
        BY <3>1, <3>2
    <2>2. \A x \in net', c \in Clients :
            (IsRequest(x.pkt) /\ pc'[c] = "fsm" /\ x.src = Port(c)')
              => (x.pkt.op = OP_WRQ <=> Sending(c)')
      BY <1>1, <1>2, <2>0 DEF TalkInv, Roles
    <2>3. \A d \in Children, c \in Clients :
            (pc'[d] = "fsm" /\ pc'[c] = "fsm" /\ peer'[d] = Port(c)')
              => (Receiving(d)' <=> Sending(c)')
      BY <1>1, <2>0 DEF TalkInv, Roles
    <2>4. \A x \in net', q \in Procs : (pc'[q] = "fsm" /\ x.dst = Port(q)') =>
            (IsData(x.pkt) => Receiving(q)') /\ (IsAck(x.pkt) => Sending(q)')
      BY <1>2, <2>0 DEF TalkInv, Roles
    <2> QED
      BY <1>1, <2>0, <2>1, <2>2, <2>3, <2>4 DEF Roles
  <1> QED
    BY <1>5, <1>6, <1>7, <1>8 DEF TalkInv

\* TalkInv holds initially, and every step keeps it.
LEMMA TalkInit == Init => TalkInv
  <1> SUFFICES ASSUME Init PROVE TalkInv
    OBVIOUS
  <1>1. \A p \in Procs : pc[p] = "idle" /\ outcome[p] = "none" /\ peer[p] = WellKnown
                         /\ op_sent[p] = 0 /\ written[p] = <<>>
    BY ConstAssumption DEF Init
  <1>2. net = {}
    BY DEF Init
  <1> QED
    BY <1>1, <1>2 DEF TalkInv, Unused, Answered, Conversation, Roles, Procs

(* Every step of the program preserves it. *)
LEMMA TalkNext ==
  ASSUME TypeInv, FileOpen, CopyInv, ReceiverComplete', TalkInv, [Next]_vars
  PROVE  TalkInv'
  <1>1. Shaped
    BY Shapes
  <1> QED
    BY <1>1, FadingShapes, SpeakingShapes, ResendsTalk, RequestTalk, ForkTalk DEF Shaped

-----------------------------------------------------------------------------
(* What the sender of a file knows: what has happened stays so. *)

\* A process that has exited does nothing; no completed get is forgotten.
LEMMA Settled ==
  ASSUME TypeInv, Shaped
  PROVE  /\ \A q \in Procs : pc[q] = "exit" => Keeps(q)
         /\ finished \subseteq finished'
  <1>1. Children \subseteq Procs /\ Clients \subseteq Procs
    BY DEF Procs
  <1>2. CASE Idles
    BY <1>2 DEF Idles
  <1>3. ASSUME NEW p \in Procs, NEW why \in Outcomes, Fails(p, why)
        PROVE  (\A q \in Procs : pc[q] = "exit" => Keeps(q)) /\ finished \subseteq finished'
    BY <1>3 DEF Fails, RestKeeps
  <1>4. ASSUME NEW p \in Procs, NEW m \in net, NEW n \in Nat, GoesOn(p, m, n) \/ Gets(p, m, n)
        PROVE  (\A q \in Procs : pc[q] = "exit" => Keeps(q)) /\ finished \subseteq finished'
    BY <1>4 DEF GoesOn, Gets, Acknowledges, Waiting, RestKeeps
  <1>5. ASSUME NEW p \in Procs, NEW m \in net, SendsNext(p, m) \/ IsSent(p, m)
        PROVE  (\A q \in Procs : pc[q] = "exit" => Keeps(q)) /\ finished \subseteq finished'
    BY <1>5 DEF SendsNext, IsSent, Confirmed, Waiting, RestKeeps
  <1>6. ASSUME NEW p \in Procs, Resends(p)
        PROVE  (\A q \in Procs : pc[q] = "exit" => Keeps(q)) /\ finished \subseteq finished'
    BY <1>6 DEF Resends
  <1>7. ASSUME NEW c \in Clients, NEW f \in Files, Opens(c, f)
        PROVE  (\A q \in Procs : pc[q] = "exit" => Keeps(q)) /\ finished \subseteq finished'
    BY <1>7 DEF Opens, RestKeeps
  <1>8. ASSUME NEW ch \in Children, NEW m \in net, Forks(ch, m)
        PROVE  (\A q \in Procs : pc[q] = "exit" => Keeps(q)) /\ finished \subseteq finished'
    BY <1>8 DEF Forks, RestKeeps
  <1>9. ASSUME NEW ch \in Children, NEW f \in Files, Serves(ch, f)
        PROVE  (\A q \in Procs : pc[q] = "exit" => Keeps(q)) /\ finished \subseteq finished'
    BY <1>9 DEF Serves, Asked, RestKeeps
  <1> QED
    BY <1>2, <1>3, <1>4, <1>5, <1>6, <1>7, <1>8, <1>9
       DEF Shaped, OpensOnly, SendsRequest, ServesRead, ServesWrite

\* A copy that has been received stays received.
LEMMA CopyKept ==
  ASSUME TypeInv, CopyInv, Shaped, NEW s \in Procs, NEW port,
         localfp'[s] = localfp[s], HasCopy(s, port)
  PROVE  HasCopy(s, port)'
  <1>1. CASE s \in Children
    BY <1>1, Settled DEF HasCopy
  <1>2. CASE s \notin Children
    <2>1. port[1] \in Children /\ outcome[port[1]] = "got" /\ localfp[port[1]] = localfp[s]
      BY <1>2 DEF HasCopy
    <2>2. pc[port[1]] = "exit" /\ port[1] \in Procs
      BY <2>1, ConstAssumption DEF CopyInv, GotOutside, Procs
    <2>3. Keeps(port[1])
      BY <2>2, Settled
    <2> QED
      BY <1>2, <2>1, <2>3 DEF HasCopy, Keeps, Same
  <1> QED
    BY <1>1, <1>2

\* s was sending the same file, to the same port, and is no further back.
Continues(s) ==
  /\ InPut(s) /\ Port(s)' = Port(s)
  /\ localfp'[s] = localfp[s] /\ nextblknum'[s] >= nextblknum[s]

\* Nobody has heard of s, which begins to send.
Unheard(s) ==
  /\ \A x \in net : x.src # Port(s)' /\ x.dst # Port(s)'
  /\ \A r \in Procs : ActiveReceiver(r)' => peer'[r] # Port(s)'

\* What SendInv says of a datagram, of a receiver and of an ended sender.
DataOk(x) ==
  \A s \in Procs : (InPut(s)' /\ x.src = Port(s)') => x.pkt.data[2] <= nextblknum'[s]

AckOk(x) ==
  \A s \in Procs : (InPut(s)' /\ x.dst = Port(s)') =>
    /\ x.pkt.blk <= nextblknum'[s]
    /\ \/ x.pkt.blk <= NFull[localfp'[s]]
       \/ x.pkt.blk = NFull[localfp'[s]] + 1 /\ HasCopy(s, x.src)'

InStepOk(r) ==
  \A s \in Procs : (InPut(s)' /\ peer'[r] = Port(s)') => nextblknum'[r] <= nextblknum'[s] + 1

SentOk(s) ==
  /\ Outside(s)' /\ HasCopy(s, peer[s])'
  /\ s \in Clients => peer'[s] = Port(peer[s][1])'

Advances ==
  /\ \A s \in Procs : InPut(s)' => Continues(s) \/ Unheard(s)
  /\ \A x \in net' : x \in net \/ ((IsData(x.pkt) => DataOk(x)) /\ (IsAck(x.pkt) => AckOk(x)))
  /\ \A r \in Procs : ActiveReceiver(r)' =>
       \/ ActiveReceiver(r) /\ peer'[r] = peer[r] /\ nextblknum'[r] = nextblknum[r]
       \/ InStepOk(r)
  /\ \A s \in Procs : outcome'[s] = "sent" => Keeps(s) \/ SentOk(s)
  /\ \A p \in Procs : outcome'[p] \in {"got", "sent"} =>
       Keeps(p) \/ NFull[localfp'[p]] + 1 < BLKMOD

\* Such a step keeps SendInv.
LEMMA AdvancesSend ==
  ASSUME TypeInv, TypeInv', CopyInv, SendInv, Shaped, Advances
  PROVE  SendInv'
  <1>1. /\ nextblknum \in [Procs -> Nat]
        /\ \A p \in Procs : nextblknum'[p] \in Nat
    BY DEF TypeInv, TypeOK
  <1>2. DataSent'
    <2> SUFFICES ASSUME NEW x \in net', NEW s \in Procs, IsData(x.pkt), InPut(s)',
                        x.src = Port(s)'
                 PROVE  x.pkt.data[2] <= nextblknum'[s]
      BY DEF DataSent
    <2>1. CASE x \in net
      <3>1. Continues(s)
        BY <2>1 DEF Advances, Unheard
      <3>2. x.pkt.data[2] <= nextblknum[s] /\ x.pkt.data[2] \in Nat
        BY <2>1, <3>1, PacketNumbers DEF Continues, SendInv, DataSent
      <3> QED
        BY <1>1, <3>1, <3>2 DEF Continues
    <2>2. CASE x \notin net
      BY <2>2 DEF Advances, DataOk
    <2> QED
      BY <2>1, <2>2
  <1>3. InStep'
    <2> SUFFICES ASSUME NEW s \in Procs, NEW r \in Procs, InPut(s)', ActiveReceiver(r)',
                        peer'[r] = Port(s)'
                 PROVE  nextblknum'[r] <= nextblknum'[s] + 1
      BY DEF InStep
    <2>1. CASE ActiveReceiver(r) /\ peer'[r] = peer[r] /\ nextblknum'[r] = nextblknum[r]
      <3>1. Continues(s)
        BY DEF Advances, Unheard
      <3>2. nextblknum[r] <= nextblknum[s] + 1
        BY <2>1, <3>1 DEF Continues, SendInv, InStep
      <3> QED
        BY <1>1, <2>1, <3>1, <3>2 DEF Continues
    <2>2. CASE InStepOk(r)
      BY <2>2 DEF InStepOk
    <2> QED
      BY <2>1, <2>2 DEF Advances
  <1>4. AcksTrue'
    <2> SUFFICES ASSUME NEW x \in net', NEW s \in Procs, IsAck(x.pkt), InPut(s)',
                        x.dst = Port(s)'
                 PROVE  /\ x.pkt.blk <= nextblknum'[s]
                        /\ \/ x.pkt.blk <= NFull[localfp'[s]]
                           \/ x.pkt.blk = NFull[localfp'[s]] + 1 /\ HasCopy(s, x.src)'
      BY DEF AcksTrue
    <2>1. CASE x \in net
      <3>1. Continues(s)
        BY <2>1 DEF Advances, Unheard
      <3>2. /\ x.pkt.blk <= nextblknum[s] /\ x.pkt.blk \in Nat
            /\ \/ x.pkt.blk <= NFull[localfp[s]]
               \/ x.pkt.blk = NFull[localfp[s]] + 1 /\ HasCopy(s, x.src)
        BY <2>1, <3>1, PacketNumbers DEF Continues, SendInv, AcksTrue
      <3>3. HasCopy(s, x.src) => HasCopy(s, x.src)'
        BY <3>1, CopyKept DEF Continues
      <3>4. x.pkt.blk <= nextblknum'[s]
        BY <1>1, <3>1, <3>2 DEF Continues
      <3>5. localfp'[s] = localfp[s]
        BY <3>1 DEF Continues
      <3> QED
        BY <3>2, <3>3, <3>4, <3>5
    <2>2. CASE x \notin net
      BY <2>2 DEF Advances, AckOk
    <2> QED
      BY <2>1, <2>2
  <1>5. SentRight'
    <2> SUFFICES ASSUME NEW s \in Procs, outcome'[s] = "sent"
                 PROVE  /\ pc'[s] = "exit" \/ (s \in Clients /\ pc'[s] = "idle")
                        /\ HasCopy(s, peer[s])'
                        /\ s \in Clients => peer'[s] = Port(peer[s][1])'
      BY DEF SentRight
    <2>1. CASE Keeps(s)
      <3>1. /\ outcome[s] = "sent" /\ pc'[s] = pc[s] /\ peer'[s] = peer[s]
            /\ localfp'[s] = localfp[s]
        BY <2>1 DEF Keeps, Same
      <3>2. /\ pc[s] = "exit" \/ (s \in Clients /\ pc[s] = "idle")
            /\ HasCopy(s, peer[s])
            /\ s \in Clients => peer[s] = Port(peer[s][1])
        BY <3>1 DEF SendInv, SentRight
      <3>3. HasCopy(s, peer[s])'
        <4>1. \A port : HasCopy(s, port) => HasCopy(s, port)'
          BY <3>1, CopyKept
        <4> QED
          BY <3>1, <3>2, <4>1 DEF HasCopy
      <3>4. s \in Clients => sock'[peer[s][1]] = sock[peer[s][1]]
        <4> SUFFICES ASSUME s \in Clients
                     PROVE  sock'[peer[s][1]] = sock[peer[s][1]]
          OBVIOUS
        <4>1. peer[s][1] \in Children /\ outcome[peer[s][1]] = "got"
          BY <3>2, ConstAssumption DEF HasCopy
        <4>2. pc[peer[s][1]] = "exit" /\ peer[s][1] \in Procs
          BY <4>1, ConstAssumption DEF CopyInv, GotOutside, Procs
        <4> QED
          BY <4>2, Settled DEF Keeps
      <3> QED
        BY <3>1, <3>2, <3>3, <3>4 DEF Port
    <2>2. CASE SentOk(s)
      BY <2>2 DEF SentOk, Outside
    <2> QED
      BY <2>1, <2>2 DEF Advances
  <1>6. LongFilesNeverComplete'
    BY DEF Advances, SendInv, LongFilesNeverComplete, Keeps, Same
  <1> QED
    BY <1>2, <1>3, <1>4, <1>5, <1>6 DEF SendInv

\* Processes at most stop, and no block or ACK is sent.
LEMMA QuietAdvances ==
  ASSUME TypeInv, \A q \in Procs : Keeps(q) \/ (pc'[q] # "fsm" /\ outcome'[q] \notin {"got", "sent"}),
         \A x \in net' : x \in net \/ (~IsData(x.pkt) /\ ~IsAck(x.pkt))
  PROVE  Advances
  <1>1. \A q \in Procs : pc'[q] = "fsm" => Keeps(q)
    OBVIOUS
  <1>2. \A s \in Procs : InPut(s)' => Continues(s)
    <2> SUFFICES ASSUME NEW s \in Procs, InPut(s)'
                 PROVE  Continues(s)
      OBVIOUS
    <2>1. Keeps(s)
      BY <1>1 DEF InPut
    <2>2. nextblknum[s] \in Nat
      BY Domains
    <2> QED
      BY <2>1, <2>2 DEF Continues, InPut, Sending, Keeps, Same, Port
  <1>3. \A r \in Procs : ActiveReceiver(r)' =>
          ActiveReceiver(r) /\ peer'[r] = peer[r] /\ nextblknum'[r] = nextblknum[r]
    BY <1>1 DEF ActiveReceiver, Receiving, Keeps, Same
  <1> QED
    BY <1>2, <1>3 DEF Advances

(* Steps that send neither data nor acknowledgments leave the count behind
   every datagram as it is. *)
LEMMA QuietShapes ==
  ASSUME TypeInv, TypeInv', CopyInv, TalkInv, SendInv
  PROVE  /\ Idles => Advances
         /\ \A p \in Procs, why \in Outcomes : Fails(p, why) => Advances
         /\ \A c \in Clients, f \in Files : OpensOnly(c, f) => Advances
         /\ \A ch \in Children, m \in net : Forks(ch, m) => Advances
  <1>1. ASSUME Idles PROVE Advances
    <2>1. \A x \in net' : x \in net \/ (~IsData(x.pkt) /\ ~IsAck(x.pkt))
      BY <1>1 DEF Idles, IsData, IsAck, OP_DATA, OP_ACK, OP_ERROR
    <2> QED
      BY <1>1, <2>1, QuietAdvances DEF Idles
  <1>2. ASSUME NEW p \in Procs, NEW why \in Outcomes, Fails(p, why) PROVE Advances
    <2>1. ERROR.op = OP_ERROR
      BY DEF ERROR
    <2>2. \A x \in net' : x \in net \/ (~IsData(x.pkt) /\ ~IsAck(x.pkt))
      BY <1>2, <2>1 DEF Fails, Msg, IsData, IsAck, OP_DATA, OP_ACK, OP_ERROR
    <2>3. pc'[p] # "fsm" /\ outcome'[p] \notin {"got", "sent"}
      BY <1>2 DEF Fails, Outside
    <2> QED
      BY <1>2, <2>2, <2>3, QuietAdvances DEF Fails, RestKeeps
  <1>3. ASSUME NEW c \in Clients, NEW f \in Files, OpensOnly(c, f) PROVE Advances
    BY <1>3, QuietAdvances DEF OpensOnly, Opens, RestKeeps
  <1>4. ASSUME NEW ch \in Children, NEW m \in net, Forks(ch, m) PROVE Advances
    <2>1. outcome'[ch] = "none" /\ pc'[ch] = "start"
      BY <1>4 DEF Forks, TalkInv, Unused
    <2> QED
      BY <1>4, <2>1, QuietAdvances DEF Forks, RestKeeps
  <1> QED
    BY <1>1, <1>2, <1>3, <1>4

\* An end that does not move.
LEMMA Unmoved ==
  ASSUME TypeInv, NEW q \in Procs, Keeps(q)
  PROVE  /\ InPut(q)' => Continues(q)
         /\ InPut(q)' <=> InPut(q)
         /\ Port(q)' = Port(q)
         /\ ActiveReceiver(q)' =>
              ActiveReceiver(q) /\ peer'[q] = peer[q] /\ nextblknum'[q] = nextblknum[q]
  <1>1. nextblknum[q] \in Nat
    BY Domains
  <1> QED
    BY <1>1 DEF Continues, InPut, ActiveReceiver, Sending, Receiving, Keeps, Same, Port

\* A process that is in fsm_loop() has not completed its transfer.
LEMMA NotEnded ==
  ASSUME CopyInv, SendInv, NEW p \in Procs, pc[p] = "fsm"
  PROVE  outcome[p] \notin {"got", "sent"}
  BY DEF CopyInv, GotOutside, SendInv, SentRight

\* recv_DATA() acknowledges a block that the other end has sent.
LEMMA AckAdvances ==
  ASSUME TypeInv, TypeInv', FileOpen, CopyInv, TalkInv, SendInv, NEW p \in Procs, NEW m \in net,
         NEW n \in Nat, GoesOn(p, m, n) \/ Gets(p, m, n)
  PROVE  Advances
  <1>0. PICK a : a = Msg(Port(p), m.src, ACK(n))
    OBVIOUS
  <1>1. /\ Acknowledges(p, m, n) /\ Waiting(p, m) /\ IsData(m.pkt) /\ pc[p] = "fsm"
        /\ m.dst = Port(p) /\ (p \in Children => m.src = peer[p])
        /\ m.pkt.data[2] = n
        /\ peer'[p] = m.src /\ nextblknum'[p] = n + 1 /\ op_sent'[p] = OP_ACK
        /\ localfp'[p] = localfp[p] /\ sock'[p] = sock[p]
        /\ \A q \in Procs : q # p => Keeps(q)
        /\ \A x \in net' : x \in net \/ x = a
    BY <1>0 DEF GoesOn, Gets, Acknowledges, Waiting, RestKeeps, Adds
  <1>2. a.src = Port(p) /\ a.dst = m.src /\ ~IsData(a.pkt) /\ a.pkt.blk = n
    BY <1>0, <1>1 DEF Acknowledges, Msg, ACK, IsData, OP_ACK, OP_DATA
  <1>3. ~Sending(p)'
    BY <1>1 DEF Sending, OP_WRQ, OP_DATA, OP_ACK
  <1>4. \A s \in Procs : InPut(s)' => s # p /\ Continues(s) /\ InPut(s) /\ Keeps(s)
                                      /\ Port(s)' = Port(s)
    BY <1>1, <1>3, Unmoved DEF InPut
  <1>5. ASSUME NEW s \in Procs, InPut(s)', m.src = Port(s)'
        PROVE  /\ n <= nextblknum[s] /\ nextblknum'[s] = nextblknum[s]
               /\ localfp'[s] = localfp[p] /\ localfp[s] = localfp[p]
    <2>1. InPut(s) /\ m.src = Port(s) /\ Keeps(s)
      BY <1>4, <1>5
    <2>2. n <= nextblknum[s]
      BY <1>1, <2>1 DEF SendInv, DataSent
    <2>3. Meet(p, s)
      BY <1>1, <2>1, Heard DEF InPut
    <2> QED
      BY <2>1, <2>2, <2>3 DEF Meet, Keeps, Same
  <1>6. InStepOk(p)
    <2> SUFFICES ASSUME NEW s \in Procs, InPut(s)', peer'[p] = Port(s)'
                 PROVE  nextblknum'[p] <= nextblknum'[s] + 1
      BY DEF InStepOk
    <2>1. nextblknum[s] \in Nat
      BY Domains
    <2>2. m.src = Port(s)'
      BY <1>1
    <2>3. n <= nextblknum[s] /\ nextblknum'[s] = nextblknum[s]
      BY <1>5, <2>2
    <2> QED
      BY <1>1, <2>1, <2>3
  <1>7. AckOk(a)
    <2> SUFFICES ASSUME NEW s \in Procs, InPut(s)', m.src = Port(s)'
                 PROVE  /\ n <= nextblknum'[s]
                        /\ \/ n <= NFull[localfp'[s]]
                           \/ n = NFull[localfp'[s]] + 1 /\ HasCopy(s, Port(p))'
      BY <1>1, <1>2 DEF AckOk, Port
    <2>1. n <= nextblknum'[s] /\ localfp'[s] = localfp[p]
      BY <1>5
    <2>2. CASE GoesOn(p, m, n)
      BY <2>1, <2>2 DEF GoesOn
    <2>3. CASE Gets(p, m, n)
      <3>1. n = NFull[localfp'[s]] + 1
        BY <2>1, <2>3 DEF Gets
      <3>2. outcome'[p] = "got" /\ Port(p)[1] = p
        BY <2>3 DEF Gets, Port
      <3>3. p \in Clients => <<Port(p), localfp[p]>> \in finished'
        BY <2>3 DEF Gets
      <3>4. s \in Children => p \in Clients
        <4>1. m.src[1] = s /\ m.dst[1] = p
          BY <1>1, <1>4 DEF Port
        <4> QED
          BY <1>1, <4>1, ConstAssumption DEF CopyInv, Parties
      <3>5. s \notin Children => p \in Children
        <4>1. m.src[1] = s /\ m.dst[1] = p
          BY <1>1, <1>4 DEF Port
        <4> QED
          BY <1>1, <4>1 DEF CopyInv, Parties
      <3>6. HasCopy(s, Port(p))'
        <4>1. Port(p)' = Port(p)
          BY <1>1 DEF Port
        <4> QED
          BY <1>1, <2>1, <3>2, <3>3, <3>4, <3>5, <4>1 DEF HasCopy
      <3> QED
        BY <2>1, <3>1, <3>6
    <2> QED
      BY <2>2, <2>3
  <1>8. outcome'[p] # "sent"
    BY <1>1, NotEnded DEF GoesOn, Gets
  <1>9. outcome'[p] = "got" => NFull[localfp'[p]] + 1 < BLKMOD
    BY <1>1, NotEnded DEF GoesOn, Gets
  <1> QED
    BY <1>1, <1>2, <1>4, <1>6, <1>7, <1>8, <1>9, Unmoved DEF Advances

\* recv_ACK() sends the next block.
LEMMA NextAdvances ==
  ASSUME TypeInv, TypeInv', CopyInv, TalkInv, SendInv, NEW p \in Procs, NEW m \in net,
         SendsNext(p, m)
  PROVE  Advances
  <1>1. PICK d : IsData(d) /\ d.data[2] = nextblknum[p] + 1 /\ Adds(Msg(Port(p), m.src, d))
    BY DEF SendsNext
  <1>2. PICK a : a = Msg(Port(p), m.src, d)
    OBVIOUS
  <1>3. /\ pc[p] = "fsm" /\ Sending(p) /\ pc'[p] = "fsm" /\ outcome'[p] = outcome[p]
        /\ op_sent'[p] = OP_DATA /\ nextblknum'[p] = nextblknum[p] + 1
        /\ localfp'[p] = localfp[p] /\ sock'[p] = sock[p]
        /\ \A q \in Procs : q # p => Keeps(q)
        /\ \A x \in net' : x \in net \/ x = a
    BY <1>1, <1>2 DEF SendsNext, Confirmed, Waiting, RestKeeps, Adds
  <1>4. a.src = Port(p) /\ a.pkt = d /\ ~IsAck(a.pkt)
    BY <1>1, <1>2 DEF Msg, IsData, IsAck, OP_DATA, OP_ACK
  <1>5. nextblknum[p] \in Nat
    BY Domains
  <1>6. Continues(p) /\ Port(p)' = Port(p)
    BY <1>3, <1>5 DEF Continues, InPut, Port
  <1>7. \A s \in Procs : InPut(s)' => Continues(s)
    BY <1>3, <1>6, Unmoved
  <1>8. DataOk(a)
    <2> SUFFICES ASSUME NEW s \in Procs, InPut(s)', a.src = Port(s)'
                 PROVE  a.pkt.data[2] <= nextblknum'[s]
      BY DEF DataOk
    <2>1. Port(s) = Port(p)
      BY <1>4, <1>7 DEF Continues
    <2>2. s = p
      BY <2>1, PortsDiffer
    <2> QED
      BY <1>1, <1>3, <1>4, <1>5, <2>2
  <1>9. \A r \in Procs : ActiveReceiver(r)' => r # p
    BY <1>3 DEF ActiveReceiver, Receiving, OP_DATA, OP_RRQ, OP_ACK
  <1>10. outcome'[p] \notin {"got", "sent"}
    BY <1>3, NotEnded
  <1> QED
    BY <1>3, <1>4, <1>7, <1>8, <1>9, <1>10, Unmoved DEF Advances

\* recv_ACK() ends the transfer.
LEMMA EndAdvances ==
  ASSUME TypeInv, TypeInv', FileOpen, CopyInv, TalkInv, SendInv, Shaped, NEW p \in Procs,
         NEW m \in net, IsSent(p, m)
  PROVE  Advances
  <1>1. /\ pc[p] = "fsm" /\ m.dst = Port(p) /\ m.dst[1] = p /\ Sending(p) /\ IsAck(m.pkt)
        /\ m.pkt.blk = nextblknum[p] /\ nextblknum[p] > NFull[localfp[p]]
        /\ peer'[p] = m.src /\ localfp'[p] = localfp[p] /\ sock'[p] = sock[p]
        /\ Outside(p)' /\ outcome'[p] = "sent"
        /\ \A q \in Procs : q # p => Keeps(q)
        /\ \A x \in net' : x \in net
    BY DEF IsSent, Confirmed, Waiting, RestKeeps, Port
  <1>2. /\ nextblknum[p] = NFull[localfp[p]] + 1 /\ HasCopy(p, m.src)
        /\ nextblknum[p] < BLKMOD
    <2>1. localfp[p] \in Files /\ NFull[localfp[p]] \in Nat
      BY <1>1, ConstAssumption DEF FileOpen
    <2>2. m.pkt.blk \in Nat /\ m.pkt.blk < BLKMOD
      BY <1>1, PacketNumbers
    <2>3. \/ m.pkt.blk <= NFull[localfp[p]]
          \/ m.pkt.blk = NFull[localfp[p]] + 1 /\ HasCopy(p, m.src)
      BY <1>1 DEF SendInv, AcksTrue, InPut
    <2> QED
      BY <1>1, <2>1, <2>2, <2>3
  <1>3. HasCopy(p, m.src)'
    BY <1>1, <1>2, CopyKept
  <1>4. p \in Clients => m.src = Port(m.src[1])'
    <2> SUFFICES ASSUME p \in Clients
                 PROVE  m.src = Port(m.src[1])'
      OBVIOUS
    <2>1. m.src[1] \in Children /\ m.src[1] \in Procs /\ m.src[1] # p
      BY <1>1, ConstAssumption DEF CopyInv, Parties, Procs
    <2>2. m.src = Port(m.src[1])
      BY <2>1, ChildPort, NamedPorts DEF CopyInv, PortsBound
    <2> QED
      BY <1>1, <2>1, <2>2 DEF Port, Keeps
  <1>5. SentOk(p)
    <2>1. HasCopy(p, peer[p])'
      BY <1>1, <1>3 DEF HasCopy
    <2>2. p \in Clients => peer'[p] = Port(peer[p][1])'
      BY <1>1, <1>4 DEF Port
    <2> QED
      BY <1>1, <2>1, <2>2 DEF SentOk
  <1>6. ~InPut(p)' /\ ~ActiveReceiver(p)'
    BY <1>1 DEF Outside, InPut, ActiveReceiver
  <1> QED
    BY <1>1, <1>2, <1>5, <1>6, Unmoved DEF Advances

\* A retransmission.
LEMMA ResendsAdvances ==
  ASSUME TypeInv, TypeInv', FileOpen, CopyInv, TalkInv, SendInv, NEW p \in Procs, Resends(p)
  PROVE  Advances
  <1>1. PICK a : a = Msg(Port(p), peer[p], sendbuff[p])
    OBVIOUS
  <1>2. /\ pc[p] = "fsm" /\ \A q \in Procs : Keeps(q)
        /\ \A x \in net' : x \in net \/ x = a
        /\ a.src = Port(p) /\ a.dst = peer[p] /\ a.pkt = sendbuff[p]
    BY <1>1 DEF Resends, Adds, Msg
  <1>3. nextblknum[p] \in Nat
    BY Domains
  <1>4. IsData(a.pkt) => DataOk(a)
    <2> SUFFICES ASSUME IsData(a.pkt), NEW s \in Procs, InPut(s)', a.src = Port(s)'
                 PROVE  a.pkt.data[2] <= nextblknum'[s]
      BY DEF DataOk
    <2>1. Port(s)' = Port(s)
      BY <1>2, Unmoved
    <2>2. s = p
      BY <1>2, <2>1, PortsDiffer
    <2>3. a.pkt.data[2] = nextblknum[p] /\ nextblknum'[p] = nextblknum[p]
      BY <1>2 DEF CopyInv, LastSent, Keeps, Same
    <2> QED
      BY <1>3, <2>2, <2>3
  <1>5. IsAck(a.pkt) => AckOk(a)
    <2> SUFFICES ASSUME IsAck(a.pkt), NEW s \in Procs, InPut(s)', a.dst = Port(s)'
                 PROVE  /\ a.pkt.blk <= nextblknum'[s]
                        /\ a.pkt.blk <= NFull[localfp'[s]]
      BY DEF AckOk
    <2>1. InPut(s) /\ peer[p] = Port(s)
      BY <1>2, Unmoved
    <2>2. op_sent[p] = OP_ACK /\ a.pkt.blk < nextblknum[p] /\ ActiveReceiver(p)
      BY <1>2 DEF CopyInv, LastSent, IsAck, ActiveReceiver, Receiving
    <2>3. nextblknum[s] \in Nat /\ localfp[s] \in Files /\ NFull[localfp[s]] \in Nat
      BY <2>1, ConstAssumption, Domains DEF InPut, FileOpen
    <2>4. a.pkt.blk \in Nat
      <3>1. sendbuff[p] \in Packets
        BY DEF TypeInv, TypeOK
      <3> QED
        BY <1>2, <3>1, PacketFields DEF IsAck, Acks
    <2>5. nextblknum[p] <= nextblknum[s] + 1
      BY <2>1, <2>2 DEF SendInv, InStep
    <2>6. Meet(p, s)
      BY <1>2, <2>1, <2>2, Answers DEF InPut
    <2>7. nextblknum[p] - 1 <= NFull[localfp[p]]
      BY <2>2 DEF CopyInv, CopyPrefix, ActiveReceiver
    <2>8. nextblknum'[s] = nextblknum[s] /\ localfp'[s] = localfp[s]
      BY <1>2 DEF Keeps, Same
    <2>9. a.pkt.blk <= nextblknum[s] /\ a.pkt.blk <= NFull[localfp[s]]
      BY <1>3, <2>2, <2>3, <2>4, <2>5, <2>6, <2>7 DEF Meet
    <2> QED
      BY <2>8, <2>9
  <1> QED
    BY <1>2, <1>4, <1>5, Unmoved DEF Advances

\* A first request.
LEMMA RequestAdvances ==
  ASSUME TypeInv, TypeInv', CopyInv, TalkInv, SendInv, NEW c \in Clients, NEW f,
         NEW op \in {OP_RRQ, OP_WRQ}, SendsRequest(c, f, op)
  PROVE  Advances
  <1>0. c \in Procs
    BY DEF Procs
  <1>1. PICK a : a = Msg(<<c, sock[c] + 1>>, WellKnown, RQ(op, f))
    OBVIOUS
  <1>2. /\ \A q \in Procs : q # c => Keeps(q)
        /\ Port(c)' = <<c, sock[c] + 1>> /\ peer'[c] = WellKnown /\ outcome'[c] = "none"
        /\ \A x \in net' : x \in net \/ x = a
    BY <1>1 DEF SendsRequest, Opens, RestKeeps, Port, Adds
  <1>3. ~IsData(a.pkt) /\ ~IsAck(a.pkt)
    BY <1>1 DEF Msg, RQ, IsData, IsAck, OP_RRQ, OP_WRQ, OP_DATA, OP_ACK
  <1>4. \A s \in Procs : Port(s)' # WellKnown
    BY ConstAssumption DEF Port, WellKnown
  <1>5. Unheard(c)
    <2>1. \A x \in net : x.src # Port(c)' /\ x.dst # Port(c)'
      BY <1>2, FreshPort
    <2>2. \A r \in Procs : r # c => peer'[r] # Port(c)'
      BY <1>2, FreshPort DEF Keeps, Same
    <2>3. peer'[c] # Port(c)'
      BY <1>0, <1>2, <1>4
    <2> QED
      BY <2>1, <2>2, <2>3 DEF Unheard
  <1>6. InStepOk(c)
    BY <1>2, <1>4 DEF InStepOk
  <1> QED
    BY <1>2, <1>3, <1>5, <1>6, Unmoved DEF Advances

\* A child takes a request on.
LEMMA ServesAdvances ==
  ASSUME TypeInv, TypeInv', FileOpen, CopyInv, TalkInv, SendInv, NEW ch \in Children, NEW f \in Files,
         ServesRead(ch, f) \/ ServesWrite(ch, f)
  PROVE  Advances
  <1>1. /\ Serves(ch, f) /\ Asked(ch, f) /\ ch \in Procs
        /\ \A q \in Procs : q # ch => Keeps(q)
        /\ Port(ch)' = Port(ch) /\ peer'[ch] = peer[ch] /\ nextblknum'[ch] = 1
        /\ outcome'[ch] = outcome[ch]
    BY DEF ServesRead, ServesWrite, Serves, Asked, RestKeeps, Port
  <1>2. outcome'[ch] = "none"
    BY <1>1 DEF Asked, TalkInv, Unused
  <1>3. CASE ServesRead(ch, f)
    <2>1. PICK d : IsData(d) /\ d.data[2] = 1 /\ Adds(Msg(Port(ch), peer[ch], d))
      BY <1>3 DEF ServesRead
    <2>2. PICK a : a = Msg(Port(ch), peer[ch], d)
      OBVIOUS
    <2>3. /\ \A x \in net' : x \in net \/ x = a
          /\ a.src = Port(ch) /\ a.pkt = d /\ ~IsAck(a.pkt)
      BY <2>1, <2>2 DEF Adds, Msg, IsData, IsAck, OP_DATA, OP_ACK
    <2>4. ~ActiveReceiver(ch)'
      BY <1>3 DEF ServesRead, ActiveReceiver, Receiving, OP_DATA, OP_RRQ, OP_ACK
    <2>5. Unheard(ch)
      <3>1. \A r \in Procs : ActiveReceiver(r)' => peer'[r] # Port(ch)'
        BY <1>1, <2>4 DEF Asked, ActiveReceiver, Keeps, Same
      <3> QED
        BY <1>1, <3>1 DEF Asked, Unheard
    <2>6. DataOk(a)
      <3> SUFFICES ASSUME NEW s \in Procs, InPut(s)', a.src = Port(s)'
                   PROVE  a.pkt.data[2] <= nextblknum'[s]
        BY DEF DataOk
      <3>1. s = ch
        BY <1>1, <2>3 DEF Port
      <3> QED
        BY <1>1, <2>1, <2>3, <3>1
    <2> QED
      BY <1>1, <1>2, <2>3, <2>4, <2>5, <2>6, Unmoved DEF Advances
  <1>4. CASE ServesWrite(ch, f)
    <2>1. PICK a : a = Msg(Port(ch), peer[ch], ACK(0))
      OBVIOUS
    <2>2. /\ \A x \in net' : x \in net \/ x = a
          /\ a.dst = peer[ch] /\ a.pkt.blk = 0 /\ ~IsData(a.pkt)
      BY <1>4, <2>1 DEF ServesWrite, Adds, Msg, ACK, IsData, OP_DATA, OP_ACK
    <2>3. ~InPut(ch)'
      BY <1>4 DEF ServesWrite, InPut, Sending, OP_WRQ, OP_DATA, OP_ACK
    <2>4. \A s \in Procs : nextblknum'[s] \in Nat
      BY DEF TypeInv, TypeOK
    <2>5. InStepOk(ch)
      BY <1>1, <2>4 DEF InStepOk
    <2>6. AckOk(a)
      <3> SUFFICES ASSUME NEW s \in Procs, InPut(s)'
                   PROVE  0 <= nextblknum'[s] /\ 0 <= NFull[localfp'[s]]
        BY <2>2 DEF AckOk
      <3>1. InPut(s) /\ localfp'[s] = localfp[s]
        BY <1>1, <2>3, Unmoved DEF Continues
      <3>2. NFull[localfp'[s]] \in Nat
        BY <3>1, ConstAssumption DEF FileOpen, InPut
      <3> QED
        BY <2>4, <3>2
    <2> QED
      BY <1>1, <1>2, <2>2, <2>3, <2>5, <2>6, Unmoved DEF Advances
  <1> QED
    BY <1>3, <1>4

\* SendInv holds initially, and every step keeps it.
LEMMA SendInit == Init => SendInv
  <1> SUFFICES ASSUME Init PROVE SendInv
    OBVIOUS
  <1>1. \A p \in Procs : pc[p] = "idle" /\ outcome[p] = "none"
    BY ConstAssumption DEF Init
  <1>2. net = {}
    BY DEF Init
  <1> QED
    BY <1>1, <1>2 DEF SendInv, DataSent, InStep, AcksTrue, SentRight,
                      LongFilesNeverComplete, InPut

(* Every step of the program preserves SendInv. *)
LEMMA SendNext ==
  ASSUME TypeInv, TypeInv', FileOpen, CopyInv, ReceiverComplete', TalkInv, SendInv, [Next]_vars
  PROVE  SendInv'
  <1>1. Shaped
    BY Shapes
  <1>2. Advances
    BY <1>1, QuietShapes, AckAdvances, NextAdvances, EndAdvances, ResendsAdvances,
       RequestAdvances, ServesAdvances DEF Shaped
  <1> QED
    BY <1>1, <1>2, AdvancesSend

-----------------------------------------------------------------------------
(* Without a foreign implementation. *)

\* What a step may send, whom a child answers to, and who stops with a complaint.
Complaints == {"ahead", "botch", "port"}

Orderly ==
  /\ strays' = 0 => strays = 0
  /\ strays' = 0 => \A x \in net' :
       \/ x \in net
       \/ x.pkt.op \in {OP_RRQ, OP_WRQ, OP_DATA, OP_ACK}
       \/ \E ch \in Children :
            /\ pc'[ch] = "exit" /\ outcome'[ch] = "denied" /\ peer'[ch][1] \in Clients
            /\ x = Msg(Port(ch), peer'[ch], ERROR)
  /\ \A ch \in Children : pc[ch] # "idle" => peer'[ch] = peer[ch]
  /\ \A ch \in Children : pc'[ch] = "start" =>
       \/ pc[ch] = "start" /\ recvbuff'[ch] = recvbuff[ch]
       \/ \E m \in net : m.dst = WellKnown /\ recvbuff'[ch] = m.pkt
  /\ \A p \in Procs : outcome'[p] \in Complaints =>
       /\ Port(p)' = Port(p)
       /\ outcome'[p] = outcome[p] \/ Fails(p, outcome'[p])

\* The steps that keep strays and recvbuff and what others answer to.
LEMMA OrderlyIf ==
  ASSUME TypeInv, TalkInv, NEW p \in Procs, RestKeeps(p), UNCHANGED strays,
         \A x \in net' : x \in net \/ x.pkt.op \in {OP_RRQ, OP_WRQ, OP_DATA, OP_ACK},
         (p \in Children /\ pc[p] # "idle") => peer'[p] = peer[p],
         \/ UNCHANGED recvbuff /\ (p \in Children => pc'[p] # "start")
         \/ \E m \in net : m.dst = WellKnown /\ recvbuff' = [recvbuff EXCEPT ![p] = m.pkt],
         outcome'[p] \in Complaints => Port(p)' = Port(p) /\ outcome'[p] = outcome[p]
  PROVE  Orderly
  <1>1. \A q \in Procs : q # p => Same(q) /\ Port(q)' = Port(q)
    BY DEF RestKeeps, Keeps, Port
  <1>2. Children \subseteq Procs
    BY DEF Procs
  <1>3. \A ch \in Children : pc[ch] # "idle" => peer'[ch] = peer[ch]
    BY <1>1, <1>2 DEF Same
  <1>4. \A ch \in Children : pc'[ch] = "start" =>
          \/ pc[ch] = "start" /\ recvbuff'[ch] = recvbuff[ch]
          \/ \E m \in net : m.dst = WellKnown /\ recvbuff'[ch] = m.pkt
    BY <1>1, <1>2, Domains DEF Same
  <1>5. \A q \in Procs : outcome'[q] \in Complaints =>
          Port(q)' = Port(q) /\ outcome'[q] = outcome[q]
    BY <1>1 DEF Same
  <1> QED
    BY <1>3, <1>4, <1>5 DEF Orderly

\* Every step is orderly.
LEMMA OrderlySteps ==
  ASSUME TypeInv, CopyInv, TalkInv, Shaped
  PROVE  Orderly
  <1>0. /\ Children \subseteq Procs /\ Clients \subseteq Procs
        /\ \A ch \in Children : ch \notin Clients
        /\ "none" \notin Complaints /\ "got" \notin Complaints /\ "sent" \notin Complaints
        /\ "denied" \notin Complaints
    BY ConstAssumption DEF Procs, Complaints
  <1>1. CASE Idles
    <2>1. strays \in Nat /\ (strays' = 0 => strays = 0)
      BY <1>1, Domains DEF Idles
    <2> QED
      BY <1>0, <1>1, <2>1 DEF Idles, Orderly, Keeps, Same, Port
  <1>2. ASSUME NEW p \in Procs, NEW why \in Outcomes, Fails(p, why)
        PROVE  Orderly
    <2>1. /\ \A q \in Procs : q # p => Same(q) /\ Port(q)' = Port(q)
          /\ Port(p)' = Port(p) /\ outcome'[p] = why /\ Outside(p)'
          /\ (p \in Children => peer'[p] = peer[p])
          /\ UNCHANGED <<recvbuff, strays>>
      BY <1>2 DEF Fails, RestKeeps, Keeps, Port
    <2>2. \A x \in net' : x \in net \/
             \E ch \in Children :
               /\ pc'[ch] = "exit" /\ outcome'[ch] = "denied" /\ peer'[ch][1] \in Clients
               /\ x = Msg(Port(ch), peer'[ch], ERROR)
      BY <1>0, <1>2, <2>1 DEF Fails, Reason, Outside
    <2>3. \A ch \in Children : pc'[ch] = "start" => pc[ch] = "start"
      BY <1>0, <2>1 DEF Outside, Same
    <2>4. \A ch \in Children : peer'[ch] = peer[ch]
      BY <1>0, <2>1 DEF Same
    <2>5. \A q \in Procs : outcome'[q] \in Complaints =>
             Port(q)' = Port(q) /\ (outcome'[q] = outcome[q] \/ Fails(q, outcome'[q]))
      BY <1>2, <2>1 DEF Same
    <2> QED
      BY <2>1, <2>2, <2>3, <2>4, <2>5 DEF Orderly
  <1>3. ASSUME NEW p \in Procs, NEW m \in net, NEW n \in Nat, GoesOn(p, m, n) \/ Gets(p, m, n)
        PROVE  Orderly
    <2>1. ACK(n).op = OP_ACK
      BY DEF ACK
    <2>2. \A x \in net' : x \in net \/ x.pkt.op \in {OP_RRQ, OP_WRQ, OP_DATA, OP_ACK}
      BY <1>3, <2>1 DEF GoesOn, Gets, Acknowledges, Adds, Msg
    <2> QED
      BY <1>0, <1>3, <2>2, OrderlyIf DEF GoesOn, Gets, Acknowledges, Outside, Port
  <1>4. ASSUME NEW p \in Procs, NEW m \in net, SendsNext(p, m) \/ IsSent(p, m)
        PROVE  Orderly
    <2>1. \A x \in net' : x \in net \/ x.pkt.op \in {OP_RRQ, OP_WRQ, OP_DATA, OP_ACK}
      BY <1>4 DEF SendsNext, IsSent, Adds, Msg, IsData
    <2> QED
      BY <1>0, <1>4, <2>1, OrderlyIf DEF SendsNext, IsSent, Confirmed, Outside, Port
  <1>5. ASSUME NEW p \in Procs, Resends(p)
        PROVE  Orderly
    <2>1. sendbuff[p].op \in {OP_RRQ, OP_WRQ, OP_DATA, OP_ACK}
      BY <1>5, InLoop DEF Resends, CopyInv, LastSent
    <2>2. \A x \in net' : x \in net \/ x.pkt.op \in {OP_RRQ, OP_WRQ, OP_DATA, OP_ACK}
      BY <1>5, <2>1 DEF Resends, Adds, Msg
    <2> QED
      BY <1>5, <2>2, OrderlyIf DEF Resends, RestKeeps, Keeps, Same, Port
  <1>6. ASSUME NEW c \in Clients, NEW f \in Files, OpensOnly(c, f)
        PROVE  Orderly
    BY <1>0, <1>6, OrderlyIf DEF OpensOnly, Opens
  <1>7. ASSUME NEW c \in Clients, NEW f \in Files, NEW op \in {OP_RRQ, OP_WRQ},
               SendsRequest(c, f, op)
        PROVE  Orderly
    <2>1. \A x \in net' : x \in net \/ x.pkt.op \in {OP_RRQ, OP_WRQ, OP_DATA, OP_ACK}
      BY <1>7 DEF SendsRequest, Adds, Msg, RQ
    <2> QED
      BY <1>0, <1>7, <2>1, OrderlyIf DEF SendsRequest, Opens
  <1>8. ASSUME NEW ch \in Children, NEW m \in net, Forks(ch, m)
        PROVE  Orderly
    <2>1. outcome'[ch] = "none"
      BY <1>8 DEF Forks, TalkInv, Unused
    <2> QED
      BY <1>0, <1>8, <2>1, OrderlyIf DEF Forks
  <1>9. ASSUME NEW ch \in Children, NEW f \in Files, ServesRead(ch, f) \/ ServesWrite(ch, f)
        PROVE  Orderly
    <2>1. ACK(0).op = OP_ACK
      BY DEF ACK
    <2>2. \A x \in net' : x \in net \/ x.pkt.op \in {OP_RRQ, OP_WRQ, OP_DATA, OP_ACK}
      BY <1>9, <2>1 DEF ServesRead, ServesWrite, Adds, Msg, IsData
    <2> QED
      BY <1>0, <1>9, <2>2, OrderlyIf DEF ServesRead, ServesWrite, Serves, Port
  <1> QED
    BY <1>1, <1>2, <1>3, <1>4, <1>5, <1>6, <1>7, <1>8, <1>9 DEF Shaped

\* A child that refused its request has refused it for good.
LEMMA UndisturbedNext ==
  ASSUME TypeInv, CopyInv, TalkInv, Shaped, Orderly, Undisturbed, strays' = 0
  PROVE  Undisturbed'
  <1>0. Children \subseteq Procs
    BY DEF Procs
  <1>1. /\ OP_ERROR \notin {OP_RRQ, OP_WRQ, OP_DATA, OP_ACK, 0}
        /\ 0 \notin {OP_RRQ, OP_WRQ, OP_DATA, OP_ACK}
    BY DEF OP_ERROR, OP_RRQ, OP_WRQ, OP_DATA, OP_ACK
  <1>2. \A ch \in Children : \A x : x = Msg(Port(ch), peer'[ch], ERROR) =>
          /\ x.pkt.op = OP_ERROR /\ x.src[1] = ch /\ x.dst = peer'[ch]
    BY DEF Msg, ERROR, Port
  <1>3. \A x \in net' : x.pkt.op # 0
    BY <1>1, <1>2 DEF Orderly, Undisturbed
  <1>4. \A x \in net' : x.pkt.op = OP_ERROR =>
          /\ x.src[1] \in Children /\ x.dst[1] \in Clients
          /\ pc'[x.src[1]] = "exit" /\ outcome'[x.src[1]] = "denied"
          /\ x.dst = peer'[x.src[1]]
    <2> SUFFICES ASSUME NEW x \in net', x.pkt.op = OP_ERROR
                 PROVE  /\ x.src[1] \in Children /\ x.dst[1] \in Clients
                        /\ pc'[x.src[1]] = "exit" /\ outcome'[x.src[1]] = "denied"
                        /\ x.dst = peer'[x.src[1]]
      OBVIOUS
    <2>1. CASE x \in net
      <3>1. /\ x.src[1] \in Children /\ x.dst[1] \in Clients
            /\ pc[x.src[1]] = "exit" /\ outcome[x.src[1]] = "denied"
            /\ x.dst = peer[x.src[1]]
        BY <2>1 DEF Undisturbed
      <3>2. Keeps(x.src[1])
        BY <1>0, <3>1, Settled
      <3> QED
        BY <3>1, <3>2 DEF Keeps, Same
    <2>2. CASE x \notin net
      BY <1>1, <1>2, <2>2 DEF Orderly
    <2> QED
      BY <2>1, <2>2
  <1>5. \A ch \in Children : pc'[ch] = "start" => IsRequest(recvbuff'[ch])
    <2> SUFFICES ASSUME NEW ch \in Children, NEW m \in net, m.dst = WellKnown
                 PROVE  IsRequest(m.pkt)
      BY DEF Orderly, Undisturbed
    <2>1. m.pkt \in Packets /\ m.dst[1] \notin Clients /\ m.dst[1] \notin Children
      BY ConstAssumption DEF TypeInv, TypeOK, Messages, WellKnown, Procs
    <2>2. m.pkt.op \in {OP_RRQ, OP_WRQ, OP_DATA, OP_ACK, OP_ERROR, 0}
      BY <2>1 DEF Packets, Requests, Datas, Acks, Others
    <2>3. m.pkt.op \notin {OP_DATA, OP_ACK}
      BY <2>1 DEF CopyInv, Parties, IsData, IsAck
    <2> QED
      BY <2>1, <2>2, <2>3 DEF Undisturbed, IsRequest
  <1> QED
    BY <1>3, <1>4, <1>5 DEF Undisturbed

\* A process has no reason to stop with "Something is wrong."
LEMMA NoBotch ==
  ASSUME TypeInv, CopyInv, TalkInv, SendInv, Undisturbed, NEW p \in Procs,
         NEW why \in {"ahead", "botch"}, Reason(p, why)
  PROVE  FALSE
  <1>0. /\ OP_ERROR \notin {OP_RRQ, OP_WRQ, OP_DATA, OP_ACK, 0}
        /\ OP_DATA \notin {OP_RRQ, OP_WRQ, OP_ACK} /\ OP_ACK \notin {OP_RRQ, OP_WRQ}
        /\ OP_RRQ # OP_WRQ
        /\ \A ch \in Children : ch \notin Clients
    BY ConstAssumption DEF OP_ERROR, OP_RRQ, OP_WRQ, OP_DATA, OP_ACK
  <1>1. CASE why = "ahead"
    <2>1. PICK m \in net :
             /\ Waiting(p, m) /\ m.pkt.blk > nextblknum[p]
             /\ (IsData(m.pkt) /\ Receiving(p)) \/ (IsAck(m.pkt) /\ Sending(p))
      BY <1>1 DEF Reason
    <2>2. nextblknum[p] \in Nat /\ m.pkt.blk \in Nat
      BY <2>1, Domains, PacketNumbers
    <2>3. CASE IsData(m.pkt) /\ Receiving(p)
      <3>1. m.pkt.data[2] \in 1..nextblknum[p] /\ m.pkt.blk = Wire(m.pkt.data[2])
        BY <2>1, <2>3 DEF CopyInv, DataBehind, BlockOf, ActiveReceiver, Waiting
      <3>2. m.pkt.data[2] \in Nat /\ m.pkt.blk <= m.pkt.data[2]
        BY <3>1, WireFacts
      <3> QED
        BY <2>1, <2>2, <3>1, <3>2
    <2>4. CASE IsAck(m.pkt) /\ Sending(p)
      BY <2>1, <2>2, <2>4 DEF SendInv, AcksTrue, InPut, Waiting
    <2> QED
      BY <2>1, <2>3, <2>4
  <1>2. CASE why = "botch"
    <2>1. CASE /\ p \in Children /\ pc[p] = "start"
               /\ fsm_ptr(p, 0, recvbuff[p].op) = "fsm_invalid"
      <3>1. recvbuff[p].op \in {OP_RRQ, OP_WRQ}
        BY <2>1 DEF Undisturbed, IsRequest
      <3> QED
        BY <1>0, <2>1, <3>1 DEF fsm_ptr, fsm_ptr_server
    <2>2. ASSUME NEW m \in net, Waiting(p, m), FromExpected(p, m),
                 fsm_ptr(p, op_sent[p], m.pkt.op) \in {"fsm_error", "fsm_invalid"}
          PROVE  FALSE
      <3>1. pc[p] = "fsm" /\ m.dst = Port(p) /\ m.dst[1] = p
        BY <2>2 DEF Waiting, Port
      <3>2. m.pkt.op \in {OP_RRQ, OP_WRQ, OP_DATA, OP_ACK, OP_ERROR, 0}
        BY DEF TypeInv, TypeOK, Messages, Packets, Requests, Datas, Acks, Others
      <3>3. m.pkt.op \notin {OP_RRQ, OP_WRQ, 0}
        <4>1. m.dst # WellKnown
          BY <3>1, ConstAssumption DEF WellKnown
        <4> QED
          BY <4>1 DEF Undisturbed, CopyInv, Parties, IsRequest
      <3>4. CASE m.pkt.op = OP_DATA
        <4>1. Receiving(p)
          BY <3>1, <3>4 DEF TalkInv, Roles, IsData
        <4> QED
          BY <1>0, <2>2, <3>1, <3>4, <4>1, InLoop
             DEF Receiving, fsm_ptr, fsm_ptr_client, fsm_ptr_server, Procs
      <3>5. CASE m.pkt.op = OP_ACK
        <4>1. Sending(p)
          BY <3>1, <3>5 DEF TalkInv, Roles, IsAck
        <4> QED
          BY <1>0, <2>2, <3>1, <3>5, <4>1, InLoop
             DEF Sending, fsm_ptr, fsm_ptr_client, fsm_ptr_server, Procs
      <3>6. CASE m.pkt.op = OP_ERROR
        <4>1. p \in Clients /\ outcome[m.src[1]] = "denied"
          BY <3>1, <3>6 DEF Undisturbed
        <4>2. op_sent[p] \notin {OP_RRQ, OP_WRQ}
          BY <1>0, <2>2, <3>6, <4>1 DEF fsm_ptr, fsm_ptr_client
        <4>3. ~recv_first[p] /\ outcome[peer[p][1]] # "denied"
          BY <3>1, <4>1, <4>2 DEF CopyInv, Parties, TalkInv, Answered
        <4> QED
          BY <2>2, <4>1, <4>3 DEF FromExpected
      <3> QED
        BY <3>2, <3>3, <3>4, <3>5, <3>6
    <2> QED
      BY <1>2, <2>1, <2>2 DEF Reason
  <1> QED
    BY <1>1, <1>2

\* A datagram from another port is from a second child that answers the client.
LEMMA TwoAnswer ==
  ASSUME TypeInv, CopyInv, TalkInv, Undisturbed, NEW p \in Procs, Reason(p, "port")
  PROVE  \E a, b \in Children :
           /\ a # b /\ peer[a] = Port(p) /\ peer[b] = Port(p)
           /\ pc[a] # "idle" /\ pc[b] # "idle"
  <1>1. PICK m \in net : Waiting(p, m) /\ ~FromExpected(p, m)
    BY DEF Reason
  <1>2. pc[p] = "fsm" /\ m.dst = Port(p) /\ m.dst[1] = p
    BY <1>1 DEF Waiting, Port
  <1>3. m.pkt.op \in {OP_DATA, OP_ACK, OP_ERROR}
    <2>1. m.pkt.op \in {OP_RRQ, OP_WRQ, OP_DATA, OP_ACK, OP_ERROR, 0}
      BY DEF TypeInv, TypeOK, Messages, Packets, Requests, Datas, Acks, Others
    <2>2. m.dst # WellKnown
      BY <1>2, ConstAssumption DEF WellKnown
    <2> QED
      BY <2>1, <2>2 DEF Undisturbed, CopyInv, Parties, IsRequest
  <1>4. p \in Clients
    <2> SUFFICES ASSUME p \in Children
                 PROVE  FALSE
      BY DEF Procs
    <2>1. p \notin Clients
      BY ConstAssumption
    <2>2. m.pkt.op # OP_ERROR
      BY <1>2, <2>1 DEF Undisturbed
    <2>3. m.src[1] \notin Children
      BY <1>2, <1>3, <2>1, <2>2, ConstAssumption DEF CopyInv, Parties, IsData, IsAck
    <2>4. m.src = peer[p] /\ ~recv_first[p]
      BY <1>2, <1>3, <2>2, <2>3 DEF TalkInv, Conversation, CopyInv, Parties, IsData, IsAck
    <2> QED
      BY <1>1, <2>4 DEF FromExpected
  <1> DEFINE a == m.src[1]
             b == peer[p][1]
  <1>5. a \in Children /\ m.dst = peer[a]
    <2>1. CASE m.pkt.op = OP_ERROR
      BY <2>1 DEF Undisturbed
    <2>2. CASE m.pkt.op \in {OP_DATA, OP_ACK}
      BY <1>2, <1>4, <2>2, ConstAssumption DEF CopyInv, Parties, IsData, IsAck
    <2> QED
      BY <1>3, <2>1, <2>2
  <1>6. m.src = Port(a) /\ sock[a] = 1
    BY <1>5, ChildPort, NamedPorts DEF CopyInv, PortsBound
  <1>7. op_sent[p] \notin {OP_RRQ, OP_WRQ}
    <2> SUFFICES ASSUME op_sent[p] \in {OP_RRQ, OP_WRQ}
                 PROVE  FALSE
      OBVIOUS
    <2>1. peer[p] = WellKnown
      BY <1>2, <1>4 DEF CopyInv, Parties
    <2>2. recv_first[p]
      BY <1>2, <1>4 DEF TalkInv, Answered, OP_RRQ, OP_WRQ, OP_DATA, OP_ACK
    <2>3. m.src # WellKnown
      BY <1>5, ConstAssumption DEF WellKnown, Procs
    <2> QED
      BY <1>1, <2>1, <2>2, <2>3 DEF FromExpected
  <1>8. b \in Children /\ ~recv_first[p] /\ peer[b] = Port(p)
    BY <1>2, <1>4, <1>7 DEF CopyInv, Parties, TalkInv, Answered
  <1>9. peer[p] = Port(b) /\ sock[b] = 1
    BY <1>8, ChildPort, NamedPorts DEF CopyInv, PortsBound
  <1>10. a # b
    BY <1>1, <1>6, <1>8, <1>9 DEF FromExpected
  <1>11. pc[a] # "idle" /\ pc[b] # "idle"
    BY <1>5, <1>6, <1>8, <1>9 DEF CopyInv, PortsBound
  <1> QED
    BY <1>2, <1>5, <1>8, <1>10, <1>11

\* StrayInv holds initially, and every step keeps it.
LEMMA StrayInit == Init => StrayInv
  <1> SUFFICES ASSUME Init PROVE StrayInv
    OBVIOUS
  <1>1. \A p \in Procs : pc[p] = "idle" /\ outcome[p] = "none"
    BY ConstAssumption DEF Init
  <1>2. net = {}
    BY DEF Init
  <1> QED
    BY <1>1, <1>2 DEF StrayInv, Undisturbed, NoProtocolBotch, PortMismatchNeedsTwoChildren, Procs

(* Every step of the program preserves StrayInv. *)
LEMMA StrayNext ==
  ASSUME TypeInv, FileOpen, CopyInv, ReceiverComplete', TalkInv, SendInv, StrayInv, [Next]_vars
  PROVE  StrayInv'
  <1> SUFFICES ASSUME strays' = 0
               PROVE  StrayInv'
    BY DEF StrayInv, NoProtocolBotch, PortMismatchNeedsTwoChildren
  <1>1. Shaped /\ Orderly
    BY Shapes, OrderlySteps
  <1>2. strays = 0 /\ Undisturbed
    BY <1>1 DEF Orderly, StrayInv
  <1>3. Undisturbed'
    BY <1>1, <1>2, UndisturbedNext
  <1>4. \A p \in Procs : outcome'[p] \notin {"ahead", "botch"}
    <2> SUFFICES ASSUME NEW p \in Procs, NEW why \in {"ahead", "botch"}, outcome'[p] = why
                 PROVE  FALSE
      OBVIOUS
    <2>1. outcome[p] # why
      BY <1>2 DEF StrayInv, NoProtocolBotch
    <2>2. Fails(p, why)
      BY <1>1, <2>1 DEF Orderly, Complaints
    <2>3. Reason(p, why)
      BY <2>2 DEF Fails
    <2> QED
      BY <1>2, <2>3, NoBotch
  <1>5. ASSUME NEW p \in Procs, outcome'[p] = "port"
        PROVE  \E a, b \in Children : a # b /\ peer'[a] = Port(p)' /\ peer'[b] = Port(p)'
    <2>1. \E a, b \in Children :
            /\ a # b /\ peer[a] = Port(p) /\ peer[b] = Port(p)
            /\ pc[a] # "idle" /\ pc[b] # "idle"
      <3>1. CASE outcome[p] = "port"
        <4>1. PICK a, b \in Children : a # b /\ peer[a] = Port(p) /\ peer[b] = Port(p)
          BY <1>2, <3>1 DEF StrayInv, PortMismatchNeedsTwoChildren
        <4>2. Port(p) # WellKnown
          BY ConstAssumption DEF Port, WellKnown
        <4>3. pc[a] # "idle" /\ pc[b] # "idle"
          BY <4>1, <4>2 DEF TalkInv, Unused
        <4> QED
          BY <4>1, <4>3
      <3>2. CASE outcome[p] # "port"
        <4>1. Fails(p, "port")
          BY <1>1, <1>5, <3>2 DEF Orderly, Complaints
        <4> QED
          BY <1>2, <4>1, TwoAnswer DEF Fails
      <3> QED
        BY <3>1, <3>2
    <2>2. Port(p)' = Port(p)
      BY <1>1, <1>5 DEF Orderly, Complaints
    <2> QED
      BY <1>1, <2>1, <2>2 DEF Orderly
  <1> QED
    BY <1>3, <1>4, <1>5 DEF StrayInv, NoProtocolBotch, PortMismatchNeedsTwoChildren

-----------------------------------------------------------------------------
(* The theorems. *)

\* What holds in every state.
DialogueInv == TypeInv /\ FileOpen /\ CopyInv /\ TalkInv /\ SendInv /\ StrayInv

(* It is inductive: the parts hold together, each step for the next. *)
LEMMA DialogueInvariant == Spec => []DialogueInv
  <1>1. Init => DialogueInv
    BY TypeInit, CopyInit, TalkInit, SendInit, StrayInit DEF DialogueInv
  <1>2. DialogueInv /\ [Next]_vars => DialogueInv'
    <2> SUFFICES ASSUME DialogueInv, [Next]_vars
                 PROVE  DialogueInv'
      OBVIOUS
    <2>1. TypeInv /\ FileOpen /\ CopyInv /\ TalkInv /\ SendInv /\ StrayInv
      BY DEF DialogueInv
    <2>2. TypeInv' /\ FileOpen'
      BY <2>1, TypeNext
    <2>3. CopyInv'
      BY <2>1, <2>2, CopyNext
    <2>4. ReceiverComplete'
      BY <2>3 DEF CopyInv
    <2>5. TalkInv'
      BY <2>1, <2>4, TalkNext
    <2>6. SendInv'
      BY <2>1, <2>2, <2>4, SendNext
    <2>7. StrayInv'
      BY <2>1, <2>4, StrayNext
    <2> QED
      BY <2>2, <2>3, <2>5, <2>6, <2>7 DEF DialogueInv
  <1> QED
    BY <1>1, <1>2, PTL DEF Spec

\* The block last sent is the one the receiver waits for or the one before: the
\* sender is not ahead by NotAhead, the receiver at most one block by InStep.
THEOREM LockStepCorrect == Spec => []LockStep
  <1>1. DialogueInv => LockStep
    <2> SUFFICES ASSUME DialogueInv, NEW s \in Procs, NEW r \in Procs,
                        pc[s] = "fsm", Sending(s), pc[r] = "fsm", Receiving(r),
                        peer[s] = Port(r), peer[r] = Port(s)
                 PROVE  nextblknum[s] \in {nextblknum[r] - 1, nextblknum[r]}
      BY DEF LockStep
    <2>1. TypeInv /\ CopyInv /\ TalkInv /\ SendInv
      BY DEF DialogueInv
    <2>2. nextblknum[s] \in Nat /\ nextblknum[r] \in Nat
      BY <2>1, Domains
    <2>3. nextblknum[r] <= nextblknum[s] + 1
      BY <2>1 DEF SendInv, InStep, InPut, ActiveReceiver
    <2>4. nextblknum[s] <= nextblknum[r]
      <3>1. op_sent[s] # OP_WRQ
        <4>1. peer[s] # WellKnown
          BY ConstAssumption DEF Port, WellKnown
        <4> QED
          BY <2>1, <4>1, InLoop DEF CopyInv, Parties, Procs, OP_WRQ, OP_DATA, OP_ACK
      <3> QED
        BY <2>1, <3>1 DEF CopyInv, NotAhead, ActiveSender, ActiveReceiver, Sending
    <2> QED
      BY <2>2, <2>3, <2>4
  <1> QED
    BY <1>1, DialogueInvariant, PTL

\* A put, or a child that serves a get, ends well only when the other end has
\* the whole file: by AcksTrue an ACK for the last block comes from a process
\* that has it.
THEOREM SenderCorrect == Spec => []SenderComplete
  <1>1. DialogueInv => SenderComplete
    <2> SUFFICES ASSUME DialogueInv
                 PROVE  SenderComplete
      OBVIOUS
    <2>1. CopyInv /\ SendInv
      BY DEF DialogueInv
    <2>2. ASSUME NEW c \in Clients, outcome[c] = "sent"
          PROVE  \E ch \in Children : /\ peer[c] = Port(ch) /\ outcome[ch] = "got"
                                      /\ written[ch] = Copy(localfp[c])
      <3>1. c \in Procs /\ c \notin Children
        BY ConstAssumption DEF Procs
      <3>2. HasCopy(c, peer[c]) /\ peer[c] = Port(peer[c][1])
        BY <2>1, <2>2, <3>1 DEF SendInv, SentRight
      <3>3. /\ peer[c][1] \in Children /\ peer[c][1] \in Procs
            /\ outcome[peer[c][1]] = "got" /\ localfp[peer[c][1]] = localfp[c]
        BY <3>1, <3>2 DEF HasCopy, Procs
      <3>4. written[peer[c][1]] = Copy(localfp[c])
        BY <2>1, <3>3 DEF CopyInv, ReceiverComplete
      <3> QED
        BY <3>2, <3>3, <3>4
    <2>3. ASSUME NEW ch \in Children, outcome[ch] = "sent"
          PROVE  <<peer[ch], localfp[ch]>> \in finished
      BY <2>1, <2>3 DEF SendInv, SentRight, HasCopy, Procs
    <2> QED
      BY <2>2, <2>3 DEF SenderComplete
  <1> QED
    BY <1>1, DialogueInvariant, PTL

\* A file whose last block has no 16-bit number is never taken for complete, by
\* either end.
THEOREM LongFilesCorrect == Spec => []LongFilesNeverComplete
  <1>1. DialogueInv => LongFilesNeverComplete
    BY DEF DialogueInv, SendInv
  <1> QED
    BY <1>1, DialogueInvariant, PTL

\* Without a foreign implementation no process stops with "Something is wrong.",
\* in fsm_invalid() or in fsm_error().
THEOREM NoBotchCorrect == Spec => []NoProtocolBotch
  <1>1. DialogueInv => NoProtocolBotch
    BY DEF DialogueInv, StrayInv
  <1> QED
    BY <1>1, DialogueInvariant, PTL

\* Nor does net_recv() exit on a datagram from an unexpected port, unless the
\* request was delivered twice and two children answer it.
THEOREM PortMismatchCorrect == Spec => []PortMismatchNeedsTwoChildren
  <1>1. DialogueInv => PortMismatchNeedsTwoChildren
    BY DEF DialogueInv, StrayInv
  <1> QED
    BY <1>1, DialogueInvariant, PTL

-----------------------------------------------------------------------------
(* The children that have opened a file to write it. *)

\* No child opens a file, closes it or writes to it.
Untouched ==
  /\ UNCHANGED upload
  /\ \A ch \in Children :
       /\ op_sent'[ch] = OP_ACK <=> op_sent[ch] = OP_ACK
       /\ op_sent[ch] = OP_ACK => localfp'[ch] = localfp[ch] /\ written'[ch] = written[ch]
       /\ outcome'[ch] = "got" => outcome[ch] = "got" \/ op_sent[ch] = OP_ACK

\* SoleWriter, with a name for the file after the step.
LEMMA SoleIf ==
  ASSUME \A g : \A ch \in Children : g = localfp'[ch] =>
           /\ outcome'[ch] = "got" => op_sent'[ch] = OP_ACK
           /\ (op_sent'[ch] = OP_ACK /\ Openers(g)' = {ch}) => upload'[g] = written'[ch]
  PROVE  SoleWriter'
  BY DEF SoleWriter, Openers

\* Then the files have the writers they had.
LEMMA UntouchedSole ==
  ASSUME SoleWriter, Untouched
  PROVE  SoleWriter'
  <1>1. \A f : Openers(f)' = Openers(f)
    BY DEF Openers, Untouched
  <1> SUFFICES ASSUME NEW ch \in Children, NEW g, g = localfp'[ch]
               PROVE  /\ outcome'[ch] = "got" => op_sent'[ch] = OP_ACK
                      /\ (op_sent'[ch] = OP_ACK /\ Openers(g)' = {ch})
                           => upload'[g] = written'[ch]
    BY SoleIf
  <1>2. outcome'[ch] = "got" => op_sent'[ch] = OP_ACK
    BY DEF SoleWriter, Untouched
  <1>3. ASSUME op_sent'[ch] = OP_ACK, Openers(localfp[ch]) = {ch}
        PROVE  upload'[localfp[ch]] = written'[ch]
    BY <1>3 DEF SoleWriter, Untouched
  <1>4. op_sent'[ch] = OP_ACK => localfp'[ch] = localfp[ch]
    BY DEF Untouched
  <1> QED
    BY <1>1, <1>2, <1>3, <1>4

\* Writing behind the end of a file appends to it.
LEMMA WriteAtEnd ==
  ASSUME NEW s \in Seq(Chunks), NEW x \in Chunks
  PROVE  WriteAt(s, Len(s) + 1, x) = Append(s, x)
  <1> DEFINE k == Len(s) + 1
             t == Append(s, x)
  <1>1. k \in Nat /\ k > Len(s) /\ Len(s) \in Nat
    OBVIOUS
  <1>2. t \in Seq(Chunks) /\ Len(t) = k /\ t[k] = x /\ \A i \in 1..Len(s) : t[i] = s[i]
    BY AppendProperties
  <1>3. WriteAt(s, k, x) = [i \in 1..k |-> IF i = k THEN x ELSE IF i <= Len(s) THEN s[i] ELSE Hole]
    BY <1>1 DEF WriteAt
  <1>4. t \in [1..k -> Chunks]
    BY <1>2, LenProperties
  <1>5. \A i \in 1..k : t[i] = IF i = k THEN x ELSE IF i <= Len(s) THEN s[i] ELSE Hole
    BY <1>1, <1>2
  <1> HIDE DEF k, t
  <1>6. t = WriteAt(s, k, x)
    BY <1>3, <1>4, <1>5
  <1> QED
    BY <1>6 DEF k, t

\* A child that receives a file has opened it to write.
LEMMA ReceiverWrites ==
  ASSUME CopyInv, NEW ch \in Children, pc[ch] = "fsm", Receiving(ch)
  PROVE  op_sent[ch] = OP_ACK
  BY DEF CopyInv, Parties, Receiving, OP_DATA, OP_ACK, OP_RRQ

-----------------------------------------------------------------------------
(* The steps that touch the files. *)

\* A child writes the next chunk: if it is the only one to have opened the file,
\* at the end of the file.
LEMMA AppendsSole ==
  ASSUME TypeInv, FileOpen, CopyInv, SoleWriter, NEW p \in Children, NEW m \in net,
         NEW n \in Nat, Acknowledges(p, m, n), ~(written'[p] = written[p] /\ UNCHANGED upload)
  PROVE  SoleWriter'
  <1> DEFINE f == localfp[p]
             x == <<f, n>>
  <1>1. /\ p \in Procs /\ p \notin Clients /\ pc[p] = "fsm" /\ Receiving(p)
        /\ op_sent'[p] = OP_ACK /\ localfp'[p] = f
        /\ \A q \in Children : q # p =>
             /\ op_sent'[q] = op_sent[q] /\ localfp'[q] = localfp[q]
             /\ written'[q] = written[q] /\ outcome'[q] = outcome[q]
    BY ConstAssumption DEF Acknowledges, Waiting, RestKeeps, Keeps, Same, Procs
  <1>2. op_sent[p] = OP_ACK
    BY <1>1, ReceiverWrites
  <1>3. /\ n = nextblknum[p] /\ written'[p] = Append(written[p], x)
        /\ upload' = [upload EXCEPT ![f] = WriteAt(@, Len(written[p]) + 1, x)]
    BY <1>1 DEF Acknowledges, Writes
  <1>4. f \in Files /\ written[p] \in Seq(Chunks) /\ upload \in [Files -> Seq(Chunks \cup {Hole})]
    BY <1>1 DEF FileOpen, TypeInv, TypeOK
  <1>5. x \in Chunks
    <2>1. Len(written[p]) = n - 1
      BY <1>1, <1>3 DEF CopyInv, CopyPrefix
    <2> QED
      BY <1>4, <2>1 DEF Chunks
  <1>6. \A g : Openers(g)' = Openers(g)
    BY <1>1, <1>2 DEF Openers
  <1>7. p \in Openers(f)
    BY <1>2 DEF Openers
  <1> HIDE DEF f, x
  <1> SUFFICES ASSUME NEW ch \in Children, NEW g, g = localfp'[ch]
               PROVE  /\ outcome'[ch] = "got" => op_sent'[ch] = OP_ACK
                      /\ (op_sent'[ch] = OP_ACK /\ Openers(g)' = {ch})
                           => upload'[g] = written'[ch]
    BY SoleIf
  <1>8. CASE ch = p
    <2>1. ASSUME Openers(f) = {p}
          PROVE  upload'[f] = written'[p]
      <3>1. upload[f] = written[p]
        BY <1>2, <2>1 DEF SoleWriter, f
      <3>2. upload'[f] = WriteAt(written[p], Len(written[p]) + 1, x)
        BY <1>3, <1>4, <3>1
      <3> QED
        BY <1>3, <1>4, <1>5, <3>2, WriteAtEnd
    <2> QED
      BY <1>1, <1>6, <1>8, <2>1
  <1>9. CASE ch # p
    <2>1. (op_sent[ch] = OP_ACK /\ Openers(localfp[ch]) = {ch}) =>
             localfp[ch] # f /\ upload[localfp[ch]] = written[ch]
      BY <1>7, <1>9 DEF SoleWriter
    <2>2. \A file : file # f => upload'[file] = upload[file]
      BY <1>3, <1>4
    <2>3. outcome[ch] = "got" => op_sent[ch] = OP_ACK
      BY DEF SoleWriter
    <2> QED
      BY <1>1, <1>6, <1>9, <2>1, <2>2, <2>3
  <1> QED
    BY <1>8, <1>9

\* fopen(filename, "w"): the file and the copy of the child are both empty, and
\* any other child that has the file open is no longer its only writer.
LEMMA ServesWriteSole ==
  ASSUME TypeInv, TalkInv, SoleWriter, NEW p \in Children, NEW f \in Files, ServesWrite(p, f)
  PROVE  SoleWriter'
  <1>1. pc[p] = "start"
    BY DEF ServesWrite, Serves, Asked
  <1>2. op_sent[p] = 0 /\ outcome[p] = "none"
    BY <1>1 DEF TalkInv, Unused
  <1>3. /\ op_sent'[p] = OP_ACK /\ localfp'[p] = f /\ written'[p] = <<>>
        /\ outcome'[p] = outcome[p]
        /\ \A q \in Children : q # p =>
             /\ op_sent'[q] = op_sent[q] /\ localfp'[q] = localfp[q]
             /\ written'[q] = written[q] /\ outcome'[q] = outcome[q]
        /\ upload' = [upload EXCEPT ![f] = <<>>]
    BY DEF ServesWrite, Serves, RestKeeps, Keeps, Same, Procs
  <1>4. DOMAIN upload = Files
    BY Domains
  <1>5. \A g : g # f => Openers(g)' = Openers(g)
    BY <1>2, <1>3 DEF Openers, OP_ACK
  <1>6. p \in Openers(f)'
    BY <1>3 DEF Openers
  <1> SUFFICES ASSUME NEW ch \in Children, NEW g, g = localfp'[ch]
               PROVE  /\ outcome'[ch] = "got" => op_sent'[ch] = OP_ACK
                      /\ (op_sent'[ch] = OP_ACK /\ Openers(g)' = {ch})
                           => upload'[g] = written'[ch]
    BY SoleIf
  <1>7. CASE ch = p
    BY <1>2, <1>3, <1>4, <1>7
  <1>8. CASE ch # p
    <2>1. outcome[ch] = "got" => op_sent[ch] = OP_ACK
      BY DEF SoleWriter
    <2>2. ASSUME op_sent[ch] = OP_ACK, g = localfp[ch], Openers(g)' = {ch}
          PROVE  upload'[g] = written[ch]
      <3>1. g # f
        BY <1>6, <1>8, <2>2
      <3>2. Openers(g) = {ch}
        BY <1>5, <2>2, <3>1
      <3>3. upload[g] = written[ch]
        BY <2>2, <3>2 DEF SoleWriter
      <3> QED
        BY <1>3, <1>4, <3>1, <3>3
    <2>3. op_sent'[ch] = op_sent[ch] /\ localfp'[ch] = localfp[ch] /\ written'[ch] = written[ch]
          /\ outcome'[ch] = outcome[ch]
      BY <1>3, <1>8
    <2> QED
      BY <2>1, <2>2, <2>3
  <1> QED
    BY <1>7, <1>8

\* A step of p that leaves the file and the copy of p alone.
LEMMA AloneSole ==
  ASSUME SoleWriter, NEW p \in Procs, RestKeeps(p), UNCHANGED upload,
         p \in Children =>
           /\ op_sent'[p] = OP_ACK <=> op_sent[p] = OP_ACK
           /\ op_sent[p] = OP_ACK => localfp'[p] = localfp[p] /\ written'[p] = written[p]
           /\ outcome'[p] = "got" => outcome[p] = "got" \/ op_sent[p] = OP_ACK
  PROVE  SoleWriter'
  <1>1. \A q \in Children : q # p =>
          /\ op_sent'[q] = op_sent[q] /\ localfp'[q] = localfp[q]
          /\ written'[q] = written[q] /\ outcome'[q] = outcome[q]
    BY DEF RestKeeps, Keeps, Same, Procs
  <1>2. Untouched
    BY <1>1 DEF Untouched
  <1> QED
    BY <1>2, UntouchedSole

\* Only a child that writes and a child that opens a file touch it.
LEMMA SoleNext ==
  ASSUME TypeInv, FileOpen, CopyInv, TalkInv, SoleWriter, Shaped
  PROVE  SoleWriter'
  <1>1. Clients \cap Children = {}
    BY ConstAssumption
  <1>2. CASE Idles
    <2>1. Untouched
      BY <1>2 DEF Idles, Untouched, Keeps, Same, Procs
    <2> QED
      BY <2>1, UntouchedSole
  <1>3. ASSUME NEW p \in Procs, NEW why \in Outcomes, Fails(p, why) PROVE SoleWriter'
    BY <1>3, AloneSole DEF Fails
  <1>4. ASSUME NEW p \in Procs, NEW m \in net, NEW n \in Nat, Acknowledges(p, m, n)
        PROVE  SoleWriter'
    <2>1. /\ pc[p] = "fsm" /\ Receiving(p) /\ RestKeeps(p)
          /\ op_sent'[p] = OP_ACK /\ localfp'[p] = localfp[p] /\ Writes(p, n)
      BY <1>4 DEF Acknowledges, Waiting
    <2>2. CASE p \in Clients
      <3>1. UNCHANGED upload
        BY <2>1, <2>2 DEF Writes
      <3> QED
        BY <1>1, <2>1, <2>2, <3>1, AloneSole
    <2>3. CASE p \in Children /\ written'[p] = written[p] /\ UNCHANGED upload
      BY <2>1, <2>3, ReceiverWrites, AloneSole
    <2>4. CASE p \in Children /\ ~(written'[p] = written[p] /\ UNCHANGED upload)
      BY <1>4, <2>4, AppendsSole
    <2> QED
      BY <2>2, <2>3, <2>4 DEF Procs
  <1>5. ASSUME NEW p \in Procs, NEW m \in net, SendsNext(p, m) \/ IsSent(p, m)
        PROVE  SoleWriter'
    <2>1. /\ Sending(p) /\ RestKeeps(p) /\ UNCHANGED upload
          /\ op_sent'[p] = OP_DATA /\ outcome'[p] \in {outcome[p], "sent"}
      BY <1>5 DEF SendsNext, IsSent, Confirmed
    <2>2. op_sent[p] # OP_ACK /\ op_sent'[p] # OP_ACK
      BY <2>1 DEF Sending, OP_WRQ, OP_DATA, OP_ACK
    <2> QED
      BY <2>1, <2>2, AloneSole
  <1>6. ASSUME NEW p \in Procs, Resends(p) PROVE SoleWriter'
    <2>1. Untouched
      BY <1>6 DEF Resends, Untouched, Keeps, Same, Procs
    <2> QED
      BY <2>1, UntouchedSole
  <1>7. ASSUME NEW c \in Clients, NEW f \in Files, Opens(c, f) PROVE SoleWriter'
    BY <1>1, <1>7, AloneSole DEF Opens, Procs
  <1>8. ASSUME NEW ch \in Children, NEW m \in net, Forks(ch, m) PROVE SoleWriter'
    BY <1>8, AloneSole DEF Forks, Procs
  <1>9. ASSUME NEW ch \in Children, NEW f \in Files, ServesRead(ch, f) PROVE SoleWriter'
    <2>1. /\ pc[ch] = "start" /\ RestKeeps(ch) /\ UNCHANGED upload
          /\ op_sent'[ch] = OP_DATA /\ outcome'[ch] = outcome[ch]
      BY <1>9 DEF ServesRead, Serves, Asked
    <2>2. op_sent[ch] # OP_ACK /\ op_sent'[ch] # OP_ACK
      BY <2>1 DEF TalkInv, Unused, OP_DATA, OP_ACK
    <2> QED
      BY <2>1, <2>2, AloneSole DEF Procs
  <1>10. ASSUME NEW ch \in Children, NEW f \in Files, ServesWrite(ch, f) PROVE SoleWriter'
    BY <1>10, ServesWriteSole
  <1> QED
    BY <1>2, <1>3, <1>4, <1>5, <1>6, <1>7, <1>8, <1>9, <1>10
       DEF Shaped, GoesOn, Gets, OpensOnly, SendsRequest

-----------------------------------------------------------------------------
(* The theorem about them. *)

\* No child has a file open at first.
LEMMA SoleInit == Init => SoleWriter
  BY DEF Init, SoleWriter, Procs, OP_ACK

\* A put that ends well leaves a copy on the server, unless a second child
\* opened, and so emptied, the same file: the child that received it, which the
\* client has by SentRight, wrote to the end of the file every time.
THEOREM UploadCorrect == Spec => []UploadIntact
  <1>1. DialogueInv /\ SoleWriter /\ DialogueInv' /\ [Next]_vars => SoleWriter'
    <2> SUFFICES ASSUME DialogueInv, SoleWriter, DialogueInv', [Next]_vars
                 PROVE  SoleWriter'
      OBVIOUS
    <2>1. TypeInv /\ FileOpen /\ CopyInv /\ TalkInv /\ ReceiverComplete'
      BY DEF DialogueInv, CopyInv
    <2> QED
      BY <2>1, Shapes, SoleNext
  <1>2. DialogueInv /\ SoleWriter => UploadIntact
    <2> SUFFICES ASSUME DialogueInv, SoleWriter
                 PROVE  UploadIntact
      OBVIOUS
    <2>1. CopyInv /\ SendInv
      BY DEF DialogueInv
    <2>2. ASSUME NEW ch \in Children, outcome[ch] = "got", Openers(localfp[ch]) = {ch}
          PROVE  upload[localfp[ch]] = Copy(localfp[ch])
      <3>1. upload[localfp[ch]] = written[ch]
        BY <2>2 DEF SoleWriter
      <3> QED
        BY <2>1, <2>2, <3>1 DEF CopyInv, ReceiverComplete, Procs
    <2>3. ASSUME NEW c \in Clients, outcome[c] = "sent", upload[localfp[c]] # Copy(localfp[c])
          PROVE  \E a, b \in Openers(localfp[c]) : a # b
      <3>1. HasCopy(c, peer[c]) /\ c \notin Children
        BY <2>1, <2>3, ConstAssumption DEF SendInv, SentRight, Procs
      <3>2. PICK ch \in Children : outcome[ch] = "got" /\ localfp[ch] = localfp[c]
        BY <3>1 DEF HasCopy
      <3>3. ch \in Openers(localfp[c])
        BY <3>2 DEF SoleWriter, Openers
      <3>4. Openers(localfp[c]) # {ch}
        BY <2>2, <2>3, <3>2
      <3> QED
        BY <3>3, <3>4
    <2> QED
      BY <2>2, <2>3 DEF UploadIntact
  <1> QED
    BY <1>1, <1>2, SoleInit, DialogueInvariant, PTL DEF Spec

-----------------------------------------------------------------------------
(* What FileCopy sees of a process. *)

JobOf(p) == [state |-> StateOf(p), file |-> localfp[p], text |-> written[p]]

\* The state of a process in FileCopy.
LEMMA States ==
  ASSUME NEW p
  PROVE  /\ (pc[p] = "fsm" /\ Receiving(p)) => StateOf(p) = "receiving"
         /\ (pc[p] = "fsm" /\ Sending(p)) => StateOf(p) = "sending"
         /\ (pc[p] # "fsm" /\ outcome[p] = "got") => StateOf(p) = "received"
         /\ (pc[p] # "fsm" /\ outcome[p] = "sent") => StateOf(p) = "sent"
         /\ (pc[p] # "fsm" /\ outcome[p] \notin {"got", "sent"}) => StateOf(p) = "idle"
         /\ pc[p] # "fsm" => StateOf(p) \notin {"receiving", "sending"}
  BY DEF StateOf, Receiving, Sending, OP_RRQ, OP_WRQ, OP_DATA, OP_ACK

\* The same after a step.
LEMMA NextStates ==
  ASSUME NEW p
  PROVE  /\ (pc'[p] = "fsm" /\ Receiving(p)') => StateOf(p)' = "receiving"
         /\ (pc'[p] = "fsm" /\ Sending(p)') => StateOf(p)' = "sending"
         /\ (pc'[p] # "fsm" /\ outcome'[p] = "got") => StateOf(p)' = "received"
         /\ (pc'[p] # "fsm" /\ outcome'[p] = "sent") => StateOf(p)' = "sent"
         /\ (pc'[p] # "fsm" /\ outcome'[p] \notin {"got", "sent"}) => StateOf(p)' = "idle"
  BY DEF StateOf, Receiving, Sending, OP_RRQ, OP_WRQ, OP_DATA, OP_ACK

\* A process that does nothing keeps its job.
LEMMA KeepsJob ==
  ASSUME NEW q, Keeps(q)
  PROVE  JobOf(q)' = JobOf(q)
  BY DEF JobOf, StateOf, Receiving, Sending, Keeps, Same

\* A step of p gives it a new job and changes no other.
LEMMA JobStep ==
  ASSUME NEW p \in Procs, RestKeeps(p)
  PROVE  [q \in Procs |-> JobOf(q)]' = [[q \in Procs |-> JobOf(q)] EXCEPT ![p] = JobOf(p)']
  <1>1. \A q \in Procs : q # p => JobOf(q)' = JobOf(q)
    BY KeepsJob DEF RestKeeps
  <1> QED
    BY <1>1 DEF JobOf

\* Where no job changes and nothing is delivered, FileCopy stutters.
LEMMA NoJobStep ==
  ASSUME \A q \in Procs : JobOf(q)' = JobOf(q), Delivered' = Delivered
  PROVE  UNCHANGED <<[p \in Procs |-> [state |-> StateOf(p), file |-> localfp[p],
                                       text |-> written[p]]], Delivered>>
  BY DEF JobOf

\* What the children have received changes only with their outcomes.
LEMMA SameDelivered ==
  ASSUME UNCHANGED finished,
         \A ch \in Children :
           /\ outcome'[ch] = "got" <=> outcome[ch] = "got"
           /\ outcome[ch] = "got" => localfp'[ch] = localfp[ch]
  PROVE  Delivered' = Delivered
  BY DEF Delivered

\* A step in which p receives nothing.
LEMMA NothingDelivered ==
  ASSUME NEW p \in Procs, RestKeeps(p), UNCHANGED finished,
         p \in Children => outcome[p] # "got" /\ outcome'[p] # "got"
  PROVE  Delivered' = Delivered
  <1>1. \A q \in Children : q # p => outcome'[q] = outcome[q] /\ localfp'[q] = localfp[q]
    BY DEF RestKeeps, Keeps, Same, Procs
  <1> QED
    BY <1>1, SameDelivered

-----------------------------------------------------------------------------
(* The steps of FileCopy. *)

\* Abandon: p works no longer.
LEMMA AbandonStep ==
  ASSUME NEW p \in Procs, RestKeeps(p), Delivered' = Delivered,
         JobOf(p)' = [JobOf(p) EXCEPT !.state = "idle"]
  PROVE  FC!Abandon(p)
  BY JobStep DEF FC!Abandon, FC!Becomes, JobOf

\* Grows: the copy becomes t.
LEMMA GrowsStep ==
  ASSUME NEW p \in Procs, RestKeeps(p), NEW t,
         \/ Delivered' = Delivered /\ JobOf(p)' = [JobOf(p) EXCEPT !.text = t]
         \/ /\ localfp[p] \in Files /\ t = Copy(localfp[p])
            /\ JobOf(p)' = [state |-> "received", file |-> localfp[p], text |-> t]
            /\ Delivered' = Delivered \cup {localfp[p]}
  PROVE  FC!Grows(p, t)
  BY JobStep DEF FC!Grows, FC!Becomes, FC!Job, FC!Whole, Copy, JobOf

\* p stops: what it has copied stays.
LEMMA FailsCopies ==
  ASSUME CopyInv, NEW p \in Procs, NEW why \in Outcomes, Fails(p, why)
  PROVE  FC!Abandon(p)
  <1>1. /\ pc[p] # "exit" /\ (p \in Children => pc[p] # "idle") /\ Outside(p)'
        /\ outcome'[p] \notin {"got", "sent"} /\ RestKeeps(p) /\ UNCHANGED finished
        /\ localfp'[p] = localfp[p] /\ written'[p] = written[p]
    BY DEF Fails
  <1>2. pc'[p] # "fsm"
    BY <1>1 DEF Outside
  <1>3. JobOf(p)' = [JobOf(p) EXCEPT !.state = "idle"]
    BY <1>1, <1>2, NextStates DEF JobOf
  <1>4. p \in Children => outcome[p] # "got"
    BY <1>1, ConstAssumption DEF CopyInv, GotOutside
  <1>5. Delivered' = Delivered
    BY <1>1, <1>4, NothingDelivered
  <1> QED
    BY <1>1, <1>3, <1>5, AbandonStep

\* The job of a process that receives a file.
LEMMA ReceivingJob ==
  ASSUME NEW p \in Procs, pc[p] = "fsm", Receiving(p)
  PROVE  JobOf(p) = [state |-> "receiving", file |-> localfp[p], text |-> written[p]]
  BY States DEF JobOf

\* A block that is not the last: the copy grows by a chunk, or by nothing.
LEMMA GoesOnCopies ==
  ASSUME TypeInv, FileOpen, CopyInv, NEW p \in Procs, NEW m \in net, NEW n \in Nat,
         GoesOn(p, m, n)
  PROVE  FC!Receive(p)
  <1> DEFINE f == localfp[p]
             t == written'[p]
  <1>1. /\ pc[p] = "fsm" /\ Receiving(p) /\ RestKeeps(p) /\ UNCHANGED finished
        /\ pc'[p] = "fsm" /\ op_sent'[p] = OP_ACK /\ localfp'[p] = f
        /\ outcome'[p] = outcome[p] /\ outcome[p] # "got" /\ Writes(p, n)
    BY DEF GoesOn, Acknowledges, Waiting
  <1>2. JobOf(p) = [state |-> "receiving", file |-> f, text |-> written[p]]
    BY <1>1, ReceivingJob
  <1>3. JobOf(p)' = [state |-> "receiving", file |-> f, text |-> t]
    <2>1. Receiving(p)'
      BY <1>1 DEF Receiving
    <2> QED
      BY <1>1, <2>1, NextStates DEF JobOf
  <1>4. Delivered' = Delivered
    BY <1>1, NothingDelivered
  <1>5. JobOf(p)' = [JobOf(p) EXCEPT !.text = t]
    BY <1>2, <1>3
  <1>6. FC!Grows(p, t)
    BY <1>1, <1>4, <1>5, GrowsStep
  <1>7. CASE t = written[p]
    BY <1>2, <1>6, <1>7 DEF FC!Receive, JobOf
  <1>8. CASE t # written[p]
    <2>1. n = nextblknum[p] /\ n <= NChunks(f) /\ t = Append(written[p], <<f, n>>)
      BY <1>1, <1>8 DEF Writes
    <2>2. Len(written[p]) = n - 1 /\ Len(written[p]) \in Nat /\ f \in Files
      BY <1>1, <2>1 DEF CopyInv, CopyPrefix, FileOpen, TypeInv, TypeOK
    <2>3. Len(written[p]) + 1 = n /\ NChunks(f) \in Nat
      BY <2>2, ConstAssumption DEF NChunks
    <2>4. Len(written[p]) < NChunks(f)
      BY <2>1, <2>2, <2>3
    <2> QED
      BY <1>2, <1>6, <2>1, <2>2, <2>3, <2>4 DEF FC!Receive, JobOf
  <1> QED
    BY <1>7, <1>8

\* The last block: the copy is the whole file, and the file is delivered.
LEMMA GetsCopies ==
  ASSUME TypeInv, FileOpen, CopyInv, NEW p \in Procs, NEW m \in net, NEW n \in Nat,
         Gets(p, m, n)
  PROVE  FC!Receive(p)
  <1> DEFINE f == localfp[p]
             t == written'[p]
  <1>1. /\ pc[p] = "fsm" /\ Receiving(p) /\ RestKeeps(p)
        /\ Outside(p)' /\ outcome'[p] = "got" /\ localfp'[p] = f /\ t = Copy(f)
        /\ outcome[p] # "got" /\ Writes(p, n) /\ n = nextblknum[p]
        /\ finished' = IF p \in Clients THEN finished \cup {<<Port(p), f>>} ELSE finished
    BY DEF Gets, Acknowledges, Waiting
  <1>2. JobOf(p) = [state |-> "receiving", file |-> f, text |-> written[p]]
    BY <1>1, ReceivingJob
  <1>3. JobOf(p)' = [state |-> "received", file |-> f, text |-> t]
    <2>1. pc'[p] # "fsm"
      BY <1>1 DEF Outside
    <2> QED
      BY <1>1, <2>1, NextStates DEF JobOf
  <1>4. Delivered' = Delivered \cup {f}
    <2>1. \A q \in Children : q # p => outcome'[q] = outcome[q] /\ localfp'[q] = localfp[q]
      BY <1>1 DEF RestKeeps, Keeps, Same, Procs
    <2>2. CASE p \in Clients
      <3>1. p \notin Children
        BY <2>2, ConstAssumption
      <3>2. \A q \in Children : outcome'[q] = outcome[q] /\ localfp'[q] = localfp[q]
        BY <2>1, <3>1
      <3>3. {localfp[ch] : ch \in {x \in Children : outcome[x] = "got"}}'
              = {localfp[ch] : ch \in {x \in Children : outcome[x] = "got"}}
        BY <3>2
      <3>4. {get[2] : get \in finished}' = {get[2] : get \in finished} \cup {f}
        <4>1. PICK g : g = <<Port(p), f>>
          OBVIOUS
        <4>2. g[2] = f /\ finished' = finished \cup {g}
          BY <1>1, <2>2, <4>1
        <4> QED
          BY <4>2
      <3> QED
        BY <3>3, <3>4 DEF Delivered
    <2>3. CASE p \in Children
      <3>1. p \notin Clients
        BY <2>3, ConstAssumption
      <3> QED
        BY <1>1, <2>1, <2>3, <3>1 DEF Delivered
    <2> QED
      BY <2>2, <2>3 DEF Procs
  <1>6. f \in Files
    BY <1>1 DEF FileOpen
  <1>7. FC!Grows(p, t)
    BY <1>1, <1>3, <1>4, <1>6, GrowsStep
  <1>8. CASE t = written[p]
    BY <1>2, <1>7, <1>8 DEF FC!Receive, JobOf
  <1>9. CASE t # written[p]
    <2>1. n <= NChunks(f) /\ t = Append(written[p], <<f, n>>)
      BY <1>1, <1>9 DEF Writes
    <2>2. Len(written[p]) = n - 1 /\ Len(written[p]) \in Nat
      BY <1>1 DEF CopyInv, CopyPrefix, TypeInv, TypeOK
    <2>3. Len(written[p]) + 1 = n /\ NChunks(f) \in Nat
      BY <1>6, <2>2, ConstAssumption DEF NChunks
    <2>4. Len(written[p]) < NChunks(f)
      BY <2>1, <2>2, <2>3
    <2> QED
      BY <1>2, <1>6, <1>7, <2>1, <2>2, <2>3, <2>4 DEF FC!Receive, JobOf
  <1> QED
    BY <1>8, <1>9

\* The last block that p sent is acknowledged: somebody has the whole file.
LEMMA IsSentCopies ==
  ASSUME CopyInv, SendInv', NEW p \in Procs, NEW m \in net, IsSent(p, m)
  PROVE  FC!Confirm(p)
  <1> DEFINE f == localfp[p]
  <1>1. /\ pc[p] = "fsm" /\ Sending(p) /\ RestKeeps(p) /\ UNCHANGED finished
        /\ Outside(p)' /\ outcome'[p] = "sent" /\ localfp'[p] = f /\ written'[p] = written[p]
    BY DEF IsSent, Confirmed, Waiting
  <1>2. JobOf(p) = [state |-> "sending", file |-> f, text |-> written[p]]
    BY <1>1, States DEF JobOf
  <1>3. JobOf(p)' = [state |-> "sent", file |-> f, text |-> written[p]]
    <2>1. pc'[p] # "fsm"
      BY <1>1 DEF Outside
    <2> QED
      BY <1>1, <2>1, NextStates DEF JobOf
  <1>4. outcome[p] # "got"
    BY <1>1 DEF CopyInv, GotOutside
  <1>5. Delivered' = Delivered
    BY <1>1, <1>4, NothingDelivered
  <1>6. f \in Delivered
    <2>1. HasCopy(p, peer[p])'
      BY <1>1 DEF SendInv, SentRight
    <2>2. CASE p \in Children
      <3>1. <<peer'[p], f>> \in finished
        BY <1>1, <2>1, <2>2 DEF HasCopy
      <3>2. PICK g \in finished : g = <<peer'[p], f>>
        BY <3>1
      <3>3. g[2] = f
        BY <3>2
      <3> QED
        BY <3>3 DEF Delivered
    <2>3. CASE p \notin Children
      <3>1. PICK ch \in Children : outcome'[ch] = "got" /\ localfp'[ch] = f
        BY <1>1, <2>1, <2>3 DEF HasCopy
      <3>2. ch # p /\ ch \in Procs
        BY <2>3 DEF Procs
      <3>3. outcome[ch] = "got" /\ localfp[ch] = f
        BY <1>1, <3>1, <3>2 DEF RestKeeps, Keeps, Same
      <3> QED
        BY <3>3 DEF Delivered
    <2> QED
      BY <2>2, <2>3
  <1>7. JobOf(p)' = [JobOf(p) EXCEPT !.state = "sent"]
    BY <1>2, <1>3
  <1>8. JobOf(p).state = "sending" /\ JobOf(p).file = f
    BY <1>2
  <1> QED
    BY <1>1, <1>5, <1>6, <1>7, <1>8, JobStep DEF FC!Confirm, FC!Becomes, JobOf

\* Begin: p opens a file.
LEMMA BeginStep ==
  ASSUME NEW p \in Procs, RestKeeps(p), Delivered' = Delivered, pc[p] # "fsm",
         NEW f \in Files, NEW state \in {"receiving", "sending", "idle"},
         JobOf(p)' = [state |-> state, file |-> f, text |-> <<>>]
  PROVE  FC!Begin(p)
  <1>1. StateOf(p) \notin {"receiving", "sending"}
    BY States
  <1>2. [q \in Procs |-> JobOf(q)]'
          = [[q \in Procs |-> JobOf(q)] EXCEPT ![p] = [state |-> state, file |-> f, text |-> <<>>]]
    BY JobStep
  <1> QED
    BY <1>1, <1>2 DEF FC!Begin, FC!Working, FC!Becomes, FC!Job, JobOf

\* A client opens a local file, and may send a request.
LEMMA OpensCopies ==
  ASSUME NEW c \in Clients, NEW f \in Files,
         OpensOnly(c, f) \/ \E op \in {OP_RRQ, OP_WRQ} : SendsRequest(c, f, op)
  PROVE  FC!Begin(c)
  <1>1. /\ c \in Procs /\ c \notin Children /\ pc[c] # "fsm" /\ RestKeeps(c)
        /\ UNCHANGED finished /\ localfp'[c] = f /\ written'[c] = <<>> /\ outcome'[c] = "none"
    BY ConstAssumption DEF OpensOnly, SendsRequest, Opens, Procs
  <1>2. Delivered' = Delivered
    BY <1>1, NothingDelivered
  <1>3. PICK state \in {"receiving", "sending", "idle"} : StateOf(c)' = state
    <2>1. CASE OpensOnly(c, f)
      BY <1>1, <2>1, NextStates DEF OpensOnly
    <2>2. CASE \E op \in {OP_RRQ, OP_WRQ} : SendsRequest(c, f, op)
      <3>1. pc'[c] = "fsm" /\ (Receiving(c)' \/ Sending(c)')
        BY <2>2 DEF SendsRequest, Receiving, Sending
      <3> QED
        BY <3>1, NextStates
    <2> QED
      BY <2>1, <2>2
  <1>4. JobOf(c)' = [state |-> state, file |-> f, text |-> <<>>]
    BY <1>1, <1>3 DEF JobOf
  <1> QED
    BY <1>1, <1>2, <1>4, BeginStep

\* A child opens the file of its request.
LEMMA ServesCopies ==
  ASSUME TalkInv, NEW ch \in Children, NEW f \in Files, ServesRead(ch, f) \/ ServesWrite(ch, f)
  PROVE  FC!Begin(ch)
  <1>1. /\ ch \in Procs /\ pc[ch] = "start" /\ RestKeeps(ch) /\ UNCHANGED finished
        /\ pc'[ch] = "fsm" /\ localfp'[ch] = f /\ outcome'[ch] = outcome[ch]
        /\ op_sent'[ch] \in {OP_DATA, OP_ACK} /\ written'[ch] \in {written[ch], <<>>}
    BY DEF ServesRead, ServesWrite, Serves, Asked, Procs
  <1>2. outcome[ch] = "none" /\ written'[ch] = <<>>
    BY <1>1 DEF TalkInv, Unused
  <1>3. Delivered' = Delivered
    BY <1>1, <1>2, NothingDelivered
  <1>4. PICK state \in {"receiving", "sending", "idle"} : StateOf(ch)' = state
    <2>1. Receiving(ch)' \/ Sending(ch)'
      BY <1>1 DEF Receiving, Sending
    <2> QED
      BY <1>1, <2>1, NextStates
  <1>5. JobOf(ch)' = [state |-> state, file |-> f, text |-> <<>>]
    BY <1>1, <1>2, <1>4 DEF JobOf
  <1> QED
    BY <1>1, <1>3, <1>5, BeginStep

-----------------------------------------------------------------------------
(* The refinement. *)

\* Packets that no copy depends on, blocks sent, and children that have only
\* just been forked: FileCopy stutters.
LEMMA Stutters ==
  ASSUME CopyInv, TalkInv,
         \/ Idles
         \/ \E p \in Procs, m \in net : SendsNext(p, m)
         \/ \E p \in Procs : Resends(p)
         \/ \E ch \in Children, m \in net : Forks(ch, m)
  PROVE  (\A q \in Procs : JobOf(q)' = JobOf(q)) /\ Delivered' = Delivered
  <1>1. ASSUME \A q \in Procs : Keeps(q), UNCHANGED finished
        PROVE  (\A q \in Procs : JobOf(q)' = JobOf(q)) /\ Delivered' = Delivered
    BY <1>1, KeepsJob, SameDelivered DEF Keeps, Same, Procs
  <1>2. ASSUME NEW p \in Procs, RestKeeps(p), UNCHANGED finished, JobOf(p)' = JobOf(p),
               p \in Children => outcome[p] # "got" /\ outcome'[p] # "got"
        PROVE  (\A q \in Procs : JobOf(q)' = JobOf(q)) /\ Delivered' = Delivered
    BY <1>2, KeepsJob, NothingDelivered DEF RestKeeps
  <1>3. ASSUME NEW p \in Procs, NEW m \in net, SendsNext(p, m)
        PROVE  (\A q \in Procs : JobOf(q)' = JobOf(q)) /\ Delivered' = Delivered
    <2>1. /\ pc[p] = "fsm" /\ Sending(p) /\ RestKeeps(p) /\ UNCHANGED finished
          /\ pc'[p] = "fsm" /\ op_sent'[p] = OP_DATA /\ outcome'[p] = outcome[p]
          /\ localfp'[p] = localfp[p] /\ written'[p] = written[p]
      BY <1>3 DEF SendsNext, Confirmed, Waiting
    <2>2. outcome[p] # "got"
      BY <2>1 DEF CopyInv, GotOutside
    <2>3. Sending(p)'
      BY <2>1 DEF Sending
    <2>4. JobOf(p)' = JobOf(p)
      BY <2>1, <2>3, States, NextStates DEF JobOf
    <2> QED
      BY <1>2, <2>1, <2>2, <2>4
  <1>4. ASSUME NEW ch \in Children, NEW m \in net, Forks(ch, m)
        PROVE  (\A q \in Procs : JobOf(q)' = JobOf(q)) /\ Delivered' = Delivered
    <2>1. /\ ch \in Procs /\ pc[ch] = "idle" /\ RestKeeps(ch) /\ UNCHANGED finished
          /\ pc'[ch] = "start" /\ outcome'[ch] = outcome[ch]
          /\ localfp'[ch] = localfp[ch] /\ written'[ch] = written[ch]
      BY <1>4 DEF Forks, Procs
    <2>2. outcome[ch] = "none"
      BY <2>1 DEF TalkInv, Unused
    <2>3. JobOf(ch)' = JobOf(ch)
      BY <2>1, <2>2, States, NextStates DEF JobOf
    <2> QED
      BY <1>2, <2>1, <2>2, <2>3
  <1> QED
    BY <1>1, <1>3, <1>4 DEF Idles, Resends

\* Every step maps to a step of FileCopy, or to none.
LEMMA StepCopies ==
  ASSUME TypeInv, FileOpen, CopyInv, TalkInv, SendInv', Shaped
  PROVE  \/ FC!Next
         \/ (\A q \in Procs : JobOf(q)' = JobOf(q)) /\ Delivered' = Delivered
  <1>1. ASSUME NEW p \in Procs, NEW why \in Outcomes, Fails(p, why) PROVE FC!Next
    BY <1>1, FailsCopies DEF FC!Next
  <1>2. ASSUME NEW p \in Procs, NEW m \in net, NEW n \in Nat, GoesOn(p, m, n) \/ Gets(p, m, n)
        PROVE  FC!Next
    BY <1>2, GoesOnCopies, GetsCopies DEF FC!Next
  <1>3. ASSUME NEW p \in Procs, NEW m \in net, IsSent(p, m) PROVE FC!Next
    BY <1>3, IsSentCopies DEF FC!Next
  <1>4. ASSUME NEW c \in Clients, NEW f \in Files,
               OpensOnly(c, f) \/ \E op \in {OP_RRQ, OP_WRQ} : SendsRequest(c, f, op)
        PROVE  FC!Next
    BY <1>4, OpensCopies DEF FC!Next, Procs
  <1>5. ASSUME NEW ch \in Children, NEW f \in Files, ServesRead(ch, f) \/ ServesWrite(ch, f)
        PROVE  FC!Next
    BY <1>5, ServesCopies DEF FC!Next, Procs
  <1> QED
    BY <1>1, <1>2, <1>3, <1>4, <1>5, Stutters DEF Shaped

\* At first nobody has a file and nothing is delivered.
LEMMA InitCopies == Init => FC!Init
  <1> SUFFICES ASSUME Init
               PROVE  FC!Init
    OBVIOUS
  <1>1. \A p \in Procs : pc[p] = "idle" /\ outcome[p] = "none" /\ localfp[p] = NoFile
                         /\ written[p] = <<>>
    BY ConstAssumption DEF Init
  <1>2. \A p \in Procs : StateOf(p) = "idle"
    BY <1>1, States
  <1>3. Delivered = {}
    BY <1>1 DEF Init, Delivered, Procs
  <1> QED
    BY <1>1, <1>2, <1>3 DEF FC!Init, FC!Job

\* The client and the server implement FileCopy, for any number of clients,
\* children and files, and whatever the network, the timers and the users do: a
\* get or put that claims to have ended well has copied the file.
THEOREM Refinement == Spec => CopiesFiles
  <1>1. DialogueInv /\ DialogueInv' /\ [Next]_vars =>
          [FC!Next]_<<[p \in Procs |-> [state |-> StateOf(p), file |-> localfp[p],
                                        text |-> written[p]]], Delivered>>
    <2> SUFFICES ASSUME DialogueInv, DialogueInv', [Next]_vars
                 PROVE  [FC!Next]_<<[p \in Procs |-> [state |-> StateOf(p), file |-> localfp[p],
                                                      text |-> written[p]]], Delivered>>
      OBVIOUS
    <2>1. TypeInv /\ FileOpen /\ CopyInv /\ TalkInv /\ SendInv' /\ ReceiverComplete'
      BY DEF DialogueInv, CopyInv
    <2>2. Shaped
      BY <2>1, Shapes
    <2>3. \/ FC!Next
          \/ (\A q \in Procs : JobOf(q)' = JobOf(q)) /\ Delivered' = Delivered
      BY <2>1, <2>2, StepCopies
    <2> QED
      BY <2>3, NoJobStep
  <1> QED
    BY <1>1, InitCopies, DialogueInvariant, PTL DEF Spec, CopiesFiles, FC!Spec
=============================================================================
