--------------------------- MODULE TftpCopyProofs ---------------------------
(***************************************************************************)
(* Facts about the operators of TftpSystem, its type correctness, and the  *)
(* proof that CopyInv is an invariant, for any number of clients and       *)
(* children and files of any length: whatever the network does, a receiver *)
(* has an initial part of the file, and all of it when it ends.            *)
(***************************************************************************)
EXTENDS TftpInvariant, SequenceTheorems, TLAPS

-----------------------------------------------------------------------------
(* Facts about the operators. *)

Rtts == [nrexmt : 0..(RTT_MAXNREXMT + 1), currto : Int, nxtrto : Int]

\* A block number on the wire is never larger than the number itself, and equal
\* to it below 2^16.
LEMMA WireFacts ==
  ASSUME NEW n \in Nat
  PROVE  /\ Wire(n) \in 0..(BLKMOD - 1)
         /\ Wire(n) <= n
         /\ n < BLKMOD => Wire(n) = n
  BY ConstAssumption DEF Wire

\* A conversion to short yields an integer.
LEMMA ShortInt == ASSUME NEW n \in Int PROVE Short(n) \in Int
  <1>1. n % SHORTMOD \in Int
    BY ConstAssumption
  <1> QED
    BY <1>1, ConstAssumption DEF Short

\* The functions of rtt.c keep the structure well formed, and only
\* rtt_newpack() and rtt_timeout() change the number of retransmissions.
LEMMA RttFacts ==
  ASSUME NEW r \in Rtts
  PROVE  /\ rtt_newpack(r) \in Rtts /\ rtt_newpack(r).nrexmt = 0
         /\ rtt_stop(r) \in Rtts /\ rtt_stop(r).nrexmt = r.nrexmt
         /\ r.nrexmt <= RTT_MAXNREXMT =>
              rtt_timeout(r) \in Rtts /\ rtt_timeout(r).nrexmt = r.nrexmt + 1
  <1>1. rtt_newpack(r) \in Rtts /\ rtt_newpack(r).nrexmt = 0
    BY ConstAssumption DEF Rtts, rtt_newpack
  <1>2. rtt_stop(r) \in Rtts /\ rtt_stop(r).nrexmt = r.nrexmt
    BY DEF Rtts, rtt_stop
  <1>3. ASSUME r.nrexmt <= RTT_MAXNREXMT
        PROVE  rtt_timeout(r) \in Rtts /\ rtt_timeout(r).nrexmt = r.nrexmt + 1
    <2>1. r.nrexmt + 1 \in 0..(RTT_MAXNREXMT + 1)
      BY <1>3, ConstAssumption DEF Rtts
    <2> QED
      BY <1>2, <2>1 DEF Rtts, rtt_timeout
  <1> QED
    BY <1>1, <1>2, <1>3

\* So does rtt_start(), as long as exp_backoff is indexed inside its bounds.
LEMMA RttStart ==
  ASSUME NEW r \in Rtts, r.nrexmt <= RTT_MAXNREXMT, NEW x \in Rexmts
  PROVE  rtt_start(r, x) \in Rtts /\ rtt_start(r, x).nrexmt = r.nrexmt
  <1>1. exp_backoff[r.nrexmt + 1] \in Int
    BY ConstAssumption DEF Rtts, exp_backoff
  <1>2. r.currto * exp_backoff[r.nrexmt + 1] \in Int
    BY <1>1 DEF Rtts
  <1>3. Short(r.currto * exp_backoff[r.nrexmt + 1]) \in Int
    BY <1>2, ShortInt
  <1>4. x \in Int
    BY ConstAssumption
  <1>5. ASSUME NEW a \in Int, NEW b \in Int
        PROVE  /\ [r EXCEPT !.currto = a] \in Rtts
               /\ [r EXCEPT !.currto = a, !.nxtrto = b] \in Rtts
               /\ [r EXCEPT !.currto = a].nrexmt = r.nrexmt
               /\ [r EXCEPT !.currto = a, !.nxtrto = b].nrexmt = r.nrexmt
    BY DEF Rtts
  <1>6. r.nxtrto \in Int /\ 0 \in Int
    BY DEF Rtts
  <1> QED
    BY <1>3, <1>4, <1>5, <1>6 DEF rtt_start

\* The lengths file_read() returns.
LEMMA ChunkLenFacts ==
  ASSUME NEW f \in Files, NEW i \in Nat
  PROVE  /\ ChunkLen(f, i) \in 0..MAXDATA
         /\ ChunkLen(f, i) = MAXDATA <=> i <= NFull[f]
         /\ NFull[f] \in Nat
         /\ i > NFull[f] + 1 => ChunkLen(f, i) = 0
         /\ NChunks(f) \in Nat
  BY ConstAssumption DEF ChunkLen, NChunks

-----------------------------------------------------------------------------
(* Type correctness. *)

TypeInv == TypeOK /\ BackoffInBounds

\* fsm_loop() goes round: rttinfo stays well formed.
LEMMA LoopAgainType ==
  ASSUME TypeOK, NEW p \in Procs, NEW r \in Rtts, r.nrexmt <= RTT_MAXNREXMT,
         LoopAgain(p, r)
  PROVE  /\ rtt' \in [Procs -> Rtts]
         /\ armed' \in [Procs -> BOOLEAN]
         /\ rtt'[p].nrexmt = r.nrexmt
         /\ \A q \in Procs : q # p => rtt'[q] = rtt[q]
  <1>1. PICK x \in Rexmts :
          /\ rtt' = [rtt EXCEPT ![p] = rtt_start(r, x)]
          /\ armed' = [armed EXCEPT ![p] = (rtt_start(r, x).currto # 0)]
    BY DEF LoopAgain
  <1>2. rtt_start(r, x) \in Rtts /\ rtt_start(r, x).nrexmt = r.nrexmt
    BY RttStart
  <1>3. rtt \in [Procs -> Rtts] /\ armed \in [Procs -> BOOLEAN]
    BY DEF TypeOK, Rtts
  <1>4. (rtt_start(r, x).currto # 0) \in BOOLEAN
    OBVIOUS
  <1>5. armed' \in [Procs -> BOOLEAN]
    BY <1>1, <1>3, <1>4, Zenon
  <1> QED
    BY <1>1, <1>2, <1>3, <1>5

\* fsm_loop() returns.
LEMMA ReturnType ==
  ASSUME TypeInv, NEW p \in Procs, NEW r \in Rtts, NEW why \in Outcomes,
         Return(p, r, why)
  PROVE  /\ rtt' \in [Procs -> Rtts]
         /\ armed' \in [Procs -> BOOLEAN]
         /\ pc' \in [Procs \cup {Server} -> {"idle", "start", "fsm", "exit", "listen"}]
         /\ outcome' \in [Procs -> Outcomes]
         /\ BackoffInBounds'
  <1>1. rtt' \in [Procs -> Rtts] /\ outcome' \in [Procs -> Outcomes]
    BY DEF TypeInv, TypeOK, Return, Rtts
  <1>2. armed' \in [Procs -> BOOLEAN]
    BY DEF TypeInv, TypeOK, Return
  <1>3. /\ pc' \in [Procs \cup {Server} -> {"idle", "start", "fsm", "exit", "listen"}]
        /\ pc'[p] # "fsm"
        /\ \A q \in Procs : q # p => pc'[q] = pc[q]
    BY DEF TypeInv, TypeOK, Return
  <1>4. \A q \in Procs : q # p => rtt'[q] = rtt[q]
    BY DEF TypeInv, TypeOK, Return
  <1> QED
    BY <1>1, <1>2, <1>3, <1>4 DEF TypeInv, BackoffInBounds

\* A process exits.
LEMMA ExitType ==
  ASSUME TypeInv, NEW p \in Procs, NEW why \in Outcomes, Exit(p, why)
  PROVE  /\ armed' \in [Procs -> BOOLEAN]
         /\ pc' \in [Procs \cup {Server} -> {"idle", "start", "fsm", "exit", "listen"}]
         /\ outcome' \in [Procs -> Outcomes]
         /\ \A q \in Procs : pc'[q] = "fsm" => pc[q] = "fsm" /\ q # p
  BY DEF TypeInv, TypeOK, Exit

\* A datagram is received and others are sent.
LEMMA ExchangeType ==
  ASSUME TypeOK, NEW m \in net, NEW out, out \subseteq Messages, Exchange(m, out)
  PROVE  net' \subseteq Messages /\ dups' \in 0..MaxDups
  BY ConstAssumption DEF TypeOK, Exchange

\* Packets and datagrams are well formed.
LEMMA PacketTypes ==
  /\ \A n \in Nat : ACK(n) \in Packets
  /\ \A op \in {OP_RRQ, OP_WRQ}, f \in Files : RQ(op, f) \in Packets
  /\ \A f \in Files, k, n \in Nat : NextData(f, k, n) \in Packets
  /\ ERROR \in Packets /\ NoPacket \in Packets
  <1>1. \A n \in Nat : ACK(n) \in Packets
    BY WireFacts DEF ACK, Packets, Acks
  <1>2. \A op \in {OP_RRQ, OP_WRQ}, f \in Files : RQ(op, f) \in Packets
    BY DEF RQ, Packets, Requests
  <1>3. \A f \in Files, k, n \in Nat : NextData(f, k, n) \in Packets
    <2> SUFFICES ASSUME NEW f \in Files, NEW k \in Nat, NEW n \in Nat
                 PROVE  NextData(f, k, n) \in Packets
      OBVIOUS
    <2>1. Wire(n) \in 0..(BLKMOD - 1) /\ ChunkLen(f, k + 1) \in 0..MAXDATA
      BY WireFacts, ChunkLenFacts
    <2>2. <<f, k + 1>> \in Chunks
      BY DEF Chunks
    <2> QED
      BY <2>1, <2>2 DEF NextData, DATA, Packets, Datas
  <1>4. ERROR \in Packets /\ NoPacket \in Packets
    BY DEF ERROR, NoPacket, Packets, Others
  <1> QED
    BY <1>1, <1>2, <1>3, <1>4

\* A datagram between ports is a message.
LEMMA MsgTypes ==
  ASSUME NEW s \in Ports, NEW d \in Ports, NEW k \in Packets
  PROVE  Msg(s, d, k) \in Messages
  BY DEF Msg, Messages

\* The ports that processes name.
LEMMA PortTypes ==
  /\ TypeOK => \A p \in Procs : Port(p) \in Ports
  /\ WellKnown \in Ports /\ Foreign \in Ports
  BY DEF TypeOK, Port, Ports, WellKnown, Foreign

\* The part of a pass of fsm_loop() that all handlers share.
LEMMA HandlesType ==
  ASSUME TypeOK, NEW p \in Procs, NEW m \in net, NEW h, Handles(p, m, h)
  PROVE  /\ peer' \in [Procs -> Ports] /\ recv_first' \in [Procs -> BOOLEAN]
         /\ UNCHANGED <<recvbuff, localfp, sock, strays>>
         /\ m.src \in Ports /\ m.dst \in Ports /\ m.pkt \in Packets
  <1>1. m \in Messages
    BY DEF TypeOK
  <1>2. m.src \in Ports /\ m.dst \in Ports /\ m.pkt \in Packets
    BY <1>1 DEF Messages
  <1> QED
    BY <1>2 DEF TypeOK, Handles

\* A packet with the opcode of DATA, of an ACK or of a request has its fields.
LEMMA PacketFields ==
  ASSUME NEW k \in Packets
  PROVE  /\ k.op = OP_DATA => k \in Datas
         /\ k.op = OP_ACK => k \in Acks
         /\ k.op \in {OP_RRQ, OP_WRQ} => k \in Requests
  BY DEF Packets, Requests, Datas, Acks, Others, OP_DATA, OP_ACK, OP_RRQ, OP_WRQ,
         OP_ERROR

\* The handlers recv_DATA() and recv_ACK() are called for such packets only, and
\* recv_RRQ(), recv_WRQ() for requests.
LEMMA TableFacts ==
  ASSUME NEW p \in Procs, NEW s, NEW r
  PROVE  /\ fsm_ptr(p, s, r) = "recv_DATA" => r = OP_DATA /\ s \in {OP_RRQ, OP_ACK}
         /\ fsm_ptr(p, s, r) = "recv_ACK" => r = OP_ACK /\ s \in {OP_WRQ, OP_DATA}
         /\ fsm_ptr(p, s, r) = "recv_RRQ" => r = OP_RRQ
         /\ fsm_ptr(p, s, r) = "recv_WRQ" => r = OP_WRQ
  BY DEF fsm_ptr, fsm_ptr_client, fsm_ptr_server, OP_DATA, OP_ACK, OP_RRQ, OP_WRQ, OP_ERROR

\* write() past the end of a file leaves a hole.
LEMMA WriteAtType ==
  ASSUME NEW S, Hole \in S, NEW s \in Seq(S), NEW k \in Nat \ {0}, NEW ch \in S
  PROVE  WriteAt(s, k, ch) \in Seq(S)
  <1> DEFINE n == IF k > Len(s) THEN k ELSE Len(s)
  <1>1. n \in Nat
    OBVIOUS
  <1>2. \A i \in 1..n : (IF i = k THEN ch ELSE IF i <= Len(s) THEN s[i] ELSE Hole) \in S
    OBVIOUS
  <1> HIDE DEF n
  <1>3. [i \in 1..n |-> IF i = k THEN ch ELSE IF i <= Len(s) THEN s[i] ELSE Hole]
          \in Seq(S)
    BY <1>1, <1>2
  <1> QED
    BY <1>3 DEF WriteAt, n

\* file_write() keeps both ends' files sequences of chunks.
LEMMA FileWriteType ==
  ASSUME TypeOK, NEW p \in Procs, NEW k, k.data \in Chunks, file_write(p, k)
  PROVE  written' \in [Procs -> Seq(Chunks)] /\ upload' \in [Files -> Seq(Chunks \cup {Hole})]
  <1> DEFINE new == WriteAt(upload[localfp[p]], Len(written[p]) + 1, k.data)
  <1>1. written' \in [Procs -> Seq(Chunks)]
    <2>1. written[p] \in Seq(Chunks) /\ written \in [Procs -> Seq(Chunks)]
      BY DEF TypeOK
    <2>2. Append(written[p], k.data) \in Seq(Chunks)
      BY <2>1
    <2>3. written' = written \/ written' = [written EXCEPT ![p] = Append(written[p], k.data)]
      BY DEF file_write
    <2> QED
      BY <2>1, <2>2, <2>3
  <1>2. ASSUME localfp[p] \in Files
        PROVE  new \in Seq(Chunks \cup {Hole})
    <2>1. upload[localfp[p]] \in Seq(Chunks \cup {Hole})
      BY <1>2 DEF TypeOK
    <2>2. Len(written[p]) + 1 \in Nat \ {0}
      BY DEF TypeOK
    <2> QED
      BY <2>1, <2>2, WriteAtType
  <1>3. upload' = upload \/ upload' = [upload EXCEPT ![localfp[p]] = new]
    BY DEF file_write
  <1> HIDE DEF new
  <1>4. upload' \in [Files -> Seq(Chunks \cup {Hole})]
    BY <1>2, <1>3 DEF TypeOK
  <1> QED
    BY <1>1, <1>4

\* A pass of fsm_loop() that ends the process.
LEMMA TypeLastPass ==
  ASSUME TypeInv, NEW p \in Procs, NEW m \in net, NEW h, Handles(p, m, h),
         NEW why \in Outcomes, Exit(p, why),
         rtt' = [rtt EXCEPT ![p] = rtt_stop(@)], Exchange(m, {}),
         UNCHANGED xferVars
  PROVE  TypeInv'
  <1> USE DEF TypeInv
  <1>1. /\ peer' \in [Procs -> Ports] /\ recv_first' \in [Procs -> BOOLEAN]
        /\ UNCHANGED <<recvbuff, localfp, sock, strays>>
    BY HandlesType
  <1>2. /\ armed' \in [Procs -> BOOLEAN]
        /\ pc' \in [Procs \cup {Server} -> {"idle", "start", "fsm", "exit", "listen"}]
        /\ outcome' \in [Procs -> Outcomes]
        /\ \A q \in Procs : pc'[q] = "fsm" => pc[q] = "fsm" /\ q # p
    BY ExitType
  <1>3. rtt \in [Procs -> Rtts]
    BY DEF TypeOK, Rtts
  <1>4. rtt_stop(rtt[p]) \in Rtts
    BY <1>3, RttFacts
  <1>5. /\ rtt' \in [Procs -> Rtts]
        /\ \A q \in Procs : q # p => rtt'[q] = rtt[q]
    BY <1>3, <1>4
  <1>6. net' \subseteq Messages /\ dups' \in 0..MaxDups
    BY ExchangeType
  <1>7. BackoffInBounds'
    BY <1>2, <1>5 DEF BackoffInBounds
  <1> QED
    BY <1>1, <1>2, <1>5, <1>6, <1>7 DEF TypeOK, xferVars, Rtts

\* A block number out of the window.
LEMMA TypeOutOfWindow ==
  ASSUME TypeInv, NEW p \in Procs, NEW m \in net, NEW h, Handles(p, m, h),
         OutOfWindow(p, m)
  PROVE  TypeInv'
  <1>1. "ahead" \in Outcomes /\ "behind" \in Outcomes
    BY DEF Outcomes
  <1> QED
    BY <1>1, TypeLastPass DEF OutOfWindow

\* recv_DATA() with its file_write() and send_ACK().
LEMMA TypeRecvData ==
  ASSUME TypeInv, NEW p \in Procs, NEW m \in net, recv_DATA(p, m)
  PROVE  TypeInv'
  <1> USE DEF TypeInv
  <1>1. Handles(p, m, "recv_DATA")
    BY DEF recv_DATA
  <1>2. /\ peer' \in [Procs -> Ports] /\ recv_first' \in [Procs -> BOOLEAN]
        /\ UNCHANGED <<recvbuff, localfp, sock, strays>>
        /\ m.src \in Ports /\ m.dst \in Ports /\ m.pkt \in Packets
    BY <1>1, HandlesType
  <1>3. m.pkt \in Datas
    BY <1>1, <1>2, PacketFields, TableFacts DEF Handles
  <1>4. m.pkt.blk \in Nat /\ m.pkt.data \in Chunks /\ m.pkt.len \in 0..MAXDATA
    BY <1>3, ConstAssumption DEF Datas
  <1>5. rtt \in [Procs -> Rtts] /\ pc[p] = "fsm"
    BY <1>1 DEF TypeOK, Rtts, Handles
  <1>6. /\ rtt_stop(rtt[p]) \in Rtts
        /\ rtt_stop(rtt[p]).nrexmt <= RTT_MAXNREXMT
    BY <1>5, RttFacts, ConstAssumption DEF BackoffInBounds
  <1>7. ASSUME send_ACK(p, m, m.pkt.blk, m.pkt.len)
        PROVE  /\ sendbuff' \in [Procs -> Packets]
               /\ op_sent' \in [Procs -> {0, OP_RRQ, OP_WRQ, OP_DATA, OP_ACK}]
               /\ net' \subseteq Messages /\ dups' \in 0..MaxDups
               /\ rtt' \in [Procs -> Rtts] /\ armed' \in [Procs -> BOOLEAN]
               /\ pc' \in [Procs \cup {Server} -> {"idle", "start", "fsm", "exit", "listen"}]
               /\ outcome' \in [Procs -> Outcomes]
               /\ finished' \subseteq Ports \X (Files \cup {NoFile})
               /\ BackoffInBounds'
    <2>1. ACK(m.pkt.blk) \in Packets
      BY <1>4, PacketTypes
    <2>2. Port(p) \in Ports
      BY PortTypes
    <2>3. /\ sendbuff' \in [Procs -> Packets]
          /\ op_sent' \in [Procs -> {0, OP_RRQ, OP_WRQ, OP_DATA, OP_ACK}]
      BY <1>7, <2>1 DEF send_ACK, TypeOK
    <2>4. net' \subseteq Messages /\ dups' \in 0..MaxDups
      <3>1. {Msg(Port(p), m.src, ACK(m.pkt.blk))} \subseteq Messages
        BY <1>2, <2>1, <2>2, MsgTypes
      <3> QED
        BY <1>7, <3>1, ExchangeType DEF send_ACK
    <2>5. CASE m.pkt.len = MAXDATA
      <3>1. LoopAgain(p, rtt_stop(rtt[p])) /\ UNCHANGED <<pc, outcome, finished>>
        BY <1>7, <2>5 DEF send_ACK
      <3>2. /\ rtt' \in [Procs -> Rtts]
            /\ armed' \in [Procs -> BOOLEAN]
            /\ rtt'[p].nrexmt = rtt_stop(rtt[p]).nrexmt
            /\ \A q \in Procs : q # p => rtt'[q] = rtt[q]
        BY <3>1, <1>6, LoopAgainType
      <3>3. BackoffInBounds'
        <4>1. rtt'[p].nrexmt = rtt[p].nrexmt
          BY <3>2, <1>5, RttFacts
        <4> QED
          BY <4>1, <3>1, <3>2 DEF BackoffInBounds
      <3> QED
        BY <3>1, <3>2, <3>3, <2>3, <2>4 DEF TypeOK
    <2>6. CASE m.pkt.len # MAXDATA
      <3>1. Return(p, rtt_stop(rtt[p]), "got")
        BY <1>7, <2>6 DEF send_ACK
      <3>2. finished' \subseteq Ports \X (Files \cup {NoFile})
        <4>1. localfp[p] \in Files \cup {NoFile}
          BY DEF TypeOK
        <4> QED
          BY <4>1, <1>7, <2>6, <2>2 DEF send_ACK, TypeOK
      <3>3. "got" \in Outcomes
        BY DEF Outcomes
      <3> QED
        BY <3>1, <3>2, <3>3, <1>6, <2>3, <2>4, ReturnType
    <2> QED
      BY <2>5, <2>6
  <1>8. CASE OutOfWindow(p, m)
    BY <1>1, <1>8, TypeOutOfWindow
  <1>9. CASE /\ DataExpected(p, m)
             /\ nextblknum' = [nextblknum EXCEPT ![p] = @ + 1]
             /\ file_write(p, m.pkt)
             /\ send_ACK(p, m, m.pkt.blk, m.pkt.len)
             /\ UNCHANGED <<lastsend, fpos>>
    <2>1. nextblknum' \in [Procs -> Nat]
      BY <1>9 DEF TypeOK
    <2>2. written' \in [Procs -> Seq(Chunks)] /\ upload' \in [Files -> Seq(Chunks \cup {Hole})]
      BY <1>4, <1>9, FileWriteType
    <2> QED
      BY <1>2, <1>7, <1>9, <2>1, <2>2 DEF TypeOK, Rtts
  <1>10. CASE /\ m.pkt.blk = nextblknum[p] - 1
              /\ send_ACK(p, m, m.pkt.blk, m.pkt.len)
              /\ UNCHANGED <<nextblknum, written, upload, lastsend, fpos>>
    BY <1>2, <1>7, <1>10 DEF TypeOK, Rtts
  <1> QED
    BY <1>8, <1>9, <1>10 DEF recv_DATA

\* send_DATA() of the next block.
LEMMA SendDataType ==
  ASSUME TypeOK, NEW p \in Procs, NEW f \in Files, NEW k \in Nat, NEW n \in Nat,
         send_DATA(p, f, k, n)
  PROVE  /\ lastsend' \in [Procs -> 0..MAXDATA] /\ nextblknum' \in [Procs -> Nat]
         /\ fpos' \in [Procs -> Nat] /\ sendbuff' \in [Procs -> Packets]
         /\ op_sent' \in [Procs -> {0, OP_RRQ, OP_WRQ, OP_DATA, OP_ACK}]
  <1>1. ChunkLen(f, k + 1) \in 0..MAXDATA
    BY ChunkLenFacts
  <1>2. NextData(f, k, n) \in Packets
    BY PacketTypes
  <1> QED
    BY <1>1, <1>2 DEF TypeOK, send_DATA

\* recv_ACK() with its file_read() and send_DATA().
LEMMA TypeRecvAck ==
  ASSUME TypeInv, NEW p \in Procs, NEW m \in net, recv_ACK(p, m),
         localfp[p] \in Files
  PROVE  TypeInv'
  <1> USE DEF TypeInv
  <1>1. Handles(p, m, "recv_ACK")
    BY DEF recv_ACK
  <1>2. /\ peer' \in [Procs -> Ports] /\ recv_first' \in [Procs -> BOOLEAN]
        /\ UNCHANGED <<recvbuff, localfp, sock, strays>>
        /\ m.src \in Ports /\ m.dst \in Ports /\ m.pkt \in Packets
    BY <1>1, HandlesType
  <1>3. rtt \in [Procs -> Rtts] /\ pc[p] = "fsm"
    BY <1>1 DEF TypeOK, Rtts, Handles
  <1>4. /\ rtt_stop(rtt[p]) \in Rtts
        /\ rtt_stop(rtt[p]).nrexmt = rtt[p].nrexmt
        /\ rtt_stop(rtt[p]).nrexmt <= RTT_MAXNREXMT
    BY <1>3, RttFacts, ConstAssumption DEF BackoffInBounds
  <1>5. ASSUME LoopAgain(p, rtt_stop(rtt[p])), UNCHANGED pc
        PROVE  /\ rtt' \in [Procs -> Rtts]
               /\ armed' \in [Procs -> BOOLEAN]
               /\ BackoffInBounds'
    <2>1. /\ rtt' \in [Procs -> Rtts]
          /\ armed' \in [Procs -> BOOLEAN]
          /\ rtt'[p].nrexmt = rtt_stop(rtt[p]).nrexmt
          /\ \A q \in Procs : q # p => rtt'[q] = rtt[q]
      BY <1>5, <1>4, LoopAgainType
    <2> QED
      BY <2>1, <1>4, <1>5 DEF BackoffInBounds
  <1>6. CASE /\ send_DATA(p, localfp[p], fpos[p], nextblknum[p] + 1)
             /\ Exchange(m, {Msg(Port(p), m.src,
                            NextData(localfp[p], fpos[p], nextblknum[p] + 1))})
             /\ LoopAgain(p, rtt_stop(rtt[p]))
             /\ UNCHANGED <<pc, outcome, written, upload, finished>>
    <2>1. fpos[p] \in Nat /\ nextblknum[p] + 1 \in Nat
      BY DEF TypeOK
    <2>2. NextData(localfp[p], fpos[p], nextblknum[p] + 1) \in Packets
      BY <2>1, PacketTypes
    <2>3. {Msg(Port(p), m.src, NextData(localfp[p], fpos[p], nextblknum[p] + 1))}
             \subseteq Messages
      BY <2>2, <1>2, MsgTypes, PortTypes
    <2>4. net' \subseteq Messages /\ dups' \in 0..MaxDups
      BY <1>6, <2>3, ExchangeType
    <2>5. /\ lastsend' \in [Procs -> 0..MAXDATA] /\ nextblknum' \in [Procs -> Nat]
          /\ fpos' \in [Procs -> Nat] /\ sendbuff' \in [Procs -> Packets]
          /\ op_sent' \in [Procs -> {0, OP_RRQ, OP_WRQ, OP_DATA, OP_ACK}]
      BY <1>6, <2>1, SendDataType
    <2> QED
      BY <1>2, <1>5, <1>6, <2>4, <2>5 DEF TypeOK, Rtts
  <1>7. CASE /\ Return(p, rtt_stop(rtt[p]), "sent")
             /\ Exchange(m, {})
             /\ UNCHANGED xferVars
    <2>1. net' \subseteq Messages /\ dups' \in 0..MaxDups
      BY <1>7, ExchangeType
    <2>2. "sent" \in Outcomes
      BY DEF Outcomes
    <2> QED
      BY <1>2, <1>4, <1>7, <2>1, <2>2, ReturnType DEF TypeOK, Rtts, xferVars
  <1>8. CASE /\ LoopAgain(p, rtt_stop(rtt[p]))
             /\ Exchange(m, {})
             /\ UNCHANGED <<pc, outcome>> /\ UNCHANGED xferVars
    <2>1. net' \subseteq Messages /\ dups' \in 0..MaxDups
      BY <1>8, ExchangeType
    <2> QED
      BY <1>2, <1>5, <1>8, <2>1 DEF TypeOK, Rtts, xferVars
  <1>9. CASE OutOfWindow(p, m)
    BY <1>1, <1>9, TypeOutOfWindow
  <1> QED
    BY <1>6, <1>7, <1>8, <1>9 DEF recv_ACK

\* recv_RQERR(), fsm_error(), fsm_invalid() and the exits of net_recv().
LEMMA TypeOtherPackets ==
  ASSUME TypeInv, NEW p \in Procs, NEW m \in net,
         recv_RQERR(p, m) \/ fsm_invalid(p, m) \/ net_recv_other(p, m)
  PROVE  TypeInv'
  <1> USE DEF TypeInv
  <1>0. {"rqerr", "botch", "port"} \subseteq Outcomes
    BY DEF Outcomes
  <1>1. CASE recv_RQERR(p, m)
    <2>1. /\ peer' \in [Procs -> Ports] /\ recv_first' \in [Procs -> BOOLEAN]
          /\ UNCHANGED <<recvbuff, localfp, sock, strays>>
      BY <1>1, HandlesType DEF recv_RQERR
    <2>2. net' \subseteq Messages /\ dups' \in 0..MaxDups
      BY <1>1, ExchangeType DEF recv_RQERR
    <2>3. rtt_stop(rtt[p]) \in Rtts
      BY RttFacts DEF TypeOK, Rtts
    <2>4. Return(p, rtt_stop(rtt[p]), "rqerr") /\ UNCHANGED xferVars
      BY <1>1 DEF recv_RQERR
    <2> QED
      BY <1>0, <2>1, <2>2, <2>3, <2>4, ReturnType DEF TypeOK, Rtts, xferVars
  <1>2. CASE fsm_invalid(p, m)
    BY <1>0, <1>2, TypeLastPass DEF fsm_invalid
  <1>3. CASE net_recv_other(p, m)
    <2>1. /\ armed' \in [Procs -> BOOLEAN]
          /\ pc' \in [Procs \cup {Server} -> {"idle", "start", "fsm", "exit", "listen"}]
          /\ outcome' \in [Procs -> Outcomes]
          /\ \A q \in Procs : pc'[q] = "fsm" => pc[q] = "fsm" /\ q # p
      BY <1>0, <1>3, ExitType DEF net_recv_other
    <2>2. net' \subseteq Messages /\ dups' \in 0..MaxDups
      BY <1>3, ExchangeType DEF net_recv_other
    <2>3. /\ UNCHANGED <<rtt, peer, recv_first, recvbuff, localfp, sock, strays>>
          /\ UNCHANGED xferVars
      BY <1>3 DEF net_recv_other
    <2>4. BackoffInBounds'
      BY <2>1, <2>3 DEF BackoffInBounds
    <2> QED
      BY <2>1, <2>2, <2>3, <2>4 DEF TypeOK, xferVars
  <1> QED
    BY <1>1, <1>2, <1>3

\* timeout(): give up, or retransmit.
LEMMA TypeTimeout ==
  ASSUME TypeInv, NEW p \in Procs, timeout(p)
  PROVE  TypeInv'
  <1> USE DEF TypeInv
  <1>1. pc[p] = "fsm" /\ rtt \in [Procs -> Rtts]
    BY DEF timeout, TypeOK, Rtts
  <1>2. /\ rtt_timeout(rtt[p]) \in Rtts
        /\ rtt_timeout(rtt[p]).nrexmt = rtt[p].nrexmt + 1
    BY <1>1, RttFacts, ConstAssumption DEF BackoffInBounds
  <1>3. /\ UNCHANGED <<peer, recv_first, recvbuff, localfp, sock, dups, strays>>
        /\ UNCHANGED xferVars
    BY DEF timeout
  <1>4. CASE Return(p, rtt_timeout(rtt[p]), "timeout") /\ UNCHANGED net
    <2>1. "timeout" \in Outcomes
      BY DEF Outcomes
    <2> QED
      BY <1>2, <1>3, <1>4, <2>1, ReturnType DEF TypeOK, Rtts, xferVars
  <1>5. CASE /\ ~GiveUp(rtt_timeout(rtt[p]))
             /\ LoopAgain(p, rtt_timeout(rtt[p]))
             /\ net' = net \cup {Msg(Port(p), peer[p], sendbuff[p])}
             /\ UNCHANGED <<pc, outcome>>
    <2>1. rtt_timeout(rtt[p]).nrexmt <= RTT_MAXNREXMT
      BY <1>2, <1>5, ConstAssumption DEF GiveUp, Rtts
    <2>2. /\ rtt' \in [Procs -> Rtts]
          /\ armed' \in [Procs -> BOOLEAN]
          /\ rtt'[p].nrexmt = rtt_timeout(rtt[p]).nrexmt
          /\ \A q \in Procs : q # p => rtt'[q] = rtt[q]
      BY <1>2, <1>5, <2>1, LoopAgainType
    <2>3. rtt'[p].nrexmt \in 0..RTT_MAXNREXMT
      BY <1>2, <2>1, <2>2, ConstAssumption DEF Rtts
    <2>4. BackoffInBounds'
      BY <1>5, <2>2, <2>3 DEF BackoffInBounds
    <2>5. Msg(Port(p), peer[p], sendbuff[p]) \in Messages
      BY MsgTypes, PortTypes DEF TypeOK
    <2>6. net' \subseteq Messages
      BY <1>5, <2>5 DEF TypeOK
    <2> QED
      BY <1>3, <1>5, <2>2, <2>4, <2>6 DEF TypeOK, Rtts, xferVars
  <1> QED
    BY <1>4, <1>5 DEF timeout

\* A process is interrupted, stopped, or loses its alarm.
LEMMA TypeInterruptions ==
  ASSUME TypeInv,
         \/ \E p \in Procs : alarm_lost(p)
         \/ \E p \in Procs \cup {Server} : sys_error(p)
         \/ \E c \in Clients : sig_intr(c) \/ cmd_exit(c)
         \/ \E ch \in Children : not_a_request(ch)
  PROVE  TypeInv'
  <1> USE DEF TypeInv
  <1>0. {"intr", "quit", "syserr", "botch"} \subseteq Outcomes
    BY DEF Outcomes
  <1>1. /\ UNCHANGED <<rtt, net, peer, recv_first, recvbuff, localfp, sock, dups,
                       strays>>
        /\ UNCHANGED xferVars
    BY DEF alarm_lost, sys_error, sig_intr, cmd_exit, not_a_request, FirstPass
  <1>2. /\ pc' \in [Procs \cup {Server} -> {"idle", "start", "fsm", "exit", "listen"}]
        /\ \A q \in Procs : pc'[q] = "fsm" => pc[q] = "fsm"
    BY DEF alarm_lost, sys_error, sig_intr, cmd_exit, not_a_request, Exit, TypeOK,
           Procs
  <1>3. outcome' \in [Procs -> Outcomes]
    <2>1. \/ outcome' = outcome
          \/ \E q \in Procs, w \in {"intr", "quit", "syserr", "botch"} :
               outcome' = [outcome EXCEPT ![q] = w]
      BY DEF alarm_lost, sys_error, sig_intr, cmd_exit, not_a_request, Exit, Procs
    <2> QED
      BY <1>0, <2>1 DEF TypeOK
  <1>4. armed' \in [Procs -> BOOLEAN]
    BY DEF alarm_lost, sys_error, sig_intr, cmd_exit, not_a_request, Exit, TypeOK,
           Procs
  <1>5. BackoffInBounds'
    BY <1>1, <1>2 DEF BackoffInBounds
  <1> QED
    BY <1>1, <1>2, <1>3, <1>4, <1>5 DEF TypeOK, xferVars

\* do_get(), do_put(), also when net_open() fails.
LEMMA TypeCommands ==
  ASSUME TypeInv, NEW c \in Clients, NEW f \in Files,
         \/ do_get(c, f) \/ do_put(c, f)
         \/ \E blk \in {0, 1} : net_open_fails(c, f, blk)
  PROVE  TypeInv'
  <1> USE DEF TypeInv
  <1>0. c \in Procs
    BY DEF Procs
  <1>1. ASSUME NEW blk \in {0, 1}, file_open(c, f, blk)
        PROVE  /\ localfp' \in [Procs -> Files \cup {NoFile}]
               /\ nextblknum' \in [Procs -> Nat] /\ fpos' \in [Procs -> Nat]
               /\ written' \in [Procs -> Seq(Chunks)]
               /\ outcome' \in [Procs -> Outcomes]
    <2>1. <<>> \in Seq(Chunks) /\ "none" \in Outcomes
      BY DEF Outcomes
    <2>2. localfp' \in [Procs -> Files \cup {NoFile}]
      BY <1>1 DEF file_open, TypeOK
    <2>5. nextblknum' \in [Procs -> Nat] /\ fpos' \in [Procs -> Nat]
      <3>1. nextblknum \in [Procs -> Nat] /\ fpos \in [Procs -> Nat] /\ blk \in Nat
        BY DEF TypeOK
      <3> QED
        BY <1>1, <3>1 DEF file_open
    <2>3. written' \in [Procs -> Seq(Chunks)]
      BY <1>1, <2>1 DEF file_open, TypeOK
    <2>4. outcome' \in [Procs -> Outcomes]
      BY <1>1, <2>1 DEF file_open, TypeOK
    <2> QED
      BY <2>2, <2>3, <2>4, <2>5
  <1>2. ASSUME NEW op \in {OP_RRQ, OP_WRQ}, send_RQ(c, f, op)
        PROVE  /\ sock' \in [Procs -> Nat] /\ peer' \in [Procs -> Ports]
               /\ recv_first' \in [Procs -> BOOLEAN]
               /\ sendbuff' \in [Procs -> Packets]
               /\ net' \subseteq Messages
               /\ op_sent' \in [Procs -> {0, OP_RRQ, OP_WRQ, OP_DATA, OP_ACK}]
               /\ pc' \in [Procs \cup {Server} -> {"idle", "start", "fsm", "exit", "listen"}]
               /\ rtt' \in [Procs -> Rtts] /\ armed' \in [Procs -> BOOLEAN]
               /\ BackoffInBounds'
    <2>1. RQ(op, f) \in Packets /\ WellKnown \in Ports
      BY PacketTypes, PortTypes
    <2>2. <<c, sock[c] + 1>> \in Ports
      BY <1>0 DEF Ports, TypeOK
    <2>3. Msg(<<c, sock[c] + 1>>, WellKnown, RQ(op, f)) \in Messages
      BY <2>1, <2>2, MsgTypes
    <2>4. net' \subseteq Messages
      BY <1>2, <2>3 DEF send_RQ, TypeOK
    <2>5. rtt[c] \in Rtts
      BY <1>0 DEF TypeOK, Rtts
    <2>6. rtt_newpack(rtt[c]) \in Rtts /\ rtt_newpack(rtt[c]).nrexmt = 0
      BY <2>5, RttFacts
    <2>7. 0 \in 0..RTT_MAXNREXMT /\ 0 <= RTT_MAXNREXMT
      BY ConstAssumption
    <2>8. LoopAgain(c, rtt_newpack(rtt[c]))
      BY <1>2 DEF send_RQ
    <2>9. /\ rtt' \in [Procs -> Rtts]
          /\ armed' \in [Procs -> BOOLEAN]
          /\ rtt'[c].nrexmt = 0
          /\ \A q \in Procs : q # c => rtt'[q] = rtt[q]
      BY <1>0, <2>6, <2>7, <2>8, LoopAgainType
    <2>10. /\ pc' \in [Procs \cup {Server} -> {"idle", "start", "fsm", "exit", "listen"}]
           /\ \A q \in Procs : q # c => pc'[q] = pc[q]
      BY <1>0, <1>2 DEF send_RQ, TypeOK
    <2>11. BackoffInBounds'
      BY <2>7, <2>9, <2>10 DEF BackoffInBounds
    <2>12. sock' \in [Procs -> Nat] /\ peer' \in [Procs -> Ports]
      BY <1>0, <1>2, <2>1 DEF send_RQ, TypeOK
    <2>13. recv_first' \in [Procs -> BOOLEAN] /\ sendbuff' \in [Procs -> Packets]
      BY <1>0, <1>2, <2>1 DEF send_RQ, TypeOK
    <2>14. op_sent' \in [Procs -> {0, OP_RRQ, OP_WRQ, OP_DATA, OP_ACK}]
      BY <1>0, <1>2 DEF send_RQ, TypeOK
    <2> QED
      BY <2>4, <2>9, <2>10, <2>11, <2>12, <2>13, <2>14
  <1>3. CASE do_get(c, f)
    <2>1. 1 \in {0, 1} /\ file_open(c, f, 1) /\ send_RQ(c, f, OP_RRQ)
      BY <1>3 DEF do_get
    <2>2. UNCHANGED <<lastsend, recvbuff, upload, finished, dups, strays>>
      BY <1>3 DEF do_get
    <2> QED
      BY <1>1, <1>2, <2>1, <2>2 DEF TypeOK, Rtts
  <1>4. CASE do_put(c, f)
    <2>1. 0 \in {0, 1} /\ file_open(c, f, 0) /\ send_RQ(c, f, OP_WRQ)
      BY <1>4 DEF do_put
    <2>2. UNCHANGED <<recvbuff, upload, finished, dups, strays>>
      BY <1>4 DEF do_put
    <2>3. lastsend' \in [Procs -> 0..MAXDATA]
      BY <1>0, <1>4, ConstAssumption DEF do_put, TypeOK
    <2> QED
      BY <1>1, <1>2, <2>1, <2>2, <2>3 DEF TypeOK, Rtts
  <1>5. CASE \E blk \in {0, 1} : net_open_fails(c, f, blk)
    <2>1. PICK blk \in {0, 1} : net_open_fails(c, f, blk)
      BY <1>5
    <2>2. /\ file_open(c, f, blk)
          /\ UNCHANGED <<pc, op_sent, lastsend, sendbuff, recvbuff, peer, recv_first,
                         rtt, armed, sock, net, upload, finished, dups, strays>>
      BY <2>1 DEF net_open_fails
    <2>3. BackoffInBounds'
      BY <2>2 DEF BackoffInBounds
    <2> QED
      BY <1>1, <2>2, <2>3 DEF TypeOK
  <1> QED
    BY <1>3, <1>4, <1>5

\* The parent forks a child.
LEMMA TypeFork ==
  ASSUME TypeInv, NEW ch \in Children, NEW m \in net, net_open(ch, m)
  PROVE  TypeInv'
  <1> USE DEF TypeInv
  <1>0. ch \in Procs /\ m \in Messages
    BY DEF Procs, TypeOK
  <1>1. m.src \in Ports /\ m.pkt \in Packets
    BY <1>0 DEF Messages
  <1>2. peer' \in [Procs -> Ports] /\ sock' \in [Procs -> Nat]
    BY <1>0, <1>1 DEF net_open, TypeOK
  <1>3. recvbuff' \in [Children -> Packets]
    BY <1>1 DEF net_open, TypeOK
  <1>4. /\ pc' \in [Procs \cup {Server} -> {"idle", "start", "fsm", "exit", "listen"}]
        /\ \A q \in Procs : pc'[q] = "fsm" => pc[q] = "fsm"
    BY <1>0 DEF net_open, TypeOK
  <1>5. net' \subseteq Messages /\ dups' \in 0..MaxDups
    BY ExchangeType DEF net_open
  <1>6. /\ UNCHANGED <<rtt, armed, outcome, recv_first, localfp, strays>>
        /\ UNCHANGED xferVars
    BY DEF net_open
  <1>7. BackoffInBounds'
    BY <1>4, <1>6 DEF BackoffInBounds
  <1> QED
    BY <1>2, <1>3, <1>4, <1>5, <1>6, <1>7 DEF TypeOK, xferVars

\* The child begins fsm_loop().
LEMMA EnterLoopType ==
  ASSUME TypeInv, NEW ch \in Children, EnterLoop(ch)
  PROVE  /\ rtt' \in [Procs -> Rtts] /\ armed' \in [Procs -> BOOLEAN]
         /\ pc' \in [Procs \cup {Server} -> {"idle", "start", "fsm", "exit", "listen"}]
         /\ BackoffInBounds'
  <1> USE DEF TypeInv
  <1>0. ch \in Procs
    BY DEF Procs
  <1>1. PICK x \in Rexmts :
          LoopAgain(ch, rtt_stop(rtt_start(rtt_newpack(rtt[ch]), x)))
    BY DEF EnterLoop
  <1> DEFINE r == rtt_stop(rtt_start(rtt_newpack(rtt[ch]), x))
  <1>2. rtt[ch] \in Rtts
    BY <1>0 DEF TypeOK, Rtts
  <1>3. rtt_newpack(rtt[ch]) \in Rtts /\ rtt_newpack(rtt[ch]).nrexmt = 0
    BY <1>2, RttFacts
  <1>4. 0 <= RTT_MAXNREXMT /\ 0 \in 0..RTT_MAXNREXMT
    BY ConstAssumption
  <1>5. /\ rtt_start(rtt_newpack(rtt[ch]), x) \in Rtts
        /\ rtt_start(rtt_newpack(rtt[ch]), x).nrexmt = 0
    BY <1>3, <1>4, RttStart
  <1>6. r \in Rtts /\ r.nrexmt = 0
    BY <1>5, RttFacts
  <1>7. LoopAgain(ch, r)
    BY <1>1
  <1> HIDE DEF r
  <1>8. /\ rtt' \in [Procs -> Rtts]
        /\ armed' \in [Procs -> BOOLEAN]
        /\ rtt'[ch].nrexmt = 0
        /\ \A q \in Procs : q # ch => rtt'[q] = rtt[q]
    BY <1>0, <1>4, <1>6, <1>7, LoopAgainType
  <1>9. /\ pc' \in [Procs \cup {Server} -> {"idle", "start", "fsm", "exit", "listen"}]
        /\ \A q \in Procs : q # ch => pc'[q] = pc[q]
    BY <1>0 DEF EnterLoop, TypeOK
  <1>10. BackoffInBounds'
    BY <1>4, <1>8, <1>9 DEF BackoffInBounds
  <1> QED
    BY <1>8, <1>9, <1>10

\* The child answers the request: recv_RRQ(), recv_WRQ(), send_ERROR().
LEMMA TypeAnswer ==
  ASSUME TypeInv, NEW ch \in Children,
         recv_RRQ(ch) \/ recv_WRQ(ch) \/ send_ERROR(ch)
  PROVE  TypeInv'
  <1> USE DEF TypeInv
  <1>0. ch \in Procs
    BY DEF Procs
  <1>1. UNCHANGED <<peer, recv_first, recvbuff, sock, dups, strays>>
    BY DEF recv_RRQ, recv_WRQ, send_ERROR, FirstPass
  <1>2. \/ fsm_ptr(ch, 0, recvbuff[ch].op) = "recv_RRQ"
        \/ fsm_ptr(ch, 0, recvbuff[ch].op) = "recv_WRQ"
    BY DEF recv_RRQ, recv_WRQ, send_ERROR, FirstPass
  <1>3. recvbuff[ch] \in Packets /\ peer[ch] \in Ports
    BY <1>0 DEF TypeOK
  <1>4. recvbuff[ch].op \in {OP_RRQ, OP_WRQ}
    BY <1>0, <1>2, TableFacts
  <1>5. recvbuff[ch].file \in Files
    <2>1. recvbuff[ch] \in Requests
      BY <1>3, <1>4, PacketFields
    <2> QED
      BY <2>1 DEF Requests
  <1>6. localfp' \in [Procs -> Files \cup {NoFile}]
    BY <1>0, <1>5 DEF recv_RRQ, recv_WRQ, send_ERROR, TypeOK
  <1>7. Port(ch) \in Ports
    BY <1>0, PortTypes
  <1>8. CASE recv_RRQ(ch)
    <2>1. send_DATA(ch, recvbuff[ch].file, 0, 1) /\ 0 \in Nat /\ 1 \in Nat
      BY <1>8 DEF recv_RRQ
    <2>2. /\ lastsend' \in [Procs -> 0..MAXDATA] /\ nextblknum' \in [Procs -> Nat]
          /\ fpos' \in [Procs -> Nat] /\ sendbuff' \in [Procs -> Packets]
          /\ op_sent' \in [Procs -> {0, OP_RRQ, OP_WRQ, OP_DATA, OP_ACK}]
      BY <1>0, <1>5, <2>1, SendDataType
    <2>3. NextData(recvbuff[ch].file, 0, 1) \in Packets
      BY <1>5, PacketTypes
    <2>4. Msg(Port(ch), peer[ch], NextData(recvbuff[ch].file, 0, 1)) \in Messages
      BY <1>3, <1>7, <2>3, MsgTypes
    <2>5. net' \subseteq Messages
      BY <1>8, <2>4 DEF recv_RRQ, TypeOK
    <2>6. EnterLoop(ch) /\ UNCHANGED <<outcome, written, upload, finished>>
      BY <1>8 DEF recv_RRQ
    <2> QED
      BY <1>1, <1>6, <2>2, <2>5, <2>6, EnterLoopType DEF TypeOK, Rtts
  <1>9. CASE recv_WRQ(ch)
    <2>1. ACK(0) \in Packets
      BY PacketTypes
    <2>2. Msg(Port(ch), peer[ch], ACK(0)) \in Messages
      BY <1>3, <1>7, <2>1, MsgTypes
    <2>3. net' \subseteq Messages
      BY <1>9, <2>2 DEF recv_WRQ, TypeOK
    <2>4. sendbuff' \in [Procs -> Packets] /\ nextblknum' \in [Procs -> Nat]
      BY <1>0, <1>9, <2>1 DEF recv_WRQ, TypeOK
    <2>5. op_sent' \in [Procs -> {0, OP_RRQ, OP_WRQ, OP_DATA, OP_ACK}]
      BY <1>0, <1>9 DEF recv_WRQ, TypeOK
    <2>6. upload' \in [Files -> Seq(Chunks \cup {Hole})]
      <3>1. <<>> \in Seq(Chunks \cup {Hole})
        OBVIOUS
      <3> QED
        BY <1>9, <3>1 DEF recv_WRQ, TypeOK
    <2>7. written' \in [Procs -> Seq(Chunks)]
      <3>1. <<>> \in Seq(Chunks)
        OBVIOUS
      <3> QED
        BY <1>0, <1>9, <3>1 DEF recv_WRQ, TypeOK
    <2>8. EnterLoop(ch) /\ UNCHANGED <<outcome, lastsend, fpos, finished>>
      BY <1>9 DEF recv_WRQ
    <2> QED
      BY <1>1, <1>6, <2>3, <2>4, <2>5, <2>6, <2>7, <2>8, EnterLoopType DEF TypeOK, Rtts
  <1>10. CASE send_ERROR(ch)
    <2>1. ERROR \in Packets /\ "denied" \in Outcomes
      BY PacketTypes DEF Outcomes
    <2>2. Msg(Port(ch), peer[ch], ERROR) \in Messages
      BY <1>3, <1>7, <2>1, MsgTypes
    <2>3. net' \subseteq Messages
      BY <1>10, <2>2 DEF send_ERROR, TypeOK
    <2>4. sendbuff' \in [Procs -> Packets]
      BY <1>10, <2>1 DEF send_ERROR, TypeOK
    <2>5. Exit(ch, "denied") /\ UNCHANGED rtt
      BY <1>10 DEF send_ERROR
    <2>6. /\ armed' \in [Procs -> BOOLEAN]
          /\ pc' \in [Procs \cup {Server} -> {"idle", "start", "fsm", "exit", "listen"}]
          /\ outcome' \in [Procs -> Outcomes]
          /\ \A q \in Procs : pc'[q] = "fsm" => pc[q] = "fsm" /\ q # ch
      BY <1>0, <2>1, <2>5, ExitType
    <2>7. BackoffInBounds'
      BY <2>5, <2>6 DEF BackoffInBounds
    <2>8. UNCHANGED <<rtt, localfp, op_sent, nextblknum, lastsend, fpos, written,
                      upload, finished>>
      BY <1>10 DEF send_ERROR
    <2> QED
      BY <1>1, <2>3, <2>4, <2>6, <2>7, <2>8 DEF TypeOK
  <1> QED
    BY <1>8, <1>9, <1>10

\* A foreign implementation sends a datagram.
LEMMA TypeStray ==
  ASSUME TypeInv, NEW m \in StrayMsgs, stray(m)
  PROVE  TypeInv'
  <1> USE DEF TypeInv
  <1>1. PICK s \in {Foreign} \cup {peer[p] : p \in Procs},
             d \in {WellKnown} \cup {Port(p) : p \in Procs},
             k \in {ERROR, NoPacket} : m = Msg(s, d, k)
    BY DEF StrayMsgs
  <1>2. s \in Ports /\ d \in Ports /\ k \in Packets
    <2>1. peer \in [Procs -> Ports]
      BY DEF TypeOK
    <2>2. s \in Ports /\ d \in Ports
      BY <2>1, PortTypes
    <2> QED
      BY <2>2, PacketTypes
  <1>3. m \in Messages
    BY <1>1, <1>2, MsgTypes
  <1>4. net' \subseteq Messages
    BY <1>3 DEF stray, TypeOK
  <1>5. strays' \in 0..MaxStrays
    BY ConstAssumption DEF stray, TypeOK
  <1>6. /\ UNCHANGED <<pc, outcome, armed, rtt, peer, recv_first, recvbuff, localfp,
                       sock, dups>>
        /\ UNCHANGED xferVars
    BY DEF stray
  <1>7. BackoffInBounds'
    BY <1>6 DEF BackoffInBounds
  <1> QED
    BY <1>4, <1>5, <1>6, <1>7 DEF TypeOK, xferVars

\* fsm_loop() is entered with a file open, which stays open.
LEMMA FileOpenNext ==
  ASSUME TypeInv, FileOpen, Next
  PROVE  FileOpen'
  <1> USE DEF TypeInv
  <1> DEFINE Keep == /\ localfp' = localfp
                     /\ \A q \in Procs : pc'[q] = "fsm" => pc[q] = "fsm"
  <1>0. Keep => FileOpen'
    BY DEF FileOpen
  <1>1. ASSUME NEW p \in Procs, Receive(p) PROVE Keep
    <2>1. PICK m \in net : \/ recv_DATA(p, m) \/ recv_ACK(p, m) \/ recv_RQERR(p, m)
                           \/ fsm_invalid(p, m) \/ net_recv_other(p, m)
      BY <1>1 DEF Receive
    <2>2. localfp' = localfp
      BY <2>1 DEF recv_DATA, recv_ACK, recv_RQERR, fsm_invalid, net_recv_other, Handles
    <2>3. pc' = pc \/ \E v \in {"idle", "exit"} : pc' = [pc EXCEPT ![p] = v]
      BY <2>1 DEF recv_DATA, recv_ACK, recv_RQERR, fsm_invalid, net_recv_other,
                  send_ACK, OutOfWindow, Return, Exit
    <2> QED
      BY <2>2, <2>3 DEF TypeOK
  <1>2. ASSUME NEW p \in Procs \cup {Server}, sys_error(p) PROVE Keep
    BY <1>2 DEF sys_error, TypeOK
  <1>3. ASSUME NEW p \in Procs, timeout(p) \/ alarm_lost(p) PROVE Keep
    <2>1. localfp' = localfp
      BY <1>3 DEF timeout, alarm_lost
    <2>2. pc' = pc \/ \E v \in {"idle", "exit"} : pc' = [pc EXCEPT ![p] = v]
      BY <1>3 DEF timeout, alarm_lost, Return
    <2> QED
      BY <2>1, <2>2 DEF TypeOK
  <1>4. ASSUME Fork PROVE Keep
    BY <1>4 DEF Fork, net_open, TypeOK, Procs
  <1>5. ASSUME NEW ch \in Children, Start(ch) PROVE FileOpen'
    <2>0. ch \in Procs
      BY DEF Procs
    <2>1. CASE recv_RRQ(ch) \/ recv_WRQ(ch)
      <3>1. recvbuff[ch] \in Packets /\ recvbuff[ch].op \in {OP_RRQ, OP_WRQ}
        BY <2>0, <2>1, TableFacts DEF recv_RRQ, recv_WRQ, FirstPass, TypeOK
      <3>2. recvbuff[ch].file \in Files
        BY <3>1, PacketFields DEF Requests
      <3>3. /\ pc' = [pc EXCEPT ![ch] = "fsm"]
            /\ localfp' = [localfp EXCEPT ![ch] = recvbuff[ch].file]
        BY <2>1 DEF recv_RRQ, recv_WRQ, EnterLoop
      <3> QED
        BY <2>0, <3>2, <3>3 DEF FileOpen, TypeOK
    <2>2. CASE send_ERROR(ch) \/ not_a_request(ch)
      BY <1>0, <2>2 DEF send_ERROR, not_a_request, Exit, TypeOK, Procs
    <2> QED
      BY <1>5, <2>1, <2>2 DEF Start
  <1>6. ASSUME NEW c \in Clients, Command(c) PROVE FileOpen'
    <2>0. c \in Procs
      BY DEF Procs
    <2>1. CASE cmd_exit(c)
      BY <1>0, <2>0, <2>1 DEF cmd_exit, Exit, TypeOK
    <2>2. ASSUME NEW f \in Files, do_get(c, f) \/ do_put(c, f)
          PROVE  FileOpen'
      <3>1. /\ pc' = [pc EXCEPT ![c] = "fsm"]
            /\ localfp' = [localfp EXCEPT ![c] = f]
        BY <2>2 DEF do_get, do_put, file_open, send_RQ
      <3> QED
        BY <2>0, <3>1 DEF FileOpen, TypeOK
    <2>3. ASSUME NEW f \in Files, NEW blk \in {0, 1}, net_open_fails(c, f, blk)
          PROVE  FileOpen'
      <3>1. pc' = pc /\ localfp' = [localfp EXCEPT ![c] = f]
        BY <2>3 DEF net_open_fails, file_open
      <3> QED
        BY <2>0, <3>1 DEF FileOpen, TypeOK
    <2> QED
      BY <1>6, <2>1, <2>2, <2>3 DEF Command
  <1>7. ASSUME NEW c \in Clients, sig_intr(c) PROVE Keep
    BY <1>7 DEF sig_intr, TypeOK, Procs
  <1>8. ASSUME NEW m \in StrayMsgs, stray(m) PROVE Keep
    BY <1>8 DEF stray
  <1>9. ASSUME Done PROVE Keep
    BY <1>9 DEF Done, vars
  <1> QED
    BY <1>0, <1>1, <1>2, <1>3, <1>4, <1>5, <1>6, <1>7, <1>8, <1>9 DEF Next

\* The initial state is well formed.
LEMMA TypeInit == Init => TypeInv /\ FileOpen
  <1> SUFFICES ASSUME Init PROVE TypeInv /\ FileOpen
    OBVIOUS
  <1>1. /\ NoPacket \in Packets /\ WellKnown \in Ports /\ "none" \in Outcomes
        /\ 0 \in 0..MAXDATA /\ 0 \in 0..MaxDups /\ 0 \in 0..MaxStrays
        /\ 0 \in 0..(RTT_MAXNREXMT + 1) /\ 0 \in 0..RTT_MAXNREXMT
    BY PacketTypes, PortTypes, ConstAssumption DEF Outcomes
  <1>2. <<>> \in Seq(Chunks) /\ <<>> \in Seq(Chunks \cup {Hole})
    OBVIOUS
  <1>3. pc \in [Procs \cup {Server} -> {"idle", "start", "fsm", "exit", "listen"}]
    BY DEF Init
  <1>4. \A p \in Procs : pc[p] = "idle"
    BY ConstAssumption DEF Init
  <1>5. TypeOK
    BY <1>1, <1>2, <1>3 DEF Init, TypeOK
  <1> QED
    BY <1>4, <1>5 DEF TypeInv, BackoffInBounds, FileOpen

\* Every step keeps the state well formed.
LEMMA TypeNext ==
  ASSUME TypeInv, FileOpen, [Next]_vars
  PROVE  TypeInv' /\ FileOpen'
  <1>1. CASE Next
    <2>1. ASSUME NEW p \in Procs, Receive(p) PROVE TypeInv'
      <3>1. PICK m \in net : \/ recv_DATA(p, m) \/ recv_ACK(p, m) \/ recv_RQERR(p, m)
                             \/ fsm_invalid(p, m) \/ net_recv_other(p, m)
        BY <2>1 DEF Receive
      <3>2. recv_ACK(p, m) => localfp[p] \in Files
        BY DEF recv_ACK, Handles, FileOpen
      <3> QED
        BY <3>1, <3>2, TypeRecvData, TypeRecvAck, TypeOtherPackets
    <2>2. ASSUME NEW c \in Clients, Command(c) PROVE TypeInv'
      BY <2>2, TypeCommands, TypeInterruptions DEF Command
    <2>3. ASSUME NEW ch \in Children, Start(ch) PROVE TypeInv'
      BY <2>3, TypeAnswer, TypeInterruptions DEF Start
    <2>4. ASSUME Fork PROVE TypeInv'
      BY <2>4, TypeFork DEF Fork
    <2>5. ASSUME Done PROVE TypeInv'
      BY <2>5 DEF Done, vars, TypeInv, TypeOK, BackoffInBounds
    <2>6. TypeInv'
      BY <1>1, <2>1, <2>2, <2>3, <2>4, <2>5, TypeTimeout, TypeInterruptions,
         TypeStray DEF Next
    <2> QED
      BY <1>1, <2>6, FileOpenNext
  <1>2. CASE UNCHANGED vars
    BY <1>2 DEF vars, TypeInv, TypeOK, BackoffInBounds, FileOpen
  <1> QED
    BY <1>1, <1>2

\* The globals of every process and the network always have values of their
\* types: in particular no packet of more than MAXDATA bytes of data is sent.
THEOREM TypeCorrect == Spec => []TypeOK
  <1>1. TypeInv => TypeOK
    BY DEF TypeInv
  <1> QED
    BY <1>1, TypeInit, TypeNext, PTL DEF Spec

\* rtt_start() never indexes exp_backoff outside its bounds: retransmissions are
\* counted over the whole transfer and end it at RTT_MAXNREXMT.
THEOREM BackoffCorrect == Spec => []BackoffInBounds
  <1>1. TypeInv => BackoffInBounds
    BY DEF TypeInv
  <1> QED
    BY <1>1, TypeInit, TypeNext, PTL DEF Spec

-----------------------------------------------------------------------------
(* Block numbers. *)

\* A packet for block i <= n with the wire number n is block n, and one with the
\* wire number n - 1 is block n - 1.
LEMMA WireExact ==
  ASSUME NEW n \in Nat, NEW i \in 1..n
  PROVE  /\ Wire(i) = n => i = n
         /\ Wire(i) = n - 1 => i = n - 1
  <1>1. i \in Nat /\ Wire(i) <= i /\ Wire(i) \in 0..(BLKMOD - 1)
        /\ (i < BLKMOD => Wire(i) = i)
    BY WireFacts
  <1>2. Wire(BLKMOD) = 0
    BY ConstAssumption DEF Wire
  <1> QED
    BY <1>1, <1>2, ConstAssumption

\* Ports are not shared.
LEMMA PortsDiffer ==
  ASSUME NEW p, NEW q, Port(p) = Port(q)
  PROVE  p = q
  BY DEF Port

\* A sequence of the chunks of f in order is the copy of f.
LEMMA CopyOf ==
  ASSUME NEW f, NEW s \in Seq(Chunks), Len(s) = NChunks(f),
         \A j \in 1..NChunks(f) : s[j] = <<f, j>>
  PROVE  s = Copy(f)
  <1>1. s \in [1..NChunks(f) -> Chunks]
    BY LenProperties
  <1> QED
    BY <1>1 DEF Copy

\* Appending the next chunk of f to the chunks before it.
LEMMA NextChunk ==
  ASSUME NEW f \in Files, NEW n \in Nat \ {0}, NEW s \in Seq(Chunks), Len(s) = n - 1,
         \A j \in 1..(n - 1) : s[j] = <<f, j>>,
         NEW t, t = Append(s, <<f, n>>)
  PROVE  t \in Seq(Chunks) /\ Len(t) = n /\ \A j \in 1..n : t[j] = <<f, j>>
  <1>1. <<f, n>> \in Chunks
    BY DEF Chunks
  <1>2. /\ t \in Seq(Chunks) /\ Len(t) = n
        /\ \A j \in 1..(n - 1) : t[j] = s[j]
        /\ t[n] = <<f, n>>
    BY <1>1, AppendProperties
  <1>3. \A j \in 1..n : j \in 1..(n - 1) \/ j = n
    OBVIOUS
  <1>4. \A j \in 1..n : t[j] = <<f, j>>
    BY <1>2, <1>3
  <1> QED
    BY <1>2, <1>4

-----------------------------------------------------------------------------
(* Steps by which processes at most leave fsm_loop() and no DATA, ACK or      *)
(* request is sent.                                                           *)

\* q stops, at the prompt or for good, without having received a file.
Stops(q) ==
  /\ pc'[q] = "exit" \/ (q \in Clients /\ pc'[q] = "idle")
  /\ outcome'[q] # "got"
  /\ Bound(peer'[q])
  /\ q \in Children => peer'[q] = peer[q] /\ ~recv_first'[q]

Stays(q) ==
  /\ pc'[q] = pc[q] /\ peer'[q] = peer[q] /\ recv_first'[q] = recv_first[q]
  /\ sendbuff'[q] = sendbuff[q] /\ outcome'[q] = outcome[q]

\* x is an error packet, or one too short to be any.
Harmless(x) ==
  /\ x.pkt.op \in {OP_ERROR, 0}
  /\ Bound(x.src) /\ Bound(x.dst)
  /\ \A ch \in Children : pc'[ch] = "start" => x.src # Port(ch) /\ x.dst # Port(ch)

QuietStep ==
  /\ UNCHANGED <<op_sent, nextblknum, lastsend, fpos, written, localfp, sock, recvbuff>>
  /\ \A q \in Procs : Stays(q) \/ Stops(q)
  /\ \A x \in net' : x \in net \/ Harmless(x)

\* Such a step keeps the invariant.
LEMMA QuietInv ==
  ASSUME TypeOK, TypeOK', CopyInv, QuietStep
  PROVE  CopyInv'
  <1> USE DEF QuietStep, Stays, Stops
  <1>1. PortsBound'
    BY ConstAssumption DEF CopyInv, PortsBound, Bound, Harmless, Procs
  <1>2. StartSilent'
    BY DEF CopyInv, StartSilent, Harmless, Port, Procs
  <1>3. Parties'
    <2>1. \A x \in net' : (IsRequest(x.pkt) \/ IsData(x.pkt) \/ IsAck(x.pkt)) => x \in net
      BY DEF IsRequest, IsData, IsAck, Harmless, OP_RRQ, OP_WRQ, OP_DATA, OP_ACK, OP_ERROR
    <2>2. \A ch \in Children : peer'[ch] = peer[ch]
      BY DEF Procs
    <2> QED
      BY <2>1, <2>2 DEF CopyInv, Parties, Procs
  <1>4. SameFile'
    <2>1. \A x \in net' : IsRequest(x.pkt) => x \in net
      BY DEF IsRequest, Harmless, OP_RRQ, OP_WRQ, OP_ERROR
    <2> QED
      BY <2>1 DEF CopyInv, SameFile, Port, ActiveSender, ActiveReceiver, Receiving, Procs
  <1>5. LastSent'
    BY DEF CopyInv, LastSent, BlockOf
  <1>6. SenderPosition'
    BY DEF CopyInv, SenderPosition, Sending
  <1>7. NotAhead'
    BY DEF CopyInv, NotAhead, Port, ActiveSender, ActiveReceiver, Receiving
  <1>8. AcksBehind' /\ DataBehind'
    <2>1. \A x \in net' : (IsData(x.pkt) \/ IsAck(x.pkt)) => x \in net
      BY DEF IsData, IsAck, Harmless, OP_DATA, OP_ACK, OP_ERROR
    <2> QED
      BY <2>1 DEF CopyInv, AcksBehind, DataBehind, Port, ActiveReceiver, Receiving, BlockOf
  <1>9. CopyPrefix'
    BY DEF CopyInv, CopyPrefix, Receiving
  <1>10. GotOutside' /\ ReceiverComplete'
    BY DEF CopyInv, GotOutside, ReceiverComplete
  <1> QED
    BY <1>1, <1>2, <1>3, <1>4, <1>5, <1>6, <1>7, <1>8, <1>9, <1>10 DEF CopyInv

-----------------------------------------------------------------------------
(* A handler is called. *)

\* What is known of a DATA or ACK packet m that p takes from its socket.
LEMMA Taken ==
  ASSUME TypeInv, CopyInv, NEW p \in Procs, NEW m \in net, NEW h, Handles(p, m, h),
         IsData(m.pkt) \/ IsAck(m.pkt)
  PROVE  /\ pc[p] = "fsm" /\ m.dst = Port(p)
         /\ peer' = [peer EXCEPT ![p] = m.src]
         /\ recv_first' = [recv_first EXCEPT ![p] = FALSE]
         /\ p \in Children => m.src = peer[p] /\ m.src[1] \in Clients
         /\ p \in Clients => m.src[1] \in Children
         /\ (p \in Clients /\ op_sent[p] \notin {OP_RRQ, OP_WRQ}) => m.src = peer[p]
         /\ Bound(m.src)
         /\ \A ch \in Children : pc[ch] = "start" => m.src # Port(ch)
  <1>1. pc[p] = "fsm" /\ m.dst = Port(p) /\ m.dst[1] = p /\ FromExpected(p, m)
        /\ peer' = [peer EXCEPT ![p] = m.src]
        /\ recv_first' = [recv_first EXCEPT ![p] = FALSE]
    BY DEF Handles, Port
  <1>2. p \in Children => m.src = peer[p] /\ m.src[1] \in Clients
    BY <1>1 DEF CopyInv, Parties, FromExpected
  <1>3. p \in Clients => m.src[1] \in Children
    BY <1>1, ConstAssumption DEF CopyInv, Parties
  <1>4. (p \in Clients /\ op_sent[p] \notin {OP_RRQ, OP_WRQ}) => m.src = peer[p]
    BY <1>1 DEF CopyInv, Parties, FromExpected
  <1> QED
    BY <1>1, <1>2, <1>3, <1>4 DEF CopyInv, PortsBound, StartSilent

\* p acknowledges the DATA packet m, goes on or stops, and waits for block n2.
AckStep(p, m, n2) ==
  /\ nextblknum' = [nextblknum EXCEPT ![p] = n2]
  /\ sendbuff' = [sendbuff EXCEPT ![p] = ACK(m.pkt.blk)]
  /\ op_sent' = [op_sent EXCEPT ![p] = OP_ACK]
  /\ \A x \in net' : x \in net \/ x = Msg(Port(p), m.src, ACK(m.pkt.blk))
  /\ pc' = pc \/ pc' = [pc EXCEPT ![p] = IF p \in Clients THEN "idle" ELSE "exit"]
  /\ UNCHANGED <<lastsend, fpos, localfp, sock, recvbuff>>

\* All parts of the invariant but those about what is written.
BlockInv ==
  /\ PortsBound /\ StartSilent /\ Parties /\ SameFile
  /\ LastSent /\ SenderPosition /\ NotAhead /\ AcksBehind /\ DataBehind

\* An acknowledgement keeps what is known of packets and block numbers.
LEMMA AckStepInv ==
  ASSUME TypeInv, TypeInv', CopyInv, NEW p \in Procs, NEW m \in net,
         Handles(p, m, "recv_DATA"), IsData(m.pkt), ActiveReceiver(p),
         NEW n2 \in Nat, n2 >= nextblknum[p], m.pkt.blk < n2,
         m.pkt.blk \in 0..(BLKMOD - 1),
         AckStep(p, m, n2)
  PROVE  BlockInv'
  <1> DEFINE a == Msg(Port(p), m.src, ACK(m.pkt.blk))
  <1>1. /\ pc[p] = "fsm" /\ m.dst = Port(p)
        /\ peer' = [peer EXCEPT ![p] = m.src]
        /\ recv_first' = [recv_first EXCEPT ![p] = FALSE]
        /\ p \in Children => m.src = peer[p] /\ m.src[1] \in Clients
        /\ p \in Clients => m.src[1] \in Children
        /\ Bound(m.src)
        /\ \A ch \in Children : pc[ch] = "start" => m.src # Port(ch)
    BY Taken
  <1>2. /\ a.src = Port(p) /\ a.dst = m.src /\ a.pkt.op = OP_ACK
        /\ a.pkt.blk = m.pkt.blk
    <2>1. Wire(m.pkt.blk) = m.pkt.blk
      BY WireFacts, ConstAssumption
    <2> QED
      BY <2>1 DEF Msg, ACK
  <1>3. /\ \A q \in Procs : q # p => pc'[q] = pc[q] /\ peer'[q] = peer[q]
             /\ recv_first'[q] = recv_first[q] /\ nextblknum'[q] = nextblknum[q]
             /\ sendbuff'[q] = sendbuff[q] /\ op_sent'[q] = op_sent[q]
        /\ peer'[p] = m.src /\ ~recv_first'[p] /\ nextblknum'[p] = n2
        /\ op_sent'[p] = OP_ACK /\ sendbuff'[p] = ACK(m.pkt.blk)
        /\ pc'[p] = "fsm" \/ pc'[p] = IF p \in Clients THEN "idle" ELSE "exit"
        /\ UNCHANGED <<lastsend, fpos, localfp, sock, recvbuff>>
        /\ \A x \in net' : x \in net \/ x = a
    BY <1>1 DEF AckStep, TypeInv, TypeOK
  <1>4. \A ch \in Children : peer'[ch] = peer[ch]
    BY <1>1, <1>3 DEF Procs
  <1>5. sock[p] > 0 /\ Bound(Port(p))
    BY <1>1 DEF CopyInv, PortsBound, Bound, Port, TypeInv, TypeOK
  <1>6. OP_ACK \notin {OP_RRQ, OP_WRQ} /\ OP_ACK # OP_DATA
    BY DEF OP_ACK, OP_RRQ, OP_WRQ, OP_DATA
  <1> HIDE DEF a
  <1>7. PortsBound'
    BY <1>1, <1>2, <1>3, <1>5, ConstAssumption DEF CopyInv, PortsBound, Bound, Procs
  <1>8. StartSilent'
    <2>1. \A ch \in Children : pc'[ch] = "start" => ch # p /\ pc[ch] = "start"
      BY <1>1, <1>3 DEF Procs
    <2>2. \A q : Port(q)' = Port(q)
      BY <1>3 DEF Port
    <2> QED
      BY <1>1, <1>2, <1>3, <2>1, <2>2, PortsDiffer DEF CopyInv, StartSilent, Procs
  <1>9. Parties'
    <2>1. a.src[1] = p
      BY <1>2 DEF Port
    <2>2. \A x \in net' : IsRequest(x.pkt) => x.src[1] \in Clients /\ x.dst = WellKnown
      BY <1>2, <1>3, <1>6 DEF IsRequest, CopyInv, Parties
    <2>3. \A x \in net' : (IsData(x.pkt) \/ IsAck(x.pkt)) =>
            \/ x.src[1] \in Children /\ x.dst[1] \in Clients /\ x.dst = peer'[x.src[1]]
            \/ x.src[1] \in Clients /\ x.dst[1] \in Children
      BY <1>1, <1>2, <1>3, <1>4, <2>1 DEF CopyInv, Parties, Procs
    <2>4. \A c \in Clients : pc'[c] = "fsm" =>
            IF op_sent'[c] \in {OP_RRQ, OP_WRQ}
            THEN peer'[c] = WellKnown
            ELSE peer'[c][1] \in Children /\ ~recv_first'[c]
      BY <1>1, <1>3, <1>6 DEF CopyInv, Parties, Procs
    <2>5. \A ch \in Children : pc'[ch] = "fsm" =>
            peer'[ch][1] \in Clients /\ op_sent'[ch] \in {OP_DATA, OP_ACK}
      BY <1>1, <1>3, <1>4 DEF CopyInv, Parties, Procs
    <2>6. /\ \A ch \in Children : (pc'[ch] = "start" /\ IsRequest(recvbuff'[ch])) =>
               peer'[ch][1] \in Clients
          /\ \A ch \in Children : ~recv_first'[ch]
          /\ \A c \in Clients : pc'[c] # "start"
      BY <1>1, <1>3, <1>4 DEF CopyInv, Parties, Procs
    <2> QED
      BY <2>2, <2>3, <2>4, <2>5, <2>6 DEF Parties
  <1>10. SameFile'
    <2>1. \A x \in net' : IsRequest(x.pkt) => x \in net
      BY <1>2, <1>3, <1>6 DEF IsRequest
    <2>2. \A q \in Procs : (pc'[q] = "fsm" => pc[q] = "fsm") /\ (pc'[q] = "start" => pc[q] = "start")
      BY <1>1, <1>3
    <2>3. \A s \in Procs : ActiveSender(s)' => s # p /\ ActiveSender(s)
      BY <1>3, <1>6 DEF ActiveSender
    <2>4. \A r \in Procs : ActiveReceiver(r)' => ActiveReceiver(r)
      BY <1>3, <2>2 DEF ActiveReceiver, Receiving
    <2> QED
      BY <1>3, <1>4, <2>1, <2>2, <2>3, <2>4 DEF CopyInv, SameFile, Port, Procs
  <1>11. LastSent'
    BY <1>1, <1>2, <1>3, <1>6 DEF CopyInv, LastSent, BlockOf, IsRequest, IsData, IsAck,
        Msg, a
  <1>12. SenderPosition'
    BY <1>1, <1>3, <1>6 DEF CopyInv, SenderPosition, Sending
  <1>13. \A r \in Procs : ActiveReceiver(r)' => ActiveReceiver(r)
    BY <1>1, <1>3 DEF ActiveReceiver, Receiving
  <1>0. nextblknum \in [Procs -> Nat] /\ nextblknum' \in [Procs -> Nat]
    BY DEF TypeInv, TypeOK
  <1>17. \A r \in Procs : nextblknum'[r] >= nextblknum[r]
    BY <1>0, <1>3
  <1>14. NotAhead'
    <2>1. \A s \in Procs : ActiveSender(s)' => s # p /\ ActiveSender(s)
      BY <1>3, <1>6 DEF ActiveSender
    <2> QED
      BY <1>0, <1>3, <1>13, <1>17, <2>1 DEF CopyInv, NotAhead, Port
  <1>15. AcksBehind'
    <2> SUFFICES ASSUME NEW x \in net', NEW r \in Procs, IsAck(x.pkt),
                        ActiveReceiver(r)', x.src = Port(r)
                 PROVE  x.pkt.blk < nextblknum'[r]
      BY <1>3 DEF AcksBehind, Port
    <2>2. CASE x = a
      BY <1>2, <1>3, <2>2, PortsDiffer
    <2>3. CASE x \in net
      <3>1. x.pkt.blk < nextblknum[r]
        BY <1>13, <2>3 DEF CopyInv, AcksBehind
      <3>2. x.pkt.blk \in Nat
        <4>1. x.pkt \in Packets
          BY <2>3 DEF TypeInv, TypeOK, Messages
        <4>2. x.pkt \in Acks
          BY <4>1, PacketFields DEF IsAck
        <4> QED
          BY <4>2, ConstAssumption DEF Acks
      <3> QED
        BY <3>1, <3>2, <1>0, <1>17
    <2> QED
      BY <1>3, <2>2, <2>3
  <1>16. DataBehind'
    <2> SUFFICES ASSUME NEW x \in net', NEW r \in Procs, IsData(x.pkt),
                        ActiveReceiver(r)', x.dst = Port(r)
                 PROVE  BlockOf(x.pkt, localfp[r], nextblknum'[r])
      BY <1>3 DEF DataBehind, Port, BlockOf
    <2>2. x \in net
      BY <1>2, <1>3, <1>6 DEF IsData
    <2>3. BlockOf(x.pkt, localfp[r], nextblknum[r])
      BY <1>13, <2>2 DEF CopyInv, DataBehind
    <2> QED
      BY <1>0, <1>17, <2>3 DEF BlockOf
  <1> QED
    BY <1>7, <1>8, <1>9, <1>10, <1>11, <1>12, <1>14, <1>15, <1>16 DEF BlockInv

\* A pass of fsm_loop() that ends it without a new file is a quiet step.
LEMMA CopyLastPass ==
  ASSUME TypeInv, TypeInv', CopyInv, NEW p \in Procs, NEW m \in net, NEW h,
         Handles(p, m, h), NEW why, why # "got",
         pc' = [pc EXCEPT ![p] = "exit"] \/ pc' = [pc EXCEPT ![p] = IF p \in Clients THEN "idle" ELSE "exit"],
         outcome' = [outcome EXCEPT ![p] = why],
         Exchange(m, {}), UNCHANGED xferVars
  PROVE  QuietStep
  <1>1. UNCHANGED <<op_sent, nextblknum, lastsend, fpos, written, localfp, sock,
                    recvbuff, sendbuff>>
    BY DEF Handles, xferVars
  <1>2. \A x \in net' : x \in net
    BY DEF Exchange
  <1>3. \A q \in Procs : q # p => Stays(q)
    BY <1>1 DEF Stays, Handles, TypeInv, TypeOK
  <1>4. Stops(p)
    <2>1. p \in Children => m.src = peer[p] /\ peer'[p] = peer[p] /\ ~recv_first'[p]
      BY DEF Handles, FromExpected, CopyInv, Parties, TypeInv, TypeOK
    <2>2. Bound(peer'[p])
      BY DEF Handles, CopyInv, PortsBound, TypeInv, TypeOK
    <2>3. /\ pc'[p] = "exit" \/ (p \in Clients /\ pc'[p] = "idle")
          /\ outcome'[p] # "got"
      BY DEF TypeInv, TypeOK
    <2> QED
      BY <2>1, <2>2, <2>3 DEF Stops
  <1> QED
    BY <1>1, <1>2, <1>3, <1>4 DEF QuietStep

\* A block number out of the window ends fsm_loop() without a file.
LEMMA CopyOutOfWindow ==
  ASSUME TypeInv, TypeInv', CopyInv, NEW p \in Procs, NEW m \in net, NEW h,
         Handles(p, m, h), OutOfWindow(p, m)
  PROVE  CopyInv'
  <1>1. PICK why : /\ why # "got" /\ pc' = [pc EXCEPT ![p] = "exit"]
                   /\ outcome' = [outcome EXCEPT ![p] = why]
                   /\ Exchange(m, {}) /\ UNCHANGED xferVars
    <2>1. (IF m.pkt.blk > nextblknum[p] THEN "ahead" ELSE "behind") # "got"
      OBVIOUS
    <2> QED
      BY <2>1 DEF OutOfWindow, Exit
  <1>2. QuietStep
    BY <1>1, CopyLastPass
  <1> QED
    BY <1>2, QuietInv DEF TypeInv

\* recv_DATA() extends the copy by the next block or leaves it alone, and ends
\* with the whole file.
LEMMA CopyRecvData ==
  ASSUME TypeInv, TypeInv', FileOpen, CopyInv, NEW p \in Procs, NEW m \in net,
         recv_DATA(p, m)
  PROVE  CopyInv'
  <1>1. Handles(p, m, "recv_DATA")
    BY DEF recv_DATA
  <1>2. /\ m.src \in Ports /\ m.dst \in Ports /\ m.pkt \in Packets
        /\ UNCHANGED <<recvbuff, localfp, sock, strays>>
    BY <1>1, HandlesType DEF TypeInv
  <1>3. m.pkt.op = OP_DATA /\ ActiveReceiver(p) /\ m.dst = Port(p)
    BY <1>1, TableFacts DEF Handles, ActiveReceiver, Receiving
  <1>4. m.pkt.blk \in 0..(BLKMOD - 1) /\ m.pkt.blk \in Nat /\ m.pkt.len \in 0..MAXDATA
    BY <1>2, <1>3, PacketFields, ConstAssumption DEF Datas
  <1> DEFINE n == nextblknum[p]
             f == localfp[p]
             i == m.pkt.data[2]
  <1>5. /\ n \in Nat /\ f \in Files /\ i \in 1..n
        /\ m.pkt.blk = Wire(i) /\ m.pkt.len = ChunkLen(f, i) /\ m.pkt.data[1] = f
    BY <1>3 DEF CopyInv, DataBehind, BlockOf, IsData, FileOpen, ActiveReceiver,
                TypeInv, TypeOK
  <1>6. m.pkt.data = <<f, i>>
    <2>1. m.pkt.data \in Chunks
      BY <1>2, <1>3, PacketFields DEF Datas
    <2> QED
      BY <1>5, <2>1 DEF Chunks
  <1>7. /\ written[p] \in Seq(Chunks) /\ Len(written[p]) = n - 1 /\ n - 1 <= NFull[f]
        /\ \A j \in 1..(n - 1) : written[p][j] = <<f, j>>
        /\ NFull[f] \in Nat /\ TailLen[f] \in Nat /\ MAXDATA \in Nat
    <2>1. NFull[f] \in Nat /\ TailLen[f] \in Nat /\ MAXDATA \in Nat
      BY <1>5, ConstAssumption
    <2>2. written[p] \in Seq(Chunks)
      BY DEF TypeInv, TypeOK
    <2>3. /\ Len(written[p]) = n - 1 /\ Len(written[p]) <= NFull[f]
          /\ \A j \in 1..Len(written[p]) : written[p][j] = <<f, j>>
      BY <1>3 DEF CopyInv, CopyPrefix, ActiveReceiver
    <2> QED
      BY <2>1, <2>2, <2>3
  <1>8. outcome[p] # "got" /\ pc[p] = "fsm"
    BY <1>3 DEF CopyInv, GotOutside, ActiveReceiver
  <1>9. CASE OutOfWindow(p, m)
    BY <1>1, <1>9, CopyOutOfWindow
  <1>10. CASE /\ DataExpected(p, m)
              /\ nextblknum' = [nextblknum EXCEPT ![p] = @ + 1]
              /\ file_write(p, m.pkt)
              /\ send_ACK(p, m, m.pkt.blk, m.pkt.len)
              /\ UNCHANGED <<lastsend, fpos>>
    <2>1. i = n /\ m.pkt.blk = n
      BY <1>5, <1>10, WireExact DEF DataExpected
    <2>2. AckStep(p, m, n + 1)
      BY <1>2, <1>10 DEF AckStep, send_ACK, Exchange, Return
    <2>3. BlockInv'
      BY <1>1, <1>3, <1>4, <1>5, <2>1, <2>2, AckStepInv DEF IsData
    <2>4. /\ nextblknum'[p] = n + 1
          /\ \A q \in Procs : q # p => /\ nextblknum'[q] = nextblknum[q]
                                       /\ written'[q] = written[q]
                                       /\ op_sent'[q] = op_sent[q]
                                       /\ pc'[q] = pc[q]
                                       /\ outcome'[q] = outcome[q]
      <3>0. /\ nextblknum \in [Procs -> Nat] /\ written \in [Procs -> Seq(Chunks)]
            /\ DOMAIN op_sent = Procs /\ DOMAIN outcome = Procs
            /\ DOMAIN pc = Procs \cup {Server}
        BY DEF TypeInv, TypeOK
      <3>1. \A q \in Procs : q # p => written'[q] = written[q]
        BY <1>10, <3>0 DEF file_write
      <3>2. \A q \in Procs : q # p => op_sent'[q] = op_sent[q]
        BY <1>10, <3>0 DEF send_ACK
      <3>3. \A q \in Procs : q # p => pc'[q] = pc[q] /\ outcome'[q] = outcome[q]
        BY <1>10, <3>0 DEF send_ACK, Return
      <3> QED
        BY <1>10, <3>0, <3>1, <3>2, <3>3
    <2>5. written'[p] = IF m.pkt.len > 0 THEN Append(written[p], <<f, n>>) ELSE written[p]
      <3>1. written \in [Procs -> Seq(Chunks)] /\ m.pkt.data = <<f, n>>
        BY <1>6, <2>1 DEF TypeInv, TypeOK
      <3> QED
        BY <1>10, <3>1 DEF file_write
    <2>8. n \in Nat \ {0}
      BY <1>5
    <2>9. ASSUME m.pkt.len > 0
          PROVE  /\ written'[p] \in Seq(Chunks) /\ Len(written'[p]) = n
                 /\ \A j \in 1..n : written'[p][j] = <<f, j>>
      <3>1. written'[p] = Append(written[p], <<f, n>>)
        BY <2>5, <2>9
      <3>2. written'[p] \in Seq(Chunks)
        BY DEF TypeInv, TypeOK
      <3> HIDE DEF n, f
      <3>3. Len(written'[p]) = n /\ \A j \in 1..n : written'[p][j] = <<f, j>>
        BY <1>5, <1>7, <2>8, <3>1, NextChunk
      <3> QED
        BY <3>2, <3>3
    <2>6. CASE m.pkt.len = MAXDATA
      <3>1. n <= NFull[f] /\ m.pkt.len > 0
        <4>1. ChunkLen(f, n) = MAXDATA
          BY <1>5, <2>1, <2>6
        <4>2. n <= NFull[f]
          BY <1>5, <2>8, <4>1, ChunkLenFacts
        <4>3. MAXDATA > 0
          BY ConstAssumption
        <4> QED
          BY <2>6, <4>2, <4>3
      <3>2. /\ Len(written'[p]) = n
            /\ \A j \in 1..n : written'[p][j] = <<f, j>>
        BY <2>9, <3>1
      <3>3. UNCHANGED <<pc, outcome>>
        BY <1>10, <2>6 DEF send_ACK
      <3>4. CopyPrefix'
        <4> SUFFICES ASSUME NEW q \in Procs, pc'[q] = "fsm", Receiving(q)'
                     PROVE  /\ Len(written'[q]) = nextblknum'[q] - 1
                            /\ Len(written'[q]) <= NFull[localfp'[q]]
                            /\ \A j \in 1..Len(written'[q]) : written'[q][j] = <<localfp'[q], j>>
          BY DEF CopyPrefix
        <4>1. CASE q = p
          BY <1>2, <1>5, <2>4, <3>1, <3>2, <4>1
        <4>2. CASE q # p
          BY <1>2, <2>4, <3>3, <4>2 DEF CopyInv, CopyPrefix, Receiving
        <4> QED
          BY <4>1, <4>2
      <3>5. GotOutside' /\ ReceiverComplete'
        BY <1>2, <1>8, <2>4, <3>3 DEF CopyInv, GotOutside, ReceiverComplete
      <3> QED
        BY <2>3, <3>4, <3>5 DEF CopyInv, BlockInv
    <2>7. CASE m.pkt.len # MAXDATA
      <3>1. n = NFull[f] + 1 /\ m.pkt.len = TailLen[f]
        BY <1>5, <1>7, <2>1, <2>7 DEF ChunkLen
      <3>2. written'[p] = Copy(f)
        <4>1. CASE TailLen[f] > 0
          <5>2. /\ written'[p] \in Seq(Chunks) /\ Len(written'[p]) = n
                /\ \A j \in 1..n : written'[p][j] = <<f, j>>
            BY <2>9, <3>1, <4>1
          <5>3. NChunks(f) = n
            BY <3>1, <4>1 DEF NChunks
          <5> QED
            BY <5>2, <5>3, CopyOf
        <4>2. CASE ~(TailLen[f] > 0)
          <5>1. written'[p] = written[p]
            BY <2>5, <3>1, <4>2
          <5>2. NChunks(f) = n - 1
            BY <1>7, <3>1, <4>2 DEF NChunks
          <5> QED
            BY <1>7, <5>1, <5>2, CopyOf
        <4> QED
          BY <4>1, <4>2
      <3>3. /\ outcome'[p] = "got"
            /\ pc'[p] = IF p \in Clients THEN "idle" ELSE "exit"
        <4>1. p \in DOMAIN outcome /\ p \in DOMAIN pc
          BY DEF TypeInv, TypeOK
        <4>2. Return(p, rtt_stop(rtt[p]), "got")
          BY <1>10, <2>7 DEF send_ACK
        <4> HIDE DEF n, f, i
        <4> QED
          BY <4>1, <4>2 DEF Return
      <3>4. CopyPrefix'
        BY <1>2, <2>4, <3>3 DEF CopyInv, CopyPrefix, Receiving
      <3>5. GotOutside' /\ ReceiverComplete'
        BY <1>2, <2>4, <3>2, <3>3 DEF CopyInv, GotOutside, ReceiverComplete
      <3> QED
        BY <2>3, <3>4, <3>5 DEF CopyInv, BlockInv
    <2> QED
      BY <2>6, <2>7
  <1>11. CASE /\ m.pkt.blk = nextblknum[p] - 1
              /\ send_ACK(p, m, m.pkt.blk, m.pkt.len)
              /\ UNCHANGED <<nextblknum, written, upload, lastsend, fpos>>
    <2>1. i = n - 1
      BY <1>5, <1>11, WireExact
    <2>2. m.pkt.len = MAXDATA
      BY <1>5, <1>7, <2>1, ChunkLenFacts
    <2>3. AckStep(p, m, n)
      BY <1>2, <1>11 DEF AckStep, send_ACK, Exchange, Return, TypeInv, TypeOK
    <2>4. BlockInv'
      BY <1>1, <1>3, <1>4, <1>5, <1>11, <2>3, AckStepInv DEF IsData
    <2>5. UNCHANGED <<pc, outcome>>
      BY <1>11, <2>2 DEF send_ACK
    <2>6. \A q \in Procs : Receiving(q)' => Receiving(q)
      BY <1>3, <1>11 DEF send_ACK, Receiving, ActiveReceiver, TypeInv, TypeOK
    <2>7. CopyPrefix'
      BY <1>2, <1>11, <2>5, <2>6 DEF CopyInv, CopyPrefix
    <2>8. GotOutside' /\ ReceiverComplete'
      BY <1>2, <1>11, <2>5 DEF CopyInv, GotOutside, ReceiverComplete
    <2> QED
      BY <2>4, <2>7, <2>8 DEF CopyInv, BlockInv
  <1> QED
    BY <1>9, <1>10, <1>11 DEF recv_DATA

-----------------------------------------------------------------------------
(* The sender. *)

\* The globals of q stay as they are.
Same(q) ==
  /\ pc'[q] = pc[q] /\ op_sent'[q] = op_sent[q] /\ nextblknum'[q] = nextblknum[q]
  /\ lastsend'[q] = lastsend[q] /\ sendbuff'[q] = sendbuff[q] /\ peer'[q] = peer[q]
  /\ recv_first'[q] = recv_first[q] /\ localfp'[q] = localfp[q] /\ fpos'[q] = fpos[q]
  /\ written'[q] = written[q] /\ outcome'[q] = outcome[q]

\* p has read chunk k + 1 of f and sends it as block k + 1.
Sends(p, f, k) ==
  /\ pc'[p] = "fsm" /\ op_sent'[p] = OP_DATA /\ nextblknum'[p] = k + 1
  /\ sendbuff'[p] = NextData(f, k, k + 1)
  /\ lastsend'[p] = ChunkLen(f, k + 1)
  /\ fpos'[p] = IF ChunkLen(f, k + 1) > 0 THEN k + 1 ELSE k
  /\ localfp'[p] = f /\ outcome'[p] = outcome[p] /\ outcome[p] # "got"
  /\ \A q \in Procs : q # p => Same(q)
  /\ UNCHANGED <<sock, recvbuff>>
  /\ \A x \in net' : x \in net \/ x = Msg(Port(p), peer'[p], NextData(f, k, k + 1))

\* The other end is fit to be sent block k + 1 of f.
Addressee(p, f, k) ==
  /\ ~recv_first'[p] /\ Bound(peer'[p]) /\ sock[p] > 0 /\ Bound(Port(p))
  /\ p \in Clients => pc[p] = "fsm" /\ localfp[p] = f /\ peer'[p][1] \in Children
  /\ p \in Children => peer'[p] = peer[p] /\ peer[p][1] \in Clients
  /\ \A ch \in Children : pc[ch] = "start" => peer'[p] # Port(ch)
  /\ \A r \in Procs : (r # p /\ ActiveReceiver(r) /\ peer'[p] = Port(r)) =>
       localfp[r] = f /\ k + 1 <= nextblknum[r]
  /\ p \in Children => \A c \in Clients :
       (pc[c] = "fsm" /\ peer[p] = Port(c)) => f = localfp[c]

\* Sending the next block to an end that is waiting for it, or is past it, keeps
\* the invariant.
LEMMA SendsInv ==
  ASSUME TypeInv, TypeInv', CopyInv, NEW p \in Procs, NEW f \in Files, NEW k \in Nat,
         Sends(p, f, k), Addressee(p, f, k)
  PROVE  CopyInv'
  <1> DEFINE d == NextData(f, k, k + 1)
             a == Msg(Port(p), peer'[p], d)
  <1>1. /\ a.src = Port(p) /\ a.dst = peer'[p] /\ a.pkt = d
        /\ a.src[1] = p
    BY DEF Msg, Port
  <1>2. d.op = OP_DATA /\ d.data[2] = k + 1 /\ BlockOf(d, f, k + 1)
    BY DEF NextData, DATA, BlockOf
  <1>3. /\ pc'[p] = "fsm" /\ op_sent'[p] = OP_DATA /\ nextblknum'[p] = k + 1
        /\ sendbuff'[p] = d
        /\ lastsend'[p] = ChunkLen(f, k + 1)
        /\ fpos'[p] = IF ChunkLen(f, k + 1) > 0 THEN k + 1 ELSE k
        /\ localfp'[p] = f /\ outcome'[p] = outcome[p] /\ outcome[p] # "got"
        /\ \A q \in Procs : q # p => Same(q)
        /\ UNCHANGED <<sock, recvbuff>>
        /\ \A x \in net' : x \in net \/ x = a
    BY DEF Sends
  <1>4. OP_DATA \notin {OP_RRQ, OP_WRQ, OP_ACK}
    BY DEF OP_ACK, OP_RRQ, OP_WRQ, OP_DATA
  <1>5. \A q : Port(q)' = Port(q)
    BY <1>3 DEF Port
  <1> HIDE DEF d, a
  <1>6. PortsBound'
    <2>1. \A port : Bound(port)' <=> Bound(port)
      BY <1>3 DEF Bound
    <2>2. \A x \in net' : Bound(x.src) /\ Bound(x.dst)
      BY <1>1, <1>3 DEF Addressee, CopyInv, PortsBound
    <2>3. \A q \in Procs : Bound(peer'[q]) /\ (pc'[q] = "fsm" => sock[q] > 0)
      BY <1>3 DEF Addressee, CopyInv, PortsBound, Same
    <2>4. \A ch \in Children : (pc'[ch] = "idle" => sock[ch] = 0) /\ sock[ch] <= 1
      BY <1>3 DEF CopyInv, PortsBound, Same, Procs
    <2> QED
      BY <1>3, <2>1, <2>2, <2>3, <2>4 DEF PortsBound
  <1>7. StartSilent'
    <2>1. \A ch \in Children : pc'[ch] = "start" => ch # p /\ pc[ch] = "start"
      BY <1>3 DEF Same, Procs
    <2>2. \A ch \in Children : pc'[ch] = "start" =>
            /\ sock'[ch] = 1
            /\ \A x \in net' : x.src # Port(ch) /\ x.dst # Port(ch)
      BY <1>1, <1>3, <2>1, PortsDiffer DEF CopyInv, StartSilent, Addressee
    <2>3. \A ch \in Children : pc'[ch] = "start" =>
            \A q \in Procs : pc'[q] = "fsm" => peer'[q] # Port(ch)
      BY <1>3, <2>1 DEF CopyInv, StartSilent, Addressee, Same
    <2> QED
      BY <1>5, <2>2, <2>3 DEF StartSilent
  <1>8. Parties'
    <2>0. \A ch \in Children : peer'[ch] = peer[ch]
      BY <1>3 DEF Addressee, Same, Procs
    <2>1. \A x \in net' : IsRequest(x.pkt) => x \in net
      BY <1>1, <1>2, <1>3, <1>4 DEF IsRequest
    <2>2. \A x \in net' : IsRequest(x.pkt) => x.src[1] \in Clients /\ x.dst = WellKnown
      BY <2>1 DEF CopyInv, Parties
    <2>3. \A x \in net' : (IsData(x.pkt) \/ IsAck(x.pkt)) =>
            \/ x.src[1] \in Children /\ x.dst[1] \in Clients /\ x.dst = peer'[x.src[1]]
            \/ x.src[1] \in Clients /\ x.dst[1] \in Children
      BY <1>1, <1>3, <2>0 DEF CopyInv, Parties, Addressee, Procs
    <2>4. \A c \in Clients : pc'[c] = "fsm" =>
            IF op_sent'[c] \in {OP_RRQ, OP_WRQ}
            THEN peer'[c] = WellKnown
            ELSE peer'[c][1] \in Children /\ ~recv_first'[c]
      BY <1>3, <1>4 DEF CopyInv, Parties, Procs, Addressee, Same
    <2>5. \A ch \in Children : pc'[ch] = "fsm" =>
            peer'[ch][1] \in Clients /\ op_sent'[ch] \in {OP_DATA, OP_ACK}
      BY <1>3, <2>0 DEF CopyInv, Parties, Procs, Addressee, Same
    <2>6. /\ \A ch \in Children : (pc'[ch] = "start" /\ IsRequest(recvbuff'[ch])) =>
               peer'[ch][1] \in Clients
          /\ \A ch \in Children : ~recv_first'[ch]
          /\ \A c \in Clients : pc'[c] # "start"
      BY <1>3, <2>0 DEF CopyInv, Parties, Procs, Addressee, Same
    <2> QED
      BY <2>2, <2>3, <2>4, <2>5, <2>6 DEF Parties
  <1>9. SameFile'
    <2>0. \A ch \in Children : peer'[ch] = peer[ch]
      BY <1>3 DEF Addressee, Same, Procs
    <2>1. \A x \in net' : IsRequest(x.pkt) => x \in net
      BY <1>1, <1>2, <1>3, <1>4 DEF IsRequest
    <2>2. \A c \in Clients : pc'[c] = "fsm" => pc[c] = "fsm" /\ localfp'[c] = localfp[c]
      BY <1>3 DEF Same, Addressee, Procs
    <2>3. \A ch \in Children : pc'[ch] = "start" => pc[ch] = "start"
      BY <1>3 DEF Same, Procs
    <2>4. \A x \in net', c \in Clients :
             (IsRequest(x.pkt) /\ pc'[c] = "fsm" /\ x.src = Port(c)) => x.pkt.file = localfp'[c]
      BY <2>1, <2>2 DEF CopyInv, SameFile
    <2>5. \A ch \in Children, c \in Clients :
             (pc'[ch] = "start" /\ IsRequest(recvbuff'[ch]) /\ pc'[c] = "fsm"
              /\ peer'[ch] = Port(c)) => recvbuff'[ch].file = localfp'[c]
      BY <1>3, <2>0, <2>2, <2>3 DEF CopyInv, SameFile
    <2>6. \A ch \in Children, c \in Clients :
             (pc'[ch] = "fsm" /\ pc'[c] = "fsm" /\ peer'[ch] = Port(c))
               => localfp'[ch] = localfp'[c]
      <3> SUFFICES ASSUME NEW ch \in Children, NEW c \in Clients, pc'[ch] = "fsm",
                          pc'[c] = "fsm", peer'[ch] = Port(c)
                   PROVE  localfp'[ch] = localfp'[c]
        OBVIOUS
      <3>1. CASE ch = p
        BY <1>3, <2>0, <2>2, <3>1 DEF Addressee
      <3>2. CASE ch # p
        BY <1>3, <2>0, <2>2, <3>2 DEF CopyInv, SameFile, Same, Procs
      <3> QED
        BY <3>1, <3>2
    <2>7. \A s, r \in Procs :
             (ActiveSender(s)' /\ ActiveReceiver(r)' /\ peer'[s] = Port(r))
               => localfp'[s] = localfp'[r]
      <3> SUFFICES ASSUME NEW s \in Procs, NEW r \in Procs, ActiveSender(s)',
                          ActiveReceiver(r)', peer'[s] = Port(r)
                   PROVE  localfp'[s] = localfp'[r]
        OBVIOUS
      <3>1. r # p /\ ActiveReceiver(r) /\ localfp'[r] = localfp[r]
        BY <1>3, <1>4 DEF ActiveReceiver, Receiving, Same
      <3>2. CASE s = p
        BY <1>3, <3>1, <3>2 DEF Addressee
      <3>3. CASE s # p
        BY <1>3, <3>1, <3>3 DEF CopyInv, SameFile, Same, ActiveSender
      <3> QED
        BY <3>2, <3>3
    <2> QED
      BY <1>5, <2>4, <2>5, <2>6, <2>7 DEF SameFile
  <1>10. LastSent'
    <2> SUFFICES ASSUME NEW q \in Procs, pc'[q] = "fsm"
                 PROVE  /\ sendbuff'[q].op = op_sent'[q]
                        /\ IsRequest(sendbuff'[q]) => q \in Clients /\ sendbuff'[q].file = localfp'[q]
                        /\ IsAck(sendbuff'[q]) => sendbuff'[q].blk < nextblknum'[q]
                        /\ IsData(sendbuff'[q]) =>
                             /\ nextblknum'[q] > 0 /\ sendbuff'[q].data[2] = nextblknum'[q]
                             /\ BlockOf(sendbuff'[q], localfp'[q], nextblknum'[q])
      BY DEF LastSent, BlockOf
    <2>1. CASE q = p
      BY <1>2, <1>3, <1>4, <2>1 DEF IsRequest, IsAck, IsData
    <2>2. CASE q # p
      BY <1>3, <2>2 DEF CopyInv, LastSent, Same
    <2> QED
      BY <2>1, <2>2
  <1>11. SenderPosition'
    <2> SUFFICES ASSUME NEW q \in Procs, pc'[q] = "fsm", Sending(q)'
                 PROVE  IF op_sent'[q] = OP_WRQ
                        THEN nextblknum'[q] = 0 /\ fpos'[q] = 0 /\ lastsend'[q] = MAXDATA
                        ELSE /\ lastsend'[q] = ChunkLen(localfp'[q], nextblknum'[q])
                             /\ fpos'[q] = IF lastsend'[q] > 0 THEN nextblknum'[q]
                                                              ELSE nextblknum'[q] - 1
      BY DEF SenderPosition, ChunkLen
    <2>1. CASE q = p
      BY <1>3, <1>4, <2>1
    <2>2. CASE q # p
      BY <1>3, <2>2 DEF CopyInv, SenderPosition, Same, Sending
    <2> QED
      BY <2>1, <2>2
  <1>12. \A r \in Procs : ActiveReceiver(r)' =>
           /\ r # p /\ ActiveReceiver(r) /\ localfp'[r] = localfp[r]
           /\ nextblknum'[r] = nextblknum[r] /\ pc'[r] = pc[r]
           /\ written'[r] = written[r]
    BY <1>3, <1>4 DEF ActiveReceiver, Receiving, Same
  <1>13. NotAhead'
    <2> SUFFICES ASSUME NEW s \in Procs, NEW r \in Procs, ActiveSender(s)',
                        ActiveReceiver(r)', peer'[s] = Port(r)
                 PROVE  nextblknum'[s] <= nextblknum'[r]
      BY <1>5 DEF NotAhead
    <2>1. CASE s = p
      BY <1>3, <1>12, <2>1 DEF Addressee
    <2>2. CASE s # p
      BY <1>3, <1>12, <2>2 DEF CopyInv, NotAhead, Same, ActiveSender
    <2> QED
      BY <2>1, <2>2
  <1>14. AcksBehind'
    <2>1. \A x \in net' : IsAck(x.pkt) => x \in net
      BY <1>1, <1>2, <1>3, <1>4 DEF IsAck
    <2> QED
      BY <1>5, <1>12, <2>1 DEF CopyInv, AcksBehind
  <1>15. DataBehind'
    <2> SUFFICES ASSUME NEW x \in net', NEW r \in Procs, IsData(x.pkt),
                        ActiveReceiver(r)', x.dst = Port(r)
                 PROVE  BlockOf(x.pkt, localfp'[r], nextblknum'[r])
      BY <1>5 DEF DataBehind, BlockOf
    <2>1. CASE x \in net
      BY <1>12, <2>1 DEF CopyInv, DataBehind
    <2>2. CASE x = a
      <3>1. localfp'[r] = f /\ k + 1 <= nextblknum'[r]
        BY <1>1, <1>12, <2>2 DEF Addressee
      <3>2. nextblknum'[r] \in Nat
        BY DEF TypeInv, TypeOK
      <3> QED
        BY <1>1, <1>2, <2>2, <3>1, <3>2 DEF BlockOf
    <2> QED
      BY <1>3, <2>1, <2>2
  <1>16. CopyPrefix'
    BY <1>12 DEF CopyInv, CopyPrefix, ActiveReceiver
  <1>17. GotOutside' /\ ReceiverComplete'
    BY <1>3 DEF CopyInv, GotOutside, ReceiverComplete, Same
  <1> QED
    BY <1>6, <1>7, <1>8, <1>9, <1>10, <1>11, <1>13, <1>14, <1>15, <1>16, <1>17 DEF CopyInv

\* recv_ACK() sends the next block when the last one was acknowledged, and only
\* then.
LEMMA CopyRecvAck ==
  ASSUME TypeInv, TypeInv', FileOpen, CopyInv, NEW p \in Procs, NEW m \in net,
         recv_ACK(p, m)
  PROVE  CopyInv'
  <1>1. Handles(p, m, "recv_ACK")
    BY DEF recv_ACK
  <1>2. /\ m.pkt \in Packets
        /\ UNCHANGED <<recvbuff, localfp, sock, strays>>
    BY <1>1, HandlesType DEF TypeInv
  <1>3. m.pkt.op = OP_ACK /\ op_sent[p] \in {OP_WRQ, OP_DATA} /\ IsAck(m.pkt)
    BY <1>1, TableFacts DEF Handles, IsAck
  <1>4. m.pkt.blk \in Nat
    BY <1>2, <1>3, PacketFields, ConstAssumption DEF Acks
  <1> DEFINE n == nextblknum[p]
             f == localfp[p]
  <1>5. /\ pc[p] = "fsm" /\ m.dst = Port(p)
        /\ peer' = [peer EXCEPT ![p] = m.src]
        /\ recv_first' = [recv_first EXCEPT ![p] = FALSE]
        /\ p \in Children => m.src = peer[p] /\ m.src[1] \in Clients
        /\ p \in Clients => m.src[1] \in Children
        /\ (p \in Clients /\ op_sent[p] \notin {OP_RRQ, OP_WRQ}) => m.src = peer[p]
        /\ Bound(m.src)
        /\ \A ch \in Children : pc[ch] = "start" => m.src # Port(ch)
    BY <1>1, <1>3, Taken
  <1>6. n \in Nat /\ f \in Files /\ fpos[p] \in Nat /\ lastsend[p] \in 0..MAXDATA
    BY <1>5 DEF FileOpen, TypeInv, TypeOK
  <1>7. /\ op_sent[p] = OP_WRQ => n = 0 /\ fpos[p] = 0
        /\ op_sent[p] # OP_WRQ =>
             /\ lastsend[p] = ChunkLen(f, n)
             /\ fpos[p] = IF lastsend[p] > 0 THEN n ELSE n - 1
    BY <1>3, <1>5 DEF CopyInv, SenderPosition, Sending
  <1>8. outcome[p] # "got"
    BY <1>5 DEF CopyInv, GotOutside
  <1>9. CASE OutOfWindow(p, m)
    BY <1>1, <1>9, CopyOutOfWindow
  <1>10. CASE /\ Return(p, rtt_stop(rtt[p]), "sent")
              /\ Exchange(m, {})
              /\ UNCHANGED xferVars
    <2>1. /\ pc' = [pc EXCEPT ![p] = IF p \in Clients THEN "idle" ELSE "exit"]
          /\ outcome' = [outcome EXCEPT ![p] = "sent"]
      BY <1>10 DEF Return
    <2>2. QuietStep
      BY <1>1, <1>10, <2>1, CopyLastPass
    <2> QED
      BY <2>2, QuietInv DEF TypeInv
  <1>11. CASE /\ m.pkt.blk = nextblknum[p] - 1
              /\ Exchange(m, {})
              /\ UNCHANGED <<pc, outcome>> /\ UNCHANGED xferVars
    <2>1. op_sent[p] # OP_WRQ
      BY <1>4, <1>7, <1>11
    <2>2. m.src = peer[p] /\ ~recv_first[p]
      BY <1>3, <1>5, <2>1 DEF CopyInv, Parties, Procs, OP_WRQ, OP_RRQ, OP_DATA
    <2>3. peer' = peer /\ recv_first' = recv_first
      BY <1>5, <2>2 DEF TypeInv, TypeOK
    <2>4. QuietStep
      BY <1>2, <1>11, <2>3 DEF QuietStep, Stays, xferVars, Exchange
    <2> QED
      BY <2>4, QuietInv DEF TypeInv
  <1>12. CASE /\ AckExpected(p, m)
              /\ ~LastAcked(p)
              /\ send_DATA(p, localfp[p], fpos[p], nextblknum[p] + 1)
              /\ Exchange(m, {Msg(Port(p), m.src,
                                  NextData(localfp[p], fpos[p], nextblknum[p] + 1))})
              /\ UNCHANGED <<pc, outcome, written, upload, finished>>
    <2>1. fpos[p] = n
      <3>1. CASE op_sent[p] = OP_WRQ
        BY <1>7, <3>1
      <3>2. CASE op_sent[p] # OP_WRQ
        <4>1. lastsend[p] = 0 => LastAcked(p)
          <5> SUFFICES ASSUME lastsend[p] = 0
                       PROVE  LastAcked(p)
            OBVIOUS
          <5>1. fpos[p] + 1 = n
            BY <1>6, <1>7, <3>2
          <5> QED
            BY <1>7, <3>2, <5>1, ConstAssumption DEF LastAcked
        <4> QED
          BY <1>6, <1>7, <1>12, <3>2, <4>1
      <3> QED
        BY <3>1, <3>2
    <2>2. peer'[p] = m.src /\ ~recv_first'[p]
      BY <1>5 DEF TypeInv, TypeOK
    <2>3. Sends(p, f, n)
      <3>1. /\ DOMAIN op_sent = Procs /\ DOMAIN nextblknum = Procs
            /\ DOMAIN lastsend = Procs /\ DOMAIN sendbuff = Procs
            /\ DOMAIN fpos = Procs /\ DOMAIN peer = Procs /\ DOMAIN recv_first = Procs
        BY DEF TypeInv, TypeOK
      <3>2. /\ lastsend' = [lastsend EXCEPT ![p] = ChunkLen(f, n + 1)]
            /\ nextblknum' = [nextblknum EXCEPT ![p] = n + 1]
            /\ fpos' = [fpos EXCEPT ![p] = IF ChunkLen(f, n + 1) > 0 THEN n + 1 ELSE n]
            /\ sendbuff' = [sendbuff EXCEPT ![p] = NextData(f, n, n + 1)]
            /\ op_sent' = [op_sent EXCEPT ![p] = OP_DATA]
            /\ UNCHANGED <<pc, outcome, written, localfp, sock, recvbuff>>
        BY <1>2, <1>12, <2>1 DEF send_DATA
      <3>3. \A x \in net' : x \in net \/ x = Msg(Port(p), peer'[p], NextData(f, n, n + 1))
        BY <1>12, <2>1, <2>2 DEF Exchange
      <3>4. \A q \in Procs : q # p => Same(q)
        BY <1>5, <3>1, <3>2 DEF Same
      <3> QED
        BY <1>5, <1>8, <3>1, <3>2, <3>3, <3>4 DEF Sends
    <2>4. \A r \in Procs : (ActiveReceiver(r) /\ m.src = Port(r)) =>
            localfp[r] = f /\ n + 1 <= nextblknum[r]
      <3> SUFFICES ASSUME NEW r \in Procs, ActiveReceiver(r), m.src = Port(r)
                   PROVE  localfp[r] = f /\ n + 1 <= nextblknum[r]
        OBVIOUS
      <3>1. m.src[1] = r /\ pc[r] = "fsm" /\ nextblknum[r] \in Nat
        BY DEF Port, ActiveReceiver, TypeInv, TypeOK
      <3>2. n < nextblknum[r]
        BY <1>3, <1>12 DEF AckExpected, CopyInv, AcksBehind
      <3>3. localfp[r] = f
        <4>1. CASE p \in Children
          BY <1>5, <3>1, <4>1 DEF CopyInv, SameFile
        <4>2. CASE p \in Clients
          <5>1. r \in Children /\ peer[r] = Port(p)
            BY <1>3, <1>5, <3>1, <4>2, ConstAssumption DEF CopyInv, Parties
          <5> QED
            BY <1>5, <3>1, <4>2, <5>1 DEF CopyInv, SameFile
        <4> QED
          BY <4>1, <4>2 DEF Procs
      <3> QED
        BY <1>6, <3>1, <3>2, <3>3
    <2>5. sock[p] > 0 /\ Bound(Port(p))
      BY <1>5 DEF CopyInv, PortsBound, Bound, Port, TypeInv, TypeOK
    <2>6. p \in Children => \A c \in Clients :
            (pc[c] = "fsm" /\ peer[p] = Port(c)) => f = localfp[c]
      BY <1>5 DEF CopyInv, SameFile
    <2>7. Addressee(p, f, n)
      BY <1>5, <2>2, <2>4, <2>5, <2>6 DEF Addressee
    <2> QED
      BY <1>6, <2>3, <2>7, SendsInv
  <1> QED
    BY <1>9, <1>10, <1>11, <1>12 DEF recv_ACK

-----------------------------------------------------------------------------
(* Processes that stop. *)

\* A process stops without having taken a datagram, and sends at most an error.
LEMMA CopyStop ==
  ASSUME TypeInv, TypeInv', CopyInv, NEW p \in Procs, NEW why, why # "got",
         outcome' = [outcome EXCEPT ![p] = why],
         pc' = [pc EXCEPT ![p] = "exit"]
           \/ (p \in Clients /\ pc' = [pc EXCEPT ![p] = "idle"]),
         UNCHANGED <<op_sent, nextblknum, lastsend, fpos, written, localfp, sock,
                     recvbuff, peer, recv_first>>,
         \A q \in Procs : q # p => sendbuff'[q] = sendbuff[q],
         \A x \in net' : x \in net \/ Harmless(x)
  PROVE  CopyInv'
  <1>1. \A q \in Procs : q # p => Stays(q)
    BY DEF Stays, TypeInv, TypeOK
  <1>2. Stops(p)
    <2>1. /\ pc'[p] = "exit" \/ (p \in Clients /\ pc'[p] = "idle")
          /\ outcome'[p] # "got"
      BY DEF TypeInv, TypeOK
    <2> QED
      BY <2>1 DEF Stops, CopyInv, PortsBound, Parties
  <1>3. QuietStep
    BY <1>1, <1>2 DEF QuietStep
  <1> QED
    BY <1>3, QuietInv DEF TypeInv

\* Nothing the invariant speaks of changes.
LEMMA CopyStutter ==
  ASSUME TypeInv, TypeInv', CopyInv,
         UNCHANGED <<pc, outcome, op_sent, nextblknum, lastsend, sendbuff, fpos, written,
                     localfp, sock, recvbuff, peer, recv_first>>,
         \A x \in net' : x \in net \/ Harmless(x)
  PROVE  CopyInv'
  <1>1. QuietStep
    BY DEF QuietStep, Stays
  <1> QED
    BY <1>1, QuietInv DEF TypeInv

\* Errors, invalid packets and packets from other ports.
LEMMA CopyOtherPackets ==
  ASSUME TypeInv, TypeInv', CopyInv, NEW p \in Procs, NEW m \in net,
         recv_RQERR(p, m) \/ fsm_invalid(p, m) \/ net_recv_other(p, m)
  PROVE  CopyInv'
  <1>1. CASE recv_RQERR(p, m)
    <2>1. /\ pc' = [pc EXCEPT ![p] = IF p \in Clients THEN "idle" ELSE "exit"]
          /\ outcome' = [outcome EXCEPT ![p] = "rqerr"]
          /\ Handles(p, m, "recv_RQERR") /\ Exchange(m, {}) /\ UNCHANGED xferVars
      BY <1>1 DEF recv_RQERR, Return
    <2>2. QuietStep
      BY <2>1, CopyLastPass
    <2> QED
      BY <2>2, QuietInv DEF TypeInv
  <1>2. CASE fsm_invalid(p, m)
    <2>1. PICK h : Handles(p, m, h)
      BY <1>2 DEF fsm_invalid
    <2>2. /\ pc' = [pc EXCEPT ![p] = "exit"]
          /\ outcome' = [outcome EXCEPT ![p] = "botch"]
          /\ Exchange(m, {}) /\ UNCHANGED xferVars
      BY <1>2 DEF fsm_invalid, Exit
    <2>3. QuietStep
      BY <2>1, <2>2, CopyLastPass
    <2> QED
      BY <2>3, QuietInv DEF TypeInv
  <1>3. CASE net_recv_other(p, m)
    BY <1>3, CopyStop DEF net_recv_other, Exit, Exchange, xferVars
  <1> QED
    BY <1>1, <1>2, <1>3

\* A system call fails, the user interrupts the transfer or leaves, an alarm is
\* lost.
LEMMA CopyInterruptions ==
  ASSUME TypeInv, TypeInv', CopyInv
  PROVE  /\ \A p \in Procs \cup {Server} : sys_error(p) => CopyInv'
         /\ \A c \in Clients : sig_intr(c) \/ cmd_exit(c) => CopyInv'
         /\ \A p \in Procs : alarm_lost(p) => CopyInv'
  <1>1. ASSUME NEW p \in Procs, sys_error(p)
        PROVE  CopyInv'
    <2>1. p # Server
      BY ConstAssumption
    <2> QED
      BY <1>1, <2>1, CopyStop DEF sys_error, xferVars
  <1>2. ASSUME sys_error(Server)
        PROVE  CopyInv'
    <2>1. /\ \A q \in Procs : pc'[q] = pc[q]
          /\ UNCHANGED <<outcome, op_sent, nextblknum, lastsend, sendbuff, fpos, written,
                         localfp, sock, recvbuff, peer, recv_first, net>>
      BY <1>2, ConstAssumption DEF sys_error, xferVars, TypeInv, TypeOK
    <2>2. QuietStep
      BY <2>1 DEF QuietStep, Stays
    <2> QED
      BY <2>2, QuietInv DEF TypeInv
  <1>3. ASSUME NEW c \in Clients, sig_intr(c)
        PROVE  CopyInv'
    <2>1. c \in Procs
      BY DEF Procs
    <2> QED
      BY <1>3, <2>1, CopyStop DEF sig_intr, xferVars
  <1>4. ASSUME NEW c \in Clients, cmd_exit(c)
        PROVE  CopyInv'
    <2>1. c \in Procs
      BY DEF Procs
    <2> QED
      BY <1>4, <2>1, CopyStop DEF cmd_exit, Exit, xferVars
  <1>5. ASSUME NEW p \in Procs, alarm_lost(p)
        PROVE  CopyInv'
    BY <1>5, CopyStutter DEF alarm_lost, xferVars
  <1> QED
    BY <1>1, <1>2, <1>3, <1>4, <1>5

\* A foreign implementation sends a packet.
LEMMA CopyStray ==
  ASSUME TypeInv, TypeInv', CopyInv, NEW m \in StrayMsgs, stray(m)
  PROVE  CopyInv'
  <1>1. UNCHANGED <<pc, outcome, op_sent, nextblknum, lastsend, sendbuff, fpos, written,
                    localfp, sock, recvbuff, peer, recv_first>>
    BY DEF stray, xferVars
  <1>2. m.pkt.op \in {OP_ERROR, 0}
    BY DEF stray, ERROR, NoPacket
  <1>3. /\ Bound(Foreign) /\ Bound(WellKnown)
        /\ \A ch \in Children : Foreign # Port(ch) /\ WellKnown # Port(ch)
    BY ConstAssumption DEF Bound, Foreign, WellKnown, Port, Procs
  <1>4. /\ Bound(m.src) /\ Bound(m.dst)
        /\ \A ch \in Children : pc[ch] = "start" => m.src # Port(ch) /\ m.dst # Port(ch)
    <2>1. CASE m.src = Foreign /\ m.dst = WellKnown
      BY <1>3, <2>1
    <2>2. CASE \E p \in Procs : /\ pc[p] = "fsm" /\ m.dst = Port(p)
                                /\ m.src \in {peer[p], Foreign}
      <3>1. PICK p \in Procs : /\ pc[p] = "fsm" /\ m.dst = Port(p)
                               /\ m.src \in {peer[p], Foreign}
        BY <2>2
      <3>2. Bound(Port(p)) /\ Bound(peer[p])
        <4>1. sock[p] > 0 /\ sock[p] \in Nat /\ Bound(peer[p])
          BY <3>1 DEF CopyInv, PortsBound, TypeInv, TypeOK
        <4> QED
          BY <4>1 DEF Bound, Port
      <3>3. \A ch \in Children : pc[ch] = "start" => peer[p] # Port(ch) /\ Port(p) # Port(ch)
        BY <3>1, PortsDiffer DEF CopyInv, StartSilent
      <3> QED
        BY <1>3, <3>1, <3>2, <3>3
    <2> QED
      BY <2>1, <2>2 DEF stray
  <1>5. Harmless(m)
    BY <1>1, <1>2, <1>4 DEF Harmless
  <1>6. \A x \in net' : x \in net \/ x = m
    BY DEF stray
  <1> QED
    BY <1>1, <1>5, <1>6, CopyStutter

\* A timeout gives up, or sends the last packet again to an end that waits for it
\* or is past it.
LEMMA CopyTimeout ==
  ASSUME TypeInv, TypeInv', CopyInv, NEW p \in Procs, timeout(p)
  PROVE  CopyInv'
  <1> DEFINE a == Msg(Port(p), peer[p], sendbuff[p])
  <1>1. /\ pc[p] = "fsm"
        /\ UNCHANGED <<op_sent, nextblknum, lastsend, sendbuff, fpos, written, localfp,
                       sock, recvbuff, peer, recv_first>>
    BY DEF timeout, xferVars
  <1>2. CASE Return(p, rtt_timeout(rtt[p]), "timeout") /\ UNCHANGED net
    <2>1. /\ outcome' = [outcome EXCEPT ![p] = "timeout"]
          /\ pc' = [pc EXCEPT ![p] = "exit"]
               \/ (p \in Clients /\ pc' = [pc EXCEPT ![p] = "idle"])
      BY <1>2 DEF Return
    <2> QED
      BY <1>1, <1>2, <2>1, CopyStop
  <1>3. CASE net' = net \cup {a} /\ UNCHANGED <<pc, outcome>>
    <2>1. a.src = Port(p) /\ a.dst = peer[p] /\ a.pkt = sendbuff[p] /\ a.src[1] = p
      BY DEF Msg, Port
    <2>2. \A x \in net' : x \in net \/ x = a
      BY <1>3
    <2> HIDE DEF a
    <2>3. UNCHANGED <<pc, outcome, op_sent, nextblknum, lastsend, sendbuff, fpos, written,
                      localfp, sock, recvbuff, peer, recv_first>>
      BY <1>1, <1>3
    <2>4. \A q : Port(q)' = Port(q)
      BY <2>3 DEF Port
    <2>5. Bound(Port(p)) /\ Bound(peer[p])
      <3>1. sock[p] > 0 /\ sock[p] \in Nat /\ Bound(peer[p])
        BY <1>1 DEF CopyInv, PortsBound, TypeInv, TypeOK
      <3> QED
        BY <3>1 DEF Bound, Port
    <2>6. sendbuff[p].op = op_sent[p]
      BY <1>1 DEF CopyInv, LastSent
    <2>7. PortsBound'
      BY <2>1, <2>2, <2>3, <2>5 DEF CopyInv, PortsBound, Bound
    <2>8. StartSilent'
      BY <1>1, <2>1, <2>2, <2>3, <2>4, PortsDiffer DEF CopyInv, StartSilent
    <2>9. Parties'
      <3>1. IsRequest(a.pkt) => p \in Clients /\ a.dst = WellKnown
        BY <1>1, <2>1, <2>6 DEF CopyInv, LastSent, Parties, IsRequest
      <3>2. IsData(a.pkt) \/ IsAck(a.pkt) =>
              \/ p \in Children /\ a.dst[1] \in Clients /\ a.dst = peer[p]
              \/ p \in Clients /\ a.dst[1] \in Children
        BY <1>1, <2>1, <2>6 DEF CopyInv, Parties, IsData, IsAck, Procs, OP_RRQ, OP_WRQ,
                                OP_DATA, OP_ACK
      <3>3. \A x \in net' : IsRequest(x.pkt) => x.src[1] \in Clients /\ x.dst = WellKnown
        BY <2>1, <2>2, <3>1 DEF CopyInv, Parties
      <3>4. \A x \in net' : (IsData(x.pkt) \/ IsAck(x.pkt)) =>
              \/ x.src[1] \in Children /\ x.dst[1] \in Clients /\ x.dst = peer[x.src[1]]
              \/ x.src[1] \in Clients /\ x.dst[1] \in Children
        BY <2>1, <2>2, <3>2 DEF CopyInv, Parties
      <3> QED
        BY <2>3, <3>3, <3>4 DEF CopyInv, Parties
    <2>10. SameFile'
      <3>1. \A x \in net', c \in Clients :
               (IsRequest(x.pkt) /\ pc[c] = "fsm" /\ x.src = Port(c))
                 => x.pkt.file = localfp[c]
        BY <1>1, <2>1, <2>2, PortsDiffer DEF CopyInv, SameFile, LastSent
      <3> QED
        BY <2>3, <2>4, <3>1 DEF CopyInv, SameFile, ActiveSender, ActiveReceiver, Receiving
    <2>11. LastSent' /\ SenderPosition'
      BY <2>3 DEF CopyInv, LastSent, SenderPosition, Sending, BlockOf
    <2>12. NotAhead'
      BY <2>3, <2>4 DEF CopyInv, NotAhead, ActiveSender, ActiveReceiver, Receiving
    <2>13. AcksBehind'
      <3>1. \A x \in net', r \in Procs :
               (IsAck(x.pkt) /\ ActiveReceiver(r) /\ x.src = Port(r))
                 => x.pkt.blk < nextblknum[r]
        BY <1>1, <2>1, <2>2, PortsDiffer DEF CopyInv, AcksBehind, LastSent
      <3> QED
        BY <2>3, <2>4, <3>1 DEF AcksBehind, ActiveReceiver, Receiving
    <2>14. DataBehind'
      <3> SUFFICES ASSUME NEW x \in net', NEW r \in Procs, IsData(x.pkt),
                          ActiveReceiver(r), x.dst = Port(r)
                   PROVE  BlockOf(x.pkt, localfp[r], nextblknum[r])
        BY <2>3, <2>4 DEF DataBehind, ActiveReceiver, Receiving, BlockOf
      <3>1. CASE x \in net
        BY <3>1 DEF CopyInv, DataBehind
      <3>2. CASE x = a
        <4>1. ActiveSender(p) /\ peer[p] = Port(r)
          BY <1>1, <2>1, <2>6, <3>2 DEF ActiveSender, IsData
        <4>2. localfp[p] = localfp[r] /\ nextblknum[p] <= nextblknum[r]
          BY <4>1 DEF CopyInv, SameFile, NotAhead
        <4>3. BlockOf(x.pkt, localfp[p], nextblknum[p])
          BY <1>1, <2>1, <3>2 DEF CopyInv, LastSent
        <4>4. nextblknum[p] \in Nat /\ nextblknum[r] \in Nat
          BY DEF TypeInv, TypeOK
        <4> QED
          BY <4>2, <4>3, <4>4 DEF BlockOf
      <3> QED
        BY <2>2, <3>1, <3>2
    <2>15. CopyPrefix' /\ GotOutside' /\ ReceiverComplete'
      BY <2>3 DEF CopyInv, CopyPrefix, GotOutside, ReceiverComplete, Receiving
    <2> QED
      BY <2>7, <2>8, <2>9, <2>10, <2>11, <2>12, <2>13, <2>14, <2>15 DEF CopyInv
  <1> QED
    BY <1>2, <1>3 DEF timeout

-----------------------------------------------------------------------------
(* Transfers begin. *)

\* A client sends a request from a new port, which nobody has heard of.
LEMMA CopyRequest ==
  ASSUME TypeInv, TypeInv', CopyInv, NEW c \in Clients, NEW f \in Files, NEW op, NEW blk,
         file_open(c, f, blk), send_RQ(c, f, op),
         \/ op = OP_RRQ /\ blk = 1
         \/ op = OP_WRQ /\ blk = 0 /\ lastsend'[c] = MAXDATA,
         \A q \in Procs : q # c => lastsend'[q] = lastsend[q],
         UNCHANGED recvbuff
  PROVE  CopyInv'
  <1> DEFINE port == <<c, sock[c] + 1>>
             a == Msg(port, WellKnown, RQ(op, f))
             BoundNow(pt) == pt[1] \in Procs => pt[2] \in 1..sock'[pt[1]]
  <1>1. c \in Procs /\ c \notin Children
    BY ConstAssumption DEF Procs
  <1>2. op \in {OP_RRQ, OP_WRQ} /\ op \notin {OP_DATA, OP_ACK}
    BY DEF OP_RRQ, OP_WRQ, OP_DATA, OP_ACK
  <1>3. /\ a.src = port /\ a.dst = WellKnown /\ a.pkt.op = op /\ a.pkt.file = f
        /\ a.pkt = RQ(op, f)
        /\ a.src[1] = c
    BY DEF Msg, RQ
  <1>4. /\ DOMAIN op_sent = Procs /\ DOMAIN nextblknum = Procs /\ DOMAIN fpos = Procs
        /\ DOMAIN sendbuff = Procs /\ DOMAIN peer = Procs /\ DOMAIN recv_first = Procs
        /\ DOMAIN localfp = Procs /\ DOMAIN written = Procs /\ DOMAIN outcome = Procs
        /\ DOMAIN pc = Procs \cup {Server} /\ sock \in [Procs -> Nat]
    BY DEF TypeInv, TypeOK
  <1>5. \A q \in Procs : q # c => Same(q) /\ sock'[q] = sock[q]
    BY <1>4 DEF Same, file_open, send_RQ
  <1>6. /\ localfp'[c] = f /\ nextblknum'[c] = blk /\ fpos'[c] = 0
        /\ written'[c] = <<>> /\ outcome'[c] = "none"
    BY <1>1, <1>4 DEF file_open
  <1>7. /\ peer'[c] = WellKnown /\ sendbuff'[c] = RQ(op, f) /\ op_sent'[c] = op
        /\ pc'[c] = "fsm" /\ sock'[c] = sock[c] + 1
    BY <1>1, <1>4 DEF send_RQ
  <1>8. \A x \in net' : x \in net \/ x = a
    BY DEF send_RQ
  <1>9. \A q \in Procs : q # c => Port(q)' = Port(q)
    BY <1>5 DEF Port
  <1>10. Port(c)' = port
    BY <1>7 DEF Port
  <1>11. \A pt : Bound(pt) => pt # port
    BY <1>1, <1>4 DEF Bound
  <1>12. sock[c] + 1 > 0 /\ sock[c] + 1 \in Nat /\ sock[c] < sock[c] + 1
    BY <1>1, <1>4
  <1>13. \A pt : Bound(pt) => BoundNow(pt)
    <2> SUFFICES ASSUME NEW pt, Bound(pt)
                 PROVE  BoundNow(pt)
      OBVIOUS
    <2>1. CASE pt[1] = c
      BY <1>1, <1>4, <1>7, <2>1 DEF Bound
    <2>2. CASE pt[1] # c
      BY <1>5, <2>2 DEF Bound
    <2> QED
      BY <2>1, <2>2
  <1>14. BoundNow(port) /\ BoundNow(WellKnown)
    <2>1. BoundNow(port)
      BY <1>1, <1>7, <1>12 DEF Bound
    <2> QED
      BY <2>1, ConstAssumption DEF Bound, WellKnown
  <1> HIDE DEF port, a
  <1>15. PortsBound'
    <2>1. \A x \in net' : BoundNow(x.src) /\ BoundNow(x.dst)
      BY <1>3, <1>8, <1>13, <1>14 DEF CopyInv, PortsBound
    <2>2. \A q \in Procs : BoundNow(peer'[q])
      BY <1>5, <1>7, <1>13, <1>14 DEF CopyInv, PortsBound, Same
    <2>3. \A ch \in Children : (pc'[ch] = "idle" => sock'[ch] = 0) /\ sock'[ch] <= 1
      BY <1>1, <1>5 DEF CopyInv, PortsBound, Same, Procs
    <2>4. \A q \in Procs : pc'[q] = "fsm" => sock'[q] > 0
      BY <1>5, <1>7, <1>12 DEF CopyInv, PortsBound, Same
    <2> QED
      BY <2>1, <2>2, <2>3, <2>4 DEF PortsBound, Bound
  <1>16. StartSilent'
    <2> SUFFICES ASSUME NEW ch \in Children, pc'[ch] = "start"
                 PROVE  /\ sock'[ch] = 1
                        /\ \A x \in net' : x.src # Port(ch)' /\ x.dst # Port(ch)'
                        /\ \A q \in Procs : pc'[q] = "fsm" => peer'[q] # Port(ch)'
      BY DEF StartSilent
    <2>1. ch \in Procs /\ ch # c /\ pc[ch] = "start" /\ Port(ch)' = Port(ch)
          /\ sock'[ch] = sock[ch]
      BY <1>1, <1>5, <1>9 DEF Procs, Same
    <2>2. port # Port(ch) /\ WellKnown # Port(ch)
      BY <2>1, ConstAssumption DEF Port, port, WellKnown
    <2> QED
      BY <1>3, <1>5, <1>7, <1>8, <2>1, <2>2 DEF CopyInv, StartSilent, Same
  <1>17. Parties'
    <2>0. \A ch \in Children : ch \in Procs /\ ch # c
      BY <1>1 DEF Procs
    <2>1. IsRequest(a.pkt) /\ ~IsData(a.pkt) /\ ~IsAck(a.pkt)
      BY <1>2, <1>3 DEF IsRequest, IsData, IsAck
    <2>2. \A x \in net' : IsRequest(x.pkt) => x.src[1] \in Clients /\ x.dst = WellKnown
      BY <1>3, <1>8 DEF CopyInv, Parties
    <2>3. \A x \in net' : (IsData(x.pkt) \/ IsAck(x.pkt)) =>
            \/ x.src[1] \in Children /\ x.dst[1] \in Clients /\ x.dst = peer'[x.src[1]]
            \/ x.src[1] \in Clients /\ x.dst[1] \in Children
      BY <1>5, <1>8, <2>0, <2>1 DEF CopyInv, Parties, Same
    <2>4. \A d \in Clients : pc'[d] = "fsm" =>
            IF op_sent'[d] \in {OP_RRQ, OP_WRQ}
            THEN peer'[d] = WellKnown
            ELSE peer'[d][1] \in Children /\ ~recv_first'[d]
      BY <1>2, <1>5, <1>7 DEF CopyInv, Parties, Same, Procs
    <2>5. /\ \A ch \in Children : pc'[ch] = "fsm" =>
               peer'[ch][1] \in Clients /\ op_sent'[ch] \in {OP_DATA, OP_ACK}
          /\ \A ch \in Children : (pc'[ch] = "start" /\ IsRequest(recvbuff'[ch])) =>
               peer'[ch][1] \in Clients
          /\ \A ch \in Children : ~recv_first'[ch]
      BY <1>5, <2>0 DEF CopyInv, Parties, Same
    <2>6. \A d \in Clients : pc'[d] # "start"
      BY <1>5, <1>7 DEF CopyInv, Parties, Same, Procs
    <2> QED
      BY <2>2, <2>3, <2>4, <2>5, <2>6 DEF Parties
  <1>18. /\ \A x \in net : x.src # port /\ x.dst # port
         /\ \A q \in Procs : peer[q] # port
    BY <1>11 DEF CopyInv, PortsBound
  <1>19. \A s \in Procs : ActiveSender(s)' => s # c /\ ActiveSender(s) /\ Same(s)
    BY <1>2, <1>5, <1>7 DEF ActiveSender, Same
  <1>20. \A r \in Procs : (ActiveReceiver(r)' /\ r # c) => ActiveReceiver(r) /\ Same(r)
    BY <1>5 DEF ActiveReceiver, Receiving, Same
  <1>21. SameFile'
    <2>0. \A ch \in Children : ch \in Procs /\ ch # c
      BY <1>1 DEF Procs
    <2>1. \A x \in net', d \in Clients :
             (IsRequest(x.pkt) /\ pc'[d] = "fsm" /\ x.src = Port(d)')
               => x.pkt.file = localfp'[d]
      <3> SUFFICES ASSUME NEW x \in net', NEW d \in Clients, IsRequest(x.pkt),
                          pc'[d] = "fsm", x.src = Port(d)'
                   PROVE  x.pkt.file = localfp'[d]
        OBVIOUS
      <3>1. CASE d = c
        BY <1>3, <1>6, <1>8, <1>10, <1>18, <3>1
      <3>2. CASE d # c
        <4>1. d \in Procs /\ Port(d)' = Port(d) /\ Same(d)
          BY <1>5, <1>9, <3>2 DEF Procs
        <4>2. x # a
          BY <1>3, <3>2, <4>1 DEF Port
        <4> QED
          BY <1>8, <4>1, <4>2 DEF CopyInv, SameFile, Same
      <3> QED
        BY <3>1, <3>2
    <2>2. \A ch \in Children, d \in Clients :
             (pc'[d] = "fsm" /\ peer'[ch] = Port(d)') =>
               /\ d # c /\ Same(d) /\ Same(ch) /\ Port(d)' = Port(d)
      <3> SUFFICES ASSUME NEW ch \in Children, NEW d \in Clients,
                          peer'[ch] = Port(d)'
                   PROVE  d # c /\ Same(d) /\ Same(ch) /\ Port(d)' = Port(d)
        OBVIOUS
      <3>1. Same(ch) /\ peer'[ch] = peer[ch]
        BY <1>5, <2>0 DEF Same
      <3>2. d # c
        BY <1>10, <1>18, <2>0, <3>1
      <3> QED
        BY <1>5, <1>9, <3>1, <3>2 DEF Procs
    <2>3. \A ch \in Children, d \in Clients :
             (pc'[ch] = "start" /\ IsRequest(recvbuff'[ch]) /\ pc'[d] = "fsm"
              /\ peer'[ch] = Port(d)') => recvbuff'[ch].file = localfp'[d]
      BY <2>2 DEF CopyInv, SameFile, Same
    <2>4. \A ch \in Children, d \in Clients :
             (pc'[ch] = "fsm" /\ pc'[d] = "fsm" /\ peer'[ch] = Port(d)')
               => localfp'[ch] = localfp'[d]
      BY <2>2 DEF CopyInv, SameFile, Same
    <2>5. \A s, r \in Procs :
             (ActiveSender(s)' /\ ActiveReceiver(r)' /\ peer'[s] = Port(r)')
               => localfp'[s] = localfp'[r]
      BY <1>9, <1>10, <1>18, <1>19, <1>20 DEF CopyInv, SameFile, Same
    <2> QED
      BY <2>1, <2>3, <2>4, <2>5 DEF SameFile
  <1>22. LastSent'
    <2>1. /\ sendbuff'[c].op = op_sent'[c] /\ sendbuff'[c].file = localfp'[c]
          /\ ~IsAck(sendbuff'[c]) /\ ~IsData(sendbuff'[c])
      BY <1>2, <1>3, <1>6, <1>7 DEF IsAck, IsData
    <2>2. \A q \in Procs : q # c => Same(q)
      BY <1>5
    <2> QED
      BY <2>1, <2>2 DEF CopyInv, LastSent, Same, BlockOf
  <1>23. SenderPosition'
    <2> SUFFICES ASSUME NEW q \in Procs, pc'[q] = "fsm", Sending(q)'
                 PROVE  IF op_sent'[q] = OP_WRQ
                        THEN nextblknum'[q] = 0 /\ fpos'[q] = 0 /\ lastsend'[q] = MAXDATA
                        ELSE /\ lastsend'[q] = ChunkLen(localfp'[q], nextblknum'[q])
                             /\ fpos'[q] = IF lastsend'[q] > 0 THEN nextblknum'[q]
                                                              ELSE nextblknum'[q] - 1
      BY DEF SenderPosition, ChunkLen
    <2>1. CASE q = c
      <3>1. op = OP_WRQ
        BY <1>2, <1>7, <2>1 DEF Sending, OP_RRQ, OP_WRQ, OP_DATA
      <3>2. blk = 0 /\ lastsend'[c] = MAXDATA
        BY <3>1 DEF OP_RRQ, OP_WRQ
      <3> QED
        BY <1>6, <1>7, <2>1, <3>1, <3>2
    <2>2. CASE q # c
      BY <1>5, <2>2 DEF CopyInv, SenderPosition, Same, Sending
    <2> QED
      BY <2>1, <2>2
  <1>24. NotAhead'
    BY <1>9, <1>10, <1>18, <1>19, <1>20 DEF CopyInv, NotAhead, Same
  <1>25. AcksBehind' /\ DataBehind'
    <2>1. \A x \in net' : (IsAck(x.pkt) \/ IsData(x.pkt)) => x \in net
      BY <1>2, <1>3, <1>8 DEF IsAck, IsData
    <2>2. AcksBehind'
      BY <1>9, <1>10, <1>18, <1>20, <2>1 DEF CopyInv, AcksBehind, Same
    <2>3. DataBehind'
      BY <1>9, <1>10, <1>18, <1>20, <2>1 DEF CopyInv, DataBehind, Same, BlockOf
    <2> QED
      BY <2>2, <2>3
  <1>26. CopyPrefix'
    <2> SUFFICES ASSUME NEW q \in Procs, pc'[q] = "fsm", Receiving(q)'
                 PROVE  /\ Len(written'[q]) = nextblknum'[q] - 1
                        /\ Len(written'[q]) <= NFull[localfp'[q]]
                        /\ \A j \in 1..Len(written'[q]) : written'[q][j] = <<localfp'[q], j>>
      BY DEF CopyPrefix
    <2>1. CASE q = c
      <3>1. blk = 1
        BY <1>7, <2>1 DEF Receiving, OP_RRQ, OP_WRQ, OP_ACK
      <3>2. NFull[f] \in Nat
        BY ConstAssumption
      <3> QED
        BY <1>6, <2>1, <3>1, <3>2
    <2>2. CASE q # c
      BY <1>5, <2>2 DEF CopyInv, CopyPrefix, Same, Receiving
    <2> QED
      BY <2>1, <2>2
  <1>27. GotOutside' /\ ReceiverComplete'
    BY <1>5, <1>6 DEF CopyInv, GotOutside, ReceiverComplete, Same
  <1> QED
    BY <1>15, <1>16, <1>17, <1>21, <1>22, <1>23, <1>24, <1>25, <1>26, <1>27 DEF CopyInv

\* The client's commands.
LEMMA CopyCommands ==
  ASSUME TypeInv, TypeInv', CopyInv, NEW c \in Clients, NEW f \in Files
  PROVE  /\ do_get(c, f) => CopyInv'
         /\ do_put(c, f) => CopyInv'
         /\ \A blk \in {0, 1} : net_open_fails(c, f, blk) => CopyInv'
  <1>0. c \in Procs
    BY DEF Procs
  <1>1. ASSUME do_get(c, f)
        PROVE  CopyInv'
    <2>1. /\ file_open(c, f, 1) /\ send_RQ(c, f, OP_RRQ)
          /\ UNCHANGED <<lastsend, recvbuff>>
      BY <1>1 DEF do_get
    <2> QED
      BY <2>1, CopyRequest
  <1>2. ASSUME do_put(c, f)
        PROVE  CopyInv'
    <2>1. /\ file_open(c, f, 0) /\ send_RQ(c, f, OP_WRQ)
          /\ lastsend' = [lastsend EXCEPT ![c] = MAXDATA]
          /\ UNCHANGED recvbuff
      BY <1>2 DEF do_put
    <2>2. lastsend'[c] = MAXDATA /\ \A q \in Procs : q # c => lastsend'[q] = lastsend[q]
      BY <1>0, <2>1 DEF TypeInv, TypeOK
    <2> QED
      BY <2>1, <2>2, CopyRequest
  <1>3. ASSUME NEW blk \in {0, 1}, net_open_fails(c, f, blk)
        PROVE  CopyInv'
    <2>1. /\ pc[c] = "idle" /\ file_open(c, f, blk)
          /\ UNCHANGED <<pc, op_sent, lastsend, sendbuff, recvbuff, peer, recv_first,
                         sock, net>>
      BY <1>3 DEF net_open_fails
    <2>2. /\ \A q \in Procs : q # c => Same(q)
          /\ outcome'[c] = "none"
      BY <1>0, <2>1 DEF file_open, Same, TypeInv, TypeOK
    <2>3. \A q \in Procs : pc'[q] = "fsm" => q # c /\ Same(q)
      BY <2>1, <2>2
    <2>4. \A q : Port(q)' = Port(q)
      BY <2>1 DEF Port
    <2>5. PortsBound' /\ StartSilent' /\ Parties'
      BY <2>1, <2>4 DEF CopyInv, PortsBound, StartSilent, Parties, Bound
    <2>6. \A q \in Procs : /\ ActiveSender(q)' => ActiveSender(q) /\ Same(q)
                           /\ ActiveReceiver(q)' => ActiveReceiver(q) /\ Same(q)
      BY <2>1, <2>3 DEF ActiveSender, ActiveReceiver, Receiving, Same
    <2>7. SameFile'
      BY <2>1, <2>3, <2>4, <2>6 DEF CopyInv, SameFile, Same, Procs
    <2>8. LastSent' /\ SenderPosition'
      BY <2>3 DEF CopyInv, LastSent, SenderPosition, Sending, Same, BlockOf
    <2>9. NotAhead' /\ AcksBehind' /\ DataBehind'
      BY <2>1, <2>4, <2>6 DEF CopyInv, NotAhead, AcksBehind, DataBehind, Same, BlockOf
    <2>10. CopyPrefix'
      BY <2>3 DEF CopyInv, CopyPrefix, Same, Receiving
    <2>11. GotOutside' /\ ReceiverComplete'
      BY <2>2 DEF CopyInv, GotOutside, ReceiverComplete, Same
    <2> QED
      BY <2>5, <2>7, <2>8, <2>9, <2>10, <2>11 DEF CopyInv
  <1> QED
    BY <1>1, <1>2, <1>3

\* The parent server forks a child, whose port nobody knows yet.
LEMMA CopyFork ==
  ASSUME TypeInv, TypeInv', CopyInv, NEW ch \in Children, NEW m \in net, net_open(ch, m)
  PROVE  CopyInv'
  <1>0. ch \in Procs /\ ch \notin Clients
    BY ConstAssumption DEF Procs
  <1>1. /\ pc[ch] = "idle" /\ m.dst = WellKnown
        /\ pc' = [pc EXCEPT ![ch] = "start"]
        /\ peer' = [peer EXCEPT ![ch] = m.src]
        /\ recvbuff' = [recvbuff EXCEPT ![ch] = m.pkt]
        /\ sock' = [sock EXCEPT ![ch] = 1]
        /\ UNCHANGED <<outcome, recv_first, localfp, op_sent, nextblknum, lastsend,
                       sendbuff, fpos, written>>
    BY DEF net_open, xferVars
  <1>2. \A x \in net' : x \in net
    BY DEF net_open, Exchange
  <1>3. /\ pc'[ch] = "start" /\ peer'[ch] = m.src /\ recvbuff'[ch] = m.pkt
        /\ sock'[ch] = 1 /\ sock[ch] = 0
        /\ \A q \in Procs : q # ch => pc'[q] = pc[q] /\ peer'[q] = peer[q]
                                      /\ sock'[q] = sock[q]
        /\ \A d \in Children : d # ch => recvbuff'[d] = recvbuff[d]
    BY <1>0, <1>1 DEF CopyInv, PortsBound, TypeInv, TypeOK
  <1>4. \A pt : Bound(pt) => pt[1] # ch
    BY <1>0, <1>3 DEF Bound
  <1>5. /\ \A x \in net : x.src[1] # ch /\ x.dst[1] # ch /\ Bound(x.src) /\ Bound(x.dst)
        /\ \A q \in Procs : peer[q][1] # ch /\ Bound(peer[q])
    BY <1>4 DEF CopyInv, PortsBound
  <1>6. \A q \in Procs : q # ch => Port(q)' = Port(q)
    BY <1>3 DEF Port
  <1>7. Port(ch)' = <<ch, 1>> /\ Port(ch)'[1] = ch
    BY <1>3 DEF Port
  <1>8. \A q \in Procs : pc'[q] = "fsm" =>
          q # ch /\ pc[q] = "fsm" /\ peer'[q] = peer[q] /\ Port(q)' = Port(q)
    BY <1>3, <1>6
  <1>9. \A c \in Clients : c \in Procs /\ c # ch
    BY <1>0 DEF Procs
  <1>10. PortsBound'
    <2> DEFINE BoundNow(pt) == pt[1] \in Procs => pt[2] \in 1..sock'[pt[1]]
    <2>1. \A pt : Bound(pt) => BoundNow(pt)
      BY <1>3, <1>4 DEF Bound
    <2> HIDE DEF BoundNow
    <2>2. /\ \A x \in net' : BoundNow(x.src) /\ BoundNow(x.dst)
          /\ \A q \in Procs : BoundNow(peer'[q])
      BY <1>2, <1>3, <1>5, <2>1
    <2>3. \A d \in Children : (pc'[d] = "idle" => sock'[d] = 0) /\ sock'[d] <= 1
      BY <1>3 DEF CopyInv, PortsBound, Procs
    <2>4. \A q \in Procs : pc'[q] = "fsm" => sock'[q] > 0
      BY <1>3 DEF CopyInv, PortsBound
    <2> QED
      BY <2>2, <2>3, <2>4 DEF PortsBound, Bound, BoundNow
  <1>11. StartSilent'
    <2> SUFFICES ASSUME NEW d \in Children, pc'[d] = "start"
                 PROVE  /\ sock'[d] = 1
                        /\ \A x \in net' : x.src # Port(d)' /\ x.dst # Port(d)'
                        /\ \A q \in Procs : pc'[q] = "fsm" => peer'[q] # Port(d)'
      BY DEF StartSilent
    <2>1. CASE d = ch
      BY <1>2, <1>3, <1>5, <1>7, <1>8, <2>1
    <2>2. CASE d # ch
      <3>1. d \in Procs /\ pc[d] = "start" /\ Port(d)' = Port(d) /\ sock'[d] = sock[d]
        BY <1>3, <1>6, <2>2 DEF Procs
      <3> QED
        BY <1>2, <1>8, <3>1 DEF CopyInv, StartSilent
    <2> QED
      BY <2>1, <2>2
  <1>12. Parties'
    <2>1. \A x \in net' : IsRequest(x.pkt) => x.src[1] \in Clients /\ x.dst = WellKnown
      BY <1>2 DEF CopyInv, Parties
    <2>2. \A x \in net' : (IsData(x.pkt) \/ IsAck(x.pkt)) =>
            \/ x.src[1] \in Children /\ x.dst[1] \in Clients /\ x.dst = peer'[x.src[1]]
            \/ x.src[1] \in Clients /\ x.dst[1] \in Children
      BY <1>2, <1>3, <1>5 DEF CopyInv, Parties, Procs
    <2>3. \A c \in Clients : pc'[c] = "fsm" =>
            IF op_sent'[c] \in {OP_RRQ, OP_WRQ}
            THEN peer'[c] = WellKnown
            ELSE peer'[c][1] \in Children /\ ~recv_first'[c]
      BY <1>1, <1>8, <1>9 DEF CopyInv, Parties
    <2>4. \A d \in Children : pc'[d] = "fsm" =>
            peer'[d][1] \in Clients /\ op_sent'[d] \in {OP_DATA, OP_ACK}
      BY <1>1, <1>8 DEF CopyInv, Parties, Procs
    <2>5. \A d \in Children : (pc'[d] = "start" /\ IsRequest(recvbuff'[d])) =>
            peer'[d][1] \in Clients
      BY <1>3 DEF CopyInv, Parties, Procs
    <2>6. /\ \A d \in Children : ~recv_first'[d]
          /\ \A c \in Clients : pc'[c] # "start"
      BY <1>1, <1>3, <1>9 DEF CopyInv, Parties
    <2> QED
      BY <2>1, <2>2, <2>3, <2>4, <2>5, <2>6 DEF Parties
  <1>13. \A q \in Procs : /\ ActiveSender(q)' => ActiveSender(q) /\ q # ch
                          /\ ActiveReceiver(q)' => ActiveReceiver(q) /\ q # ch
    BY <1>1, <1>8 DEF ActiveSender, ActiveReceiver, Receiving
  <1>14. SameFile'
    <2>1. \A x \in net', c \in Clients :
             (IsRequest(x.pkt) /\ pc'[c] = "fsm" /\ x.src = Port(c)')
               => x.pkt.file = localfp'[c]
      BY <1>1, <1>2, <1>8, <1>9 DEF CopyInv, SameFile
    <2>2. \A d \in Children, c \in Clients :
             (pc'[d] = "start" /\ IsRequest(recvbuff'[d]) /\ pc'[c] = "fsm"
              /\ peer'[d] = Port(c)') => recvbuff'[d].file = localfp'[c]
      <3> SUFFICES ASSUME NEW d \in Children, NEW c \in Clients, pc'[d] = "start",
                          IsRequest(recvbuff'[d]), pc'[c] = "fsm", peer'[d] = Port(c)'
                   PROVE  recvbuff'[d].file = localfp[c]
        BY <1>1
      <3>1. pc[c] = "fsm" /\ Port(c)' = Port(c)
        BY <1>8, <1>9
      <3>2. CASE d = ch
        BY <1>3, <3>1, <3>2 DEF CopyInv, SameFile
      <3>3. CASE d # ch
        BY <1>3, <3>1, <3>3 DEF CopyInv, SameFile, Procs
      <3> QED
        BY <3>2, <3>3
    <2>3. \A d \in Children, c \in Clients :
             (pc'[d] = "fsm" /\ pc'[c] = "fsm" /\ peer'[d] = Port(c)')
               => localfp'[d] = localfp'[c]
      BY <1>1, <1>8, <1>9 DEF CopyInv, SameFile, Procs
    <2>4. \A s, r \in Procs :
             (ActiveSender(s)' /\ ActiveReceiver(r)' /\ peer'[s] = Port(r)')
               => localfp'[s] = localfp'[r]
      BY <1>1, <1>3, <1>6, <1>13 DEF CopyInv, SameFile
    <2> QED
      BY <2>1, <2>2, <2>3, <2>4 DEF SameFile
  <1>15. LastSent' /\ SenderPosition'
    BY <1>1, <1>8 DEF CopyInv, LastSent, SenderPosition, Sending, BlockOf
  <1>16. NotAhead'
    BY <1>1, <1>3, <1>6, <1>13 DEF CopyInv, NotAhead
  <1>17. AcksBehind' /\ DataBehind'
    BY <1>1, <1>2, <1>6, <1>13 DEF CopyInv, AcksBehind, DataBehind, BlockOf
  <1>18. CopyPrefix'
    BY <1>1, <1>8 DEF CopyInv, CopyPrefix, Receiving
  <1>19. GotOutside' /\ ReceiverComplete'
    BY <1>0, <1>1, <1>3 DEF CopyInv, GotOutside, ReceiverComplete
  <1> QED
    BY <1>10, <1>11, <1>12, <1>14, <1>15, <1>16, <1>17, <1>18, <1>19 DEF CopyInv

\* What a child knows when it starts on a request for f.
Asked(ch, f) ==
  /\ ch \in Procs /\ ch \notin Clients /\ f \in Files
  /\ pc[ch] = "start" /\ sock[ch] = 1 /\ outcome[ch] # "got" /\ ~recv_first[ch]
  /\ Bound(Port(ch)) /\ Bound(peer[ch]) /\ peer[ch][1] \in Clients
  /\ \A d \in Children : peer[ch] # Port(d)
  /\ \A x \in net : x.src # Port(ch) /\ x.dst # Port(ch)
  /\ \A q \in Procs : pc[q] = "fsm" => peer[q] # Port(ch)
  /\ \A c \in Clients : (pc[c] = "fsm" /\ peer[ch] = Port(c)) => f = localfp[c]

\* A child that takes an RRQ or a WRQ.
LEMMA AskedFacts ==
  ASSUME TypeInv, CopyInv, NEW ch \in Children, NEW h \in {"recv_RRQ", "recv_WRQ"},
         FirstPass(ch, h)
  PROVE  Asked(ch, recvbuff[ch].file)
  <1>1. ch \in Procs /\ ch \notin Clients /\ pc[ch] = "start"
    BY ConstAssumption DEF Procs, FirstPass
  <1>2. recvbuff[ch] \in Packets /\ recvbuff[ch].op \in {OP_RRQ, OP_WRQ}
    BY <1>1, TableFacts DEF FirstPass, TypeInv, TypeOK
  <1>3. recvbuff[ch].file \in Files /\ IsRequest(recvbuff[ch])
    BY <1>2, PacketFields DEF Requests, IsRequest
  <1>4. sock[ch] = 1 /\ Bound(Port(ch)) /\ Bound(peer[ch])
    BY <1>1 DEF CopyInv, StartSilent, PortsBound, Bound, Port
  <1>5. peer[ch][1] \in Clients /\ ~recv_first[ch]
    BY <1>1, <1>3 DEF CopyInv, Parties
  <1>6. \A d \in Children : peer[ch] # Port(d)
    BY <1>5, ConstAssumption DEF Port
  <1>7. /\ \A x \in net : x.src # Port(ch) /\ x.dst # Port(ch)
        /\ \A q \in Procs : pc[q] = "fsm" => peer[q] # Port(ch)
        /\ outcome[ch] # "got"
    BY <1>1 DEF CopyInv, StartSilent, GotOutside
  <1>8. \A c \in Clients : (pc[c] = "fsm" /\ peer[ch] = Port(c)) =>
          recvbuff[ch].file = localfp[c]
    BY <1>1, <1>3 DEF CopyInv, SameFile
  <1> QED
    BY <1>1, <1>3, <1>4, <1>5, <1>6, <1>7, <1>8 DEF Asked

\* The child of a read request sends the first block.
LEMMA CopyRRQ ==
  ASSUME TypeInv, TypeInv', CopyInv, NEW ch \in Children, recv_RRQ(ch)
  PROVE  CopyInv'
  <1> DEFINE f == recvbuff[ch].file
  <1>1. Asked(ch, f) /\ UNCHANGED <<peer, recv_first, recvbuff, sock>>
    BY AskedFacts DEF recv_RRQ, FirstPass
  <1>2. 0 + 1 = 1
    OBVIOUS
  <1>3. /\ lastsend' = [lastsend EXCEPT ![ch] = ChunkLen(f, 0 + 1)]
        /\ nextblknum' = [nextblknum EXCEPT ![ch] = 1]
        /\ fpos' = [fpos EXCEPT ![ch] = IF ChunkLen(f, 0 + 1) > 0 THEN 0 + 1 ELSE 0]
        /\ sendbuff' = [sendbuff EXCEPT ![ch] = NextData(f, 0, 1)]
        /\ op_sent' = [op_sent EXCEPT ![ch] = OP_DATA]
        /\ localfp' = [localfp EXCEPT ![ch] = f]
        /\ pc' = [pc EXCEPT ![ch] = "fsm"]
        /\ net' = net \cup {Msg(Port(ch), peer[ch], NextData(f, 0, 1))}
        /\ UNCHANGED <<outcome, written>>
    BY DEF recv_RRQ, send_DATA, EnterLoop
  <1>4. ch \in Procs /\ outcome[ch] # "got"
    BY <1>1 DEF Asked
  <1> HIDE DEF f
  <1>5. /\ DOMAIN op_sent = Procs /\ DOMAIN nextblknum = Procs /\ DOMAIN fpos = Procs
        /\ DOMAIN sendbuff = Procs /\ DOMAIN localfp = Procs /\ DOMAIN lastsend = Procs
        /\ DOMAIN pc = Procs \cup {Server}
    BY DEF TypeInv, TypeOK
  <1>6. \A q \in Procs : q # ch => Same(q)
    BY <1>1, <1>3, <1>5 DEF Same
  <1>7. Sends(ch, f, 0)
    BY <1>1, <1>2, <1>3, <1>4, <1>5, <1>6 DEF Sends
  <1>8. \A r \in Procs : (ActiveReceiver(r) /\ peer[ch] = Port(r)) =>
          localfp[r] = f /\ 0 + 1 <= nextblknum[r]
    <2> SUFFICES ASSUME NEW r \in Procs, ActiveReceiver(r), peer[ch] = Port(r)
                 PROVE  localfp[r] = f /\ 0 + 1 <= nextblknum[r]
      OBVIOUS
    <2>1. r \in Clients /\ pc[r] = "fsm"
      BY <1>1 DEF Asked, Port, ActiveReceiver
    <2>2. written[r] \in Seq(Chunks) /\ nextblknum[r] \in Nat
      BY DEF TypeInv, TypeOK
    <2>3. Len(written[r]) = nextblknum[r] - 1
      BY <2>1 DEF CopyInv, CopyPrefix, ActiveReceiver
    <2> QED
      BY <1>1, <2>1, <2>2, <2>3 DEF Asked
  <1>9. Addressee(ch, f, 0)
    BY <1>1, <1>8 DEF Asked, Addressee
  <1> QED
    BY <1>1, <1>4, <1>7, <1>9, SendsInv DEF Asked

\* The child of a write request has written nothing and acknowledges block 0.
LEMMA CopyWRQ ==
  ASSUME TypeInv, TypeInv', CopyInv, NEW ch \in Children, recv_WRQ(ch)
  PROVE  CopyInv'
  <1> DEFINE f == recvbuff[ch].file
             a == Msg(Port(ch), peer[ch], ACK(0))
  <1>1. Asked(ch, f) /\ UNCHANGED <<peer, recv_first, recvbuff, sock>>
    BY AskedFacts DEF recv_WRQ, FirstPass
  <1>2. ch \in Procs /\ ch \notin Clients /\ f \in Files /\ pc[ch] = "start"
    BY <1>1 DEF Asked
  <1>3. /\ nextblknum' = [nextblknum EXCEPT ![ch] = 1]
        /\ sendbuff' = [sendbuff EXCEPT ![ch] = ACK(0)]
        /\ op_sent' = [op_sent EXCEPT ![ch] = OP_ACK]
        /\ localfp' = [localfp EXCEPT ![ch] = f]
        /\ written' = [written EXCEPT ![ch] = <<>>]
        /\ pc' = [pc EXCEPT ![ch] = "fsm"]
        /\ net' = net \cup {a}
        /\ UNCHANGED <<outcome, lastsend, fpos>>
    BY DEF recv_WRQ, EnterLoop
  <1>4. /\ a.src = Port(ch) /\ a.dst = peer[ch] /\ a.pkt = ACK(0) /\ a.src[1] = ch
    BY DEF Msg, Port
  <1>5. ACK(0).op = OP_ACK /\ ACK(0).blk = 0
    <2>1. Wire(0) = 0
      BY WireFacts, ConstAssumption
    <2> QED
      BY <2>1 DEF ACK
  <1>6. OP_ACK \notin {OP_RRQ, OP_WRQ, OP_DATA}
    BY DEF OP_RRQ, OP_WRQ, OP_DATA, OP_ACK
  <1> HIDE DEF f, a
  <1>7. /\ DOMAIN op_sent = Procs /\ DOMAIN nextblknum = Procs /\ DOMAIN written = Procs
        /\ DOMAIN sendbuff = Procs /\ DOMAIN localfp = Procs
        /\ DOMAIN pc = Procs \cup {Server}
    BY DEF TypeInv, TypeOK
  <1>8. \A q \in Procs : q # ch => Same(q)
    BY <1>1, <1>3, <1>7 DEF Same
  <1>9. /\ nextblknum'[ch] = 1 /\ sendbuff'[ch] = ACK(0) /\ op_sent'[ch] = OP_ACK
        /\ localfp'[ch] = f /\ written'[ch] = <<>> /\ pc'[ch] = "fsm"
        /\ peer'[ch] = peer[ch] /\ outcome'[ch] = outcome[ch]
    BY <1>1, <1>2, <1>3, <1>7
  <1>10. \A x \in net' : x \in net \/ x = a
    BY <1>3
  <1>11. \A q : Port(q)' = Port(q)
    BY <1>1 DEF Port
  <1>12. PortsBound'
    <2>1. \A pt : Bound(pt)' <=> Bound(pt)
      BY <1>1 DEF Bound
    <2>2. \A x \in net' : Bound(x.src) /\ Bound(x.dst)
      BY <1>1, <1>4, <1>10 DEF Asked, CopyInv, PortsBound
    <2>3. \A q \in Procs : Bound(peer[q]) /\ (pc'[q] = "fsm" => sock[q] > 0)
      BY <1>1, <1>8 DEF Asked, CopyInv, PortsBound, Same
    <2>4. \A d \in Children : (pc'[d] = "idle" => sock[d] = 0) /\ sock[d] <= 1
      BY <1>8, <1>9 DEF CopyInv, PortsBound, Same, Procs
    <2> QED
      BY <1>1, <2>1, <2>2, <2>3, <2>4 DEF PortsBound
  <1>13. StartSilent'
    <2>1. \A d \in Children : pc'[d] = "start" => d # ch /\ pc[d] = "start"
      BY <1>8, <1>9 DEF Same, Procs
    <2>2. \A d \in Children : pc'[d] = "start" =>
            /\ sock[d] = 1
            /\ \A x \in net' : x.src # Port(d) /\ x.dst # Port(d)
      BY <1>1, <1>4, <1>10, <2>1, PortsDiffer DEF Asked, CopyInv, StartSilent
    <2>3. \A d \in Children : pc'[d] = "start" =>
            \A q \in Procs : pc'[q] = "fsm" => peer[q] # Port(d)
      BY <1>1, <1>8, <2>1 DEF Asked, CopyInv, StartSilent, Same
    <2> QED
      BY <1>1, <1>11, <2>2, <2>3 DEF StartSilent
  <1>14. Parties'
    <2>1. \A x \in net' : IsRequest(x.pkt) => x \in net
      BY <1>4, <1>5, <1>6, <1>10 DEF IsRequest
    <2>2. \A x \in net' : (IsData(x.pkt) \/ IsAck(x.pkt)) =>
            \/ x.src[1] \in Children /\ x.dst[1] \in Clients /\ x.dst = peer[x.src[1]]
            \/ x.src[1] \in Clients /\ x.dst[1] \in Children
      BY <1>1, <1>4, <1>10 DEF Asked, CopyInv, Parties
    <2>3. \A c \in Clients : c \in Procs /\ c # ch
      BY <1>2 DEF Procs
    <2>4. \A d \in Children : pc'[d] = "fsm" =>
            peer[d][1] \in Clients /\ op_sent'[d] \in {OP_DATA, OP_ACK}
      BY <1>1, <1>8, <1>9 DEF Asked, CopyInv, Parties, Same, Procs
    <2>5. \A d \in Children : (pc'[d] = "start" /\ IsRequest(recvbuff[d])) =>
            peer[d][1] \in Clients
      BY <1>8, <1>9 DEF CopyInv, Parties, Same, Procs
    <2>6. /\ \A c \in Clients : pc'[c] = "fsm" =>
               IF op_sent'[c] \in {OP_RRQ, OP_WRQ}
               THEN peer[c] = WellKnown
               ELSE peer[c][1] \in Children /\ ~recv_first[c]
          /\ \A c \in Clients : pc'[c] # "start"
          /\ \A d \in Children : ~recv_first[d]
      BY <1>8, <2>3 DEF CopyInv, Parties, Same
    <2>7. \A x \in net' : IsRequest(x.pkt) => x.src[1] \in Clients /\ x.dst = WellKnown
      BY <2>1 DEF CopyInv, Parties
    <2> QED
      BY <1>1, <2>2, <2>4, <2>5, <2>6, <2>7 DEF Parties
  <1>15. \A s \in Procs : ActiveSender(s)' =>
           s # ch /\ ActiveSender(s) /\ Same(s) /\ peer[s] # Port(ch)
    BY <1>1, <1>6, <1>8, <1>9 DEF ActiveSender, Same, Asked
  <1>16. \A r \in Procs : (ActiveReceiver(r)' /\ r # ch) => ActiveReceiver(r) /\ Same(r)
    BY <1>8 DEF ActiveReceiver, Receiving, Same
  <1>17. SameFile'
    <2>0. \A c \in Clients : c \in Procs /\ c # ch /\ Same(c)
      BY <1>2, <1>8 DEF Procs
    <2>1. \A x \in net' : IsRequest(x.pkt) => x \in net
      BY <1>4, <1>5, <1>6, <1>10 DEF IsRequest
    <2>2. \A x \in net', c \in Clients :
             (IsRequest(x.pkt) /\ pc'[c] = "fsm" /\ x.src = Port(c))
               => x.pkt.file = localfp'[c]
      BY <2>0, <2>1 DEF CopyInv, SameFile, Same
    <2>3. \A d \in Children, c \in Clients :
             (pc'[d] = "start" /\ IsRequest(recvbuff[d]) /\ pc'[c] = "fsm"
              /\ peer[d] = Port(c)) => recvbuff[d].file = localfp'[c]
      BY <1>8, <1>9, <2>0 DEF CopyInv, SameFile, Same, Procs
    <2>4. \A d \in Children, c \in Clients :
             (pc'[d] = "fsm" /\ pc'[c] = "fsm" /\ peer[d] = Port(c))
               => localfp'[d] = localfp'[c]
      <3> SUFFICES ASSUME NEW d \in Children, NEW c \in Clients, pc'[d] = "fsm",
                          pc'[c] = "fsm", peer[d] = Port(c)
                   PROVE  localfp'[d] = localfp'[c]
        OBVIOUS
      <3>1. CASE d = ch
        BY <1>1, <1>9, <2>0, <3>1 DEF Asked, Same
      <3>2. CASE d # ch
        BY <1>8, <2>0, <3>2 DEF CopyInv, SameFile, Same, Procs
      <3> QED
        BY <3>1, <3>2
    <2>5. \A s, r \in Procs :
             (ActiveSender(s)' /\ ActiveReceiver(r)' /\ peer[s] = Port(r))
               => localfp'[s] = localfp'[r]
      BY <1>15, <1>16 DEF CopyInv, SameFile, Same
    <2> QED
      BY <1>1, <1>11, <2>2, <2>3, <2>4, <2>5 DEF SameFile
  <1>18. LastSent'
    <2>1. /\ sendbuff'[ch].op = op_sent'[ch] /\ sendbuff'[ch].blk < nextblknum'[ch]
          /\ ~IsRequest(sendbuff'[ch]) /\ ~IsData(sendbuff'[ch])
      BY <1>5, <1>6, <1>9 DEF IsRequest, IsData
    <2> QED
      BY <1>8, <2>1 DEF CopyInv, LastSent, Same, BlockOf
  <1>19. SenderPosition'
    <2>1. \A q \in Procs : Sending(q)' => q # ch
      BY <1>6, <1>9 DEF Sending
    <2> QED
      BY <1>8, <2>1 DEF CopyInv, SenderPosition, Same, Sending
  <1>20. NotAhead'
    BY <1>1, <1>11, <1>15, <1>16 DEF CopyInv, NotAhead, Same
  <1>21. AcksBehind'
    <2> SUFFICES ASSUME NEW x \in net', NEW r \in Procs, IsAck(x.pkt),
                        ActiveReceiver(r)', x.src = Port(r)
                 PROVE  x.pkt.blk < nextblknum'[r]
      BY <1>11 DEF AcksBehind
    <2>1. CASE r = ch
      <3>1. x = a
        BY <1>1, <1>10, <2>1 DEF Asked
      <3> QED
        BY <1>4, <1>5, <1>9, <2>1, <3>1
    <2>2. CASE r # ch
      <3>1. x # a
        BY <1>4, <2>2, PortsDiffer
      <3> QED
        BY <1>10, <1>16, <2>2, <3>1 DEF CopyInv, AcksBehind, Same
    <2> QED
      BY <2>1, <2>2
  <1>22. DataBehind'
    <2>1. \A x \in net' : IsData(x.pkt) => x \in net /\ x.dst # Port(ch)
      BY <1>1, <1>4, <1>5, <1>6, <1>10 DEF IsData, Asked
    <2> QED
      BY <1>11, <1>16, <2>1 DEF CopyInv, DataBehind, Same, BlockOf
  <1>23. CopyPrefix'
    <2> SUFFICES ASSUME NEW q \in Procs, pc'[q] = "fsm", Receiving(q)'
                 PROVE  /\ Len(written'[q]) = nextblknum'[q] - 1
                        /\ Len(written'[q]) <= NFull[localfp'[q]]
                        /\ \A j \in 1..Len(written'[q]) : written'[q][j] = <<localfp'[q], j>>
      BY DEF CopyPrefix
    <2>1. CASE q = ch
      <3>1. NFull[f] \in Nat
        BY <1>2, ConstAssumption
      <3> QED
        BY <1>9, <2>1, <3>1
    <2>2. CASE q # ch
      BY <1>8, <2>2 DEF CopyInv, CopyPrefix, Same, Receiving
    <2> QED
      BY <2>1, <2>2
  <1>24. GotOutside' /\ ReceiverComplete'
    BY <1>1, <1>8, <1>9 DEF Asked, CopyInv, GotOutside, ReceiverComplete, Same
  <1> QED
    BY <1>12, <1>13, <1>14, <1>17, <1>18, <1>19, <1>20, <1>21, <1>22, <1>23, <1>24
       DEF CopyInv

\* A child that refuses its request, or was sent none, stops.
LEMMA CopyRefusal ==
  ASSUME TypeInv, TypeInv', CopyInv, NEW ch \in Children, send_ERROR(ch) \/ not_a_request(ch)
  PROVE  CopyInv'
  <1>1. ch \in Procs
    BY DEF Procs
  <1>2. CASE not_a_request(ch)
    BY <1>1, <1>2, CopyStop DEF not_a_request, FirstPass, Exit, xferVars
  <1>3. CASE send_ERROR(ch)
    <2> DEFINE a == Msg(Port(ch), peer[ch], ERROR)
    <2>1. PICK h \in {"recv_RRQ", "recv_WRQ"} : FirstPass(ch, h)
      BY <1>3 DEF send_ERROR
    <2>2. Asked(ch, recvbuff[ch].file)
      BY <2>1, AskedFacts
    <2>3. /\ sendbuff' = [sendbuff EXCEPT ![ch] = ERROR]
          /\ net' = net \cup {a}
          /\ pc' = [pc EXCEPT ![ch] = "exit"]
          /\ outcome' = [outcome EXCEPT ![ch] = "denied"]
          /\ UNCHANGED <<op_sent, nextblknum, lastsend, fpos, written, localfp, sock,
                         recvbuff, peer, recv_first>>
      BY <1>3, <2>1 DEF send_ERROR, FirstPass, Exit
    <2>4. \A q \in Procs : q # ch => sendbuff'[q] = sendbuff[q]
      BY <2>3 DEF TypeInv, TypeOK
    <2>5. a.src = Port(ch) /\ a.dst = peer[ch] /\ a.pkt.op = OP_ERROR
      BY DEF Msg, ERROR
    <2>6. \A d \in Children : pc'[d] = "start" => d # ch
      BY <1>1, <2>3 DEF TypeInv, TypeOK
    <2> HIDE DEF a
    <2>7. Harmless(a)
      BY <2>2, <2>5, <2>6, PortsDiffer DEF Asked, Harmless
    <2> QED
      BY <1>1, <2>3, <2>4, <2>7, CopyStop
  <1> QED
    BY <1>2, <1>3

\* Nothing has been sent or written in the initial state.
LEMMA CopyInit == Init => CopyInv
  <1> SUFFICES ASSUME Init PROVE CopyInv
    OBVIOUS
  <1>1. \A p \in Procs : pc[p] = "idle" /\ outcome[p] = "none" /\ peer[p] = WellKnown
                         /\ sock[p] = 0 /\ ~recv_first[p]
    BY ConstAssumption DEF Init
  <1>2. net = {}
    BY DEF Init
  <1>3. Bound(WellKnown)
    BY ConstAssumption DEF Bound, WellKnown
  <1>4. PortsBound /\ StartSilent /\ Parties /\ SameFile
    BY <1>1, <1>2, <1>3 DEF PortsBound, StartSilent, Parties, SameFile, ActiveSender, Procs
  <1>5. LastSent /\ SenderPosition /\ NotAhead /\ AcksBehind /\ DataBehind
    BY <1>1, <1>2 DEF LastSent, SenderPosition, NotAhead, AcksBehind, DataBehind,
                      ActiveSender
  <1>6. CopyPrefix /\ GotOutside /\ ReceiverComplete
    BY <1>1 DEF CopyPrefix, GotOutside, ReceiverComplete
  <1> QED
    BY <1>4, <1>5, <1>6 DEF CopyInv

\* Every step keeps CopyInv.
LEMMA CopyNext ==
  ASSUME TypeInv, TypeInv', FileOpen, CopyInv, [Next]_vars
  PROVE  CopyInv'
  <1>1. ASSUME NEW p \in Procs, Receive(p) PROVE CopyInv'
    BY <1>1, CopyRecvData, CopyRecvAck, CopyOtherPackets DEF Receive
  <1>2. ASSUME NEW c \in Clients, Command(c) PROVE CopyInv'
    <2>1. ASSUME NEW f \in Files, do_get(c, f) \/ do_put(c, f) PROVE CopyInv'
      BY <2>1, CopyCommands
    <2>2. ASSUME NEW f \in Files, NEW blk \in {0, 1}, net_open_fails(c, f, blk) PROVE CopyInv'
      BY <2>2, CopyCommands
    <2> QED
      BY <1>2, <2>1, <2>2, CopyInterruptions DEF Command
  <1>3. ASSUME NEW ch \in Children, Start(ch) PROVE CopyInv'
    BY <1>3, CopyRRQ, CopyWRQ, CopyRefusal DEF Start
  <1>4. ASSUME Fork PROVE CopyInv'
    BY <1>4, CopyFork DEF Fork
  <1>5. ASSUME UNCHANGED vars PROVE CopyInv'
    BY <1>5, CopyStutter DEF vars
  <1>6. ASSUME NEW m \in StrayMsgs, stray(m) PROVE CopyInv'
    BY <1>6, CopyStray
  <1>7. ASSUME NEW p \in Procs, timeout(p) \/ alarm_lost(p) PROVE CopyInv'
    BY <1>7, CopyTimeout, CopyInterruptions
  <1>8. ASSUME NEW p \in Procs \cup {Server}, sys_error(p) PROVE CopyInv'
    BY <1>8, CopyInterruptions
  <1>9. ASSUME NEW c \in Clients, sig_intr(c) PROVE CopyInv'
    BY <1>9, CopyInterruptions
  <1> QED
    BY <1>1, <1>2, <1>3, <1>4, <1>5, <1>6, <1>7, <1>8, <1>9 DEF Next, Done

\* CopyInv is an invariant.
LEMMA CopyInvariant == Spec => [](TypeInv /\ FileOpen /\ CopyInv)
  <1>1. Init => TypeInv /\ FileOpen /\ CopyInv
    BY TypeInit, CopyInit
  <1>2. TypeInv /\ FileOpen /\ CopyInv /\ [Next]_vars => (TypeInv /\ FileOpen /\ CopyInv)'
    BY TypeNext, CopyNext
  <1> QED
    BY <1>1, <1>2, PTL DEF Spec

\* Every DATA packet on its way to a receiver is for the block it waits for or an
\* earlier one, of the file it receives: the reason why 16 bits are enough.
THEOREM CopyInvCorrect == Spec => []CopyInv
  BY CopyInvariant, PTL

\* What recv_DATA() has written is always an initial part of the requested file,
\* in order and without gaps, for files of any length and any loss, duplication
\* and reordering of datagrams.
THEOREM CopyPrefixCorrect == Spec => []CopyPrefix
  <1>1. CopyInv => CopyPrefix
    BY DEF CopyInv
  <1> QED
    BY <1>1, CopyInvariant, PTL

\* A receiver that ends its transfer normally has written the whole file.
THEOREM ReceiverCorrect == Spec => []ReceiverComplete
  <1>1. CopyInv => ReceiverComplete
    BY DEF CopyInv
  <1> QED
    BY <1>1, CopyInvariant, PTL
=============================================================================
