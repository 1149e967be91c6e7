------------------------------ MODULE TftpSystem ------------------------------
(***************************************************************************)
(* The tftp client and the concurrent tftp server of src/tftp-exercises,   *)
(* exchanging datagrams over an unreliable network.                        *)
(*                                                                         *)
(* Every process (a client, or a child the server forked) runs the same    *)
(* finite state machine, fsm_loop().  The C globals of a process are the   *)
(* functions below, indexed by the process; each action is one whole pass  *)
(* through the loop: a datagram received and handled, or a timeout.        *)
(*                                                                         *)
(* Data abstraction: a file f is NFull[f] blocks of MAXDATA bytes followed *)
(* by a last block of TailLen[f] < MAXDATA bytes (perhaps 0); the i-th     *)
(* block of f is the chunk <<f, i>>.  Transfers are in octet mode (module  *)
(* Netascii models the other mode).                                        *)
(***************************************************************************)
EXTENDS Integers, Sequences

CONSTANTS
  Clients,        \* the client processes
  Children,       \* the processes the server can fork (bound: their number)
  Server,         \* the parent server process, reading the well-known port
  Files,          \* the file names
  NFull,          \* NFull[f]: number of full blocks of f
  TailLen,        \* TailLen[f]: length of f's last, short block
  MAXDATA,        \* bytes of a full block, 512 in defs.h
  BLKMOD,         \* 2^16: block numbers travel as u_short
  SHORTMOD,       \* 2^16: rtt_currto and rtt_nxtrto are short
  RTT_MAXNREXMT,  \* retransmissions before giving up, 4 in rtt.h
  Rexmts,         \* timeouts the RTT estimators may yield, within 2..120
  MaxTransfers,   \* bound: get and put commands per client
  MaxDups,        \* bound: datagrams the network delivers twice
  MaxStrays,      \* bound: datagrams sent by a foreign implementation
  Env             \* what the environment may do, a subset of EnvKinds

Procs == Clients \cup Children

\* (The network may always lose a datagram: nothing forces its receipt, except
\* the fairness of ReliableSpec.)
EnvKinds == {"intr",       \* the user interrupts a transfer
             "syserr",     \* a system call fails and the process exits
             "deny",       \* the server may not access the requested file
             "nohost",     \* the server's address cannot be found
             "eintr",      \* SIGALRM makes recvfrom() fail with EINTR
             "alarmlost",  \* SIGALRM leaves recvfrom() blocked
             "impatient"}  \* an alarm may go off while an answer is under way

ASSUME ConstAssumption ==
  /\ Clients \cap Children = {} /\ Server \notin Procs
  /\ NFull \in [Files -> Nat]
  /\ MAXDATA \in Nat \ {0}
  /\ TailLen \in [Files -> 0..(MAXDATA - 1)]
  /\ BLKMOD \in Nat \ {0, 1}
  /\ SHORTMOD \in Nat \ {0}
  /\ RTT_MAXNREXMT \in 0..4
  /\ Rexmts \subseteq 2..120 /\ Rexmts # {}
  /\ MaxTransfers \in Nat /\ MaxDups \in Nat /\ MaxStrays \in Nat
  /\ Env \subseteq EnvKinds

-----------------------------------------------------------------------------
(* Packets, ports, files. *)

OP_RRQ   == 1
OP_WRQ   == 2
OP_DATA  == 3
OP_ACK   == 4
OP_ERROR == 5

\* stshort() and ldshort(): a block number is cut to 16 bits on the wire.
Wire(n) == n % BLKMOD

RQ(op, f)       == [op |-> op, file |-> f]
DATA(n, f, i, l) == [op |-> OP_DATA, blk |-> Wire(n), data |-> <<f, i>>, len |-> l]
ACK(n)          == [op |-> OP_ACK, blk |-> Wire(n)]
ERROR           == [op |-> OP_ERROR]
NoPacket        == [op |-> 0]     \* an empty buffer; also an unknown opcode

Msg(s, d, k) == [src |-> s, dst |-> d, pkt |-> k]

WellKnown == <<Server, 0>>

\* Mutant: file_read() fills the whole buffer behind the header.
ChunkLen_overfull(f, i) ==
  IF i <= NFull[f] THEN MAXDATA + 1 ELSE IF i = NFull[f] + 1 THEN TailLen[f] ELSE 0

\* file_read() in octet mode: the length of the i-th read of file f.
ChunkLen(f, i) == IF i <= NFull[f] THEN MAXDATA
                  ELSE IF i = NFull[f] + 1 THEN TailLen[f] ELSE 0

\* The number of chunks that hold at least one byte.
NChunks(f) == IF TailLen[f] > 0 THEN NFull[f] + 1 ELSE NFull[f]

NoFile == "none"
Chunks == Files \X (Nat \ {0})
Copy(f) == [i \in 1..NChunks(f) |-> <<f, i>>]

\* A block of the file that no write() has reached.
Hole == <<>>

\* Mutant: every write() is made at the start of the file.
WriteAt_rewinds(s, k, ch) ==
  [i \in 1..(IF Len(s) = 0 THEN 1 ELSE Len(s)) |-> IF i = 1 THEN ch ELSE s[i]]

\* write() at block offset k, by a process that has its own offset into s.
WriteAt(s, k, ch) ==
  [i \in 1..(IF k > Len(s) THEN k ELSE Len(s)) |->
     IF i = k THEN ch ELSE IF i <= Len(s) THEN s[i] ELSE Hole]

-----------------------------------------------------------------------------
VARIABLES
  pc,          \* idle (prompt, or not forked), start (forked), fsm, exit;
               \* listen for the parent server
  op_sent,     \* last opcode sent
  nextblknum,  \* next block number to receive, or last one sent
  lastsend,    \* number of bytes of data in the last data packet
  sendbuff,    \* the last packet sent, kept for retransmission
  recvbuff,    \* a child's request, read by its parent before the fork
  peer,        \* udp_srv_addr.sin_port, or udp_cli_addr.sin_port
  recv_first,  \* the server's new port is not known yet
  localfp,     \* the file being transferred
  fpos,        \* number of chunks read through localfp
  written,     \* the chunks written through localfp
  rtt,         \* rttinfo
  armed,       \* an alarm() is pending
  sock,        \* number of sockets the process has bound, its current port
  outcome,     \* how the last fsm_loop() or the process ended
  net,         \* the datagrams in flight
  upload,      \* the files clients put on the server
  finished,    \* gets that received a whole file: the client's port, the file
  dups, strays

\* What fsm_loop() and its handlers may change beside pc, outcome, rtt, armed.
xferVars == <<op_sent, nextblknum, lastsend, sendbuff, fpos, written, upload,
              finished>>
vars == <<pc, op_sent, nextblknum, lastsend, sendbuff, recvbuff, peer,
          recv_first, localfp, fpos, written, rtt, armed, sock, outcome,
          net, upload, finished, dups, strays>>

Port(p) == <<p, sock[p]>>
Foreign == <<Server, 1>>     \* a port of another TFTP implementation

-----------------------------------------------------------------------------
(* rtt.c *)

\* Conversion to a signed short.
Short(n) == LET m == n % SHORTMOD
            IN  IF 2 * m < SHORTMOD THEN m ELSE m - SHORTMOD

\* Indexed from 0 to RTT_MAXNREXMT in the code.
exp_backoff == <<1, 2, 4, 8, 16>>

rtt_newpack(r) == [r EXCEPT !.nrexmt = 0]

\* x is what the estimators srtt + 2 * rttdev yield, clamped.
rtt_start(r, x) ==
  IF r.nrexmt > 0
  THEN [r EXCEPT !.currto = Short(r.currto * exp_backoff[r.nrexmt + 1])]
  ELSE IF r.nxtrto > 0
       THEN [r EXCEPT !.currto = r.nxtrto, !.nxtrto = 0]
       ELSE [r EXCEPT !.currto = x]

rtt_stop(r) == [r EXCEPT !.nxtrto = IF r.nrexmt > 0 THEN r.currto ELSE 0]

\* Mutant: the retransmissions are not counted.
rtt_timeout_uncounted(r) == rtt_stop(r)

rtt_timeout(r) == [rtt_stop(r) EXCEPT !.nrexmt = r.nrexmt + 1]

\* Mutant: one retransmission too many.
GiveUp_late(r) == r.nrexmt > RTT_MAXNREXMT + 1

GiveUp(r) == r.nrexmt > RTT_MAXNREXMT

-----------------------------------------------------------------------------
(* What the actions are made of. *)

\* The next pass of fsm_loop(): compute the timeout and set the alarm, which
\* alarm(0) does not.
LoopAgain(p, r) ==
  \E x \in Rexmts :
    /\ rtt' = [rtt EXCEPT ![p] = rtt_start(r, x)]
    /\ armed' = [armed EXCEPT ![p] = (rtt_start(r, x).currto # 0)]

\* fsm_loop() returns: a client is back at its prompt with the socket and the
\* file closed, a child exits.
Return(p, r, why) ==
  /\ rtt' = [rtt EXCEPT ![p] = r]
  /\ armed' = [armed EXCEPT ![p] = FALSE]
  /\ pc' = [pc EXCEPT ![p] = IF p \in Clients THEN "idle" ELSE "exit"]
  /\ outcome' = [outcome EXCEPT ![p] = why]

\* exit() or err_quit().
Exit(p, why) ==
  /\ armed' = [armed EXCEPT ![p] = FALSE]
  /\ pc' = [pc EXCEPT ![p] = "exit"]
  /\ outcome' = [outcome EXCEPT ![p] = why]

\* Datagram m is taken from the network, which may keep a duplicate of it, and
\* the datagrams of out are sent.
Exchange(m, out) ==
  \/ net' = (net \ {m}) \cup out /\ UNCHANGED dups
  \/ dups < MaxDups /\ net' = net \cup out /\ dups' = dups + 1

\* Mutant: the change of the server's port is not allowed for.
FromExpected_fixed(p, m) == peer[p] = m.src

\* net_recv(): is m from the other end of the transfer?
FromExpected(p, m) ==
  IF recv_first[p] THEN peer[p] # m.src ELSE peer[p] = m.src

\* Mutant: the client has no handler for an error in answer to its request.
fsm_ptr_client_norqerr(s, r) ==
  CASE s \in {OP_RRQ, OP_ACK} /\ r = OP_DATA  -> "recv_DATA"
    [] s \in {OP_WRQ, OP_DATA} /\ r = OP_ACK  -> "recv_ACK"
    [] OTHER                                  -> "fsm_invalid"

\* The table fsm_ptr[op_sent][op_recv] of the client.
fsm_ptr_client(s, r) ==
  CASE s \in {OP_RRQ, OP_ACK} /\ r = OP_DATA             -> "recv_DATA"
    [] s \in {OP_WRQ, OP_DATA} /\ r = OP_ACK             -> "recv_ACK"
    [] s \in {OP_RRQ, OP_WRQ} /\ r = OP_ERROR            -> "recv_RQERR"
    [] s \in {OP_DATA, OP_ACK, OP_ERROR} /\ r = OP_ERROR -> "fsm_error"
    [] OTHER                                             -> "fsm_invalid"

\* The table of the server; a child's first pass has op_sent = 0.
fsm_ptr_server(s, r) ==
  CASE s = 0 /\ r = OP_RRQ                               -> "recv_RRQ"
    [] s = 0 /\ r = OP_WRQ                               -> "recv_WRQ"
    [] s = OP_ACK /\ r = OP_DATA                         -> "recv_DATA"
    [] s = OP_DATA /\ r = OP_ACK                         -> "recv_ACK"
    [] s \in {OP_DATA, OP_ACK, OP_ERROR} /\ r = OP_ERROR -> "fsm_error"
    [] OTHER                                             -> "fsm_invalid"

fsm_ptr(p, s, r) ==
  IF p \in Clients THEN fsm_ptr_client(s, r) ELSE fsm_ptr_server(s, r)

\* A pass of fsm_loop() that receives m and calls the given handler.
Handles(p, m, handler) ==
  /\ pc[p] = "fsm" /\ m.dst = Port(p)
  /\ FromExpected(p, m)
  /\ fsm_ptr(p, op_sent[p], m.pkt.op) = handler
  /\ peer' = [peer EXCEPT ![p] = m.src]
  /\ recv_first' = [recv_first EXCEPT ![p] = FALSE]
  /\ UNCHANGED <<recvbuff, localfp, sock, strays>>

-----------------------------------------------------------------------------
(* The handlers. *)

\* send_ACK() of block b, then the end of recv_DATA().
send_ACK(p, m, b, len) ==
  /\ sendbuff' = [sendbuff EXCEPT ![p] = ACK(b)]
  /\ op_sent' = [op_sent EXCEPT ![p] = OP_ACK]
  /\ Exchange(m, {Msg(Port(p), m.src, ACK(b))})
  /\ \/ /\ len = MAXDATA
        /\ LoopAgain(p, rtt_stop(rtt[p]))
        /\ UNCHANGED <<pc, outcome, finished>>
     \/ /\ len # MAXDATA
        /\ Return(p, rtt_stop(rtt[p]), "got")
        /\ finished' = IF p \in Clients THEN finished \cup {<<Port(p), localfp[p]>>}
                        ELSE finished

\* Mutant: the last, short block is not written.
file_write_full(p, pkt) ==
  IF pkt.len = MAXDATA
  THEN /\ written' = [written EXCEPT ![p] = Append(@, pkt.data)]
       /\ upload' = IF p \in Clients THEN upload
                    ELSE [upload EXCEPT ![localfp[p]] =
                            WriteAt(@, Len(written[p]) + 1, pkt.data)]
  ELSE UNCHANGED <<written, upload>>

\* file_write(): a child writes the uploaded file at its own offset.
file_write(p, pkt) ==
  IF pkt.len > 0
  THEN /\ written' = [written EXCEPT ![p] = Append(@, pkt.data)]
       /\ upload' = IF p \in Clients THEN upload
                    ELSE [upload EXCEPT ![localfp[p]] =
                            WriteAt(@, Len(written[p]) + 1, pkt.data)]
  ELSE UNCHANGED <<written, upload>>

\* A block number from the past or from the future: "Something is wrong."
OutOfWindow(p, m) ==
  /\ m.pkt.blk < nextblknum[p] - 1 \/ m.pkt.blk > nextblknum[p]
  /\ Exit(p, IF m.pkt.blk > nextblknum[p] THEN "ahead" ELSE "behind")
  /\ rtt' = [rtt EXCEPT ![p] = rtt_stop(@)]
  /\ Exchange(m, {})
  /\ UNCHANGED xferVars

\* Mutants: a retransmitted block counts as a new one; block numbers are
\* compared modulo BLKMOD.
DataExpected_again(p, m) == m.pkt.blk \in {nextblknum[p] - 1, nextblknum[p]}
DataExpected_mod(p, m) == m.pkt.blk = Wire(nextblknum[p])

DataExpected(p, m) == m.pkt.blk = nextblknum[p]

recv_DATA(p, m) ==
  /\ Handles(p, m, "recv_DATA")
  /\ \/ /\ DataExpected(p, m)
        /\ nextblknum' = [nextblknum EXCEPT ![p] = @ + 1]
        /\ file_write(p, m.pkt)
        /\ send_ACK(p, m, m.pkt.blk, m.pkt.len)
        /\ UNCHANGED <<lastsend, fpos>>
     \/ /\ m.pkt.blk = nextblknum[p] - 1
        /\ send_ACK(p, m, m.pkt.blk, m.pkt.len)
        /\ UNCHANGED <<nextblknum, written, upload, lastsend, fpos>>
     \/ OutOfWindow(p, m)

\* The packet send_DATA() builds for block n after k chunks of f were read.
NextData(f, k, n) == DATA(n, f, k + 1, ChunkLen(f, k + 1))

\* recv_ACK() of the expected block, up to the end of send_DATA(): read the
\* next chunk of f and put it in sendbuff as block n.
send_DATA(p, f, k, n) ==
  /\ lastsend' = [lastsend EXCEPT ![p] = ChunkLen(f, k + 1)]
  /\ nextblknum' = [nextblknum EXCEPT ![p] = n]
  /\ fpos' = [fpos EXCEPT ![p] = IF ChunkLen(f, k + 1) > 0 THEN k + 1 ELSE k]
  /\ sendbuff' = [sendbuff EXCEPT ![p] = NextData(f, k, n)]
  /\ op_sent' = [op_sent EXCEPT ![p] = OP_DATA]

\* file_read() finds the end of the file, and the last packet was a short one.
LastAcked(p) == ChunkLen(localfp[p], fpos[p] + 1) = 0 /\ lastsend[p] < MAXDATA

\* Mutant: a duplicate ACK sends the next block.
AckExpected_again(p, m) == m.pkt.blk \in {nextblknum[p] - 1, nextblknum[p]}

AckExpected(p, m) == m.pkt.blk = nextblknum[p]

recv_ACK(p, m) ==
  /\ Handles(p, m, "recv_ACK")
  /\ \/ /\ AckExpected(p, m)
        /\ ~LastAcked(p)
        /\ send_DATA(p, localfp[p], fpos[p], nextblknum[p] + 1)
        /\ Exchange(m, {Msg(Port(p), m.src,
                            NextData(localfp[p], fpos[p], nextblknum[p] + 1))})
        /\ LoopAgain(p, rtt_stop(rtt[p]))
        /\ UNCHANGED <<pc, outcome, written, upload, finished>>
     \/ /\ AckExpected(p, m)
        /\ LastAcked(p)
        /\ Return(p, rtt_stop(rtt[p]), "sent")
        /\ Exchange(m, {})
        /\ UNCHANGED xferVars
     \/ /\ m.pkt.blk = nextblknum[p] - 1
        /\ LoopAgain(p, rtt_stop(rtt[p]))
        /\ Exchange(m, {})
        /\ UNCHANGED <<pc, outcome>> /\ UNCHANGED xferVars
     \/ OutOfWindow(p, m)

\* The server refused the request: back to the prompt.
recv_RQERR(p, m) ==
  /\ Handles(p, m, "recv_RQERR")
  /\ Return(p, rtt_stop(rtt[p]), "rqerr")
  /\ Exchange(m, {})
  /\ UNCHANGED xferVars

\* fsm_error(), fsm_invalid(), and the checks of fsm_loop() on the length and
\* the opcode of the datagram (a packet with opcode 0 fails them).
fsm_invalid(p, m) ==
  /\ \/ Handles(p, m, "fsm_error")
     \/ Handles(p, m, "fsm_invalid")
  /\ Exit(p, "botch")
  /\ rtt' = [rtt EXCEPT ![p] = rtt_stop(@)]
  /\ Exchange(m, {})
  /\ UNCHANGED xferVars

\* net_recv() exits on a datagram from an unexpected port.
net_recv_other(p, m) ==
  /\ pc[p] = "fsm" /\ m.dst = Port(p)
  /\ ~FromExpected(p, m)
  /\ Exit(p, "port")
  /\ Exchange(m, {})
  /\ UNCHANGED <<rtt, peer, recv_first, recvbuff, localfp, sock, strays>>
  /\ UNCHANGED xferVars

-----------------------------------------------------------------------------
(* Timeouts. *)

\* A process reads from this port; what is sent elsewhere is discarded.
Read(port) ==
  \/ port = WellKnown /\ pc[Server] = "listen"
  \/ \E q \in Procs : port = Port(q) /\ pc[q] \in {"start", "fsm"}

\* No datagram to or from p is under way and no child is about to answer p.
Quiet(p) ==
  /\ \A m \in net : m.dst # Port(p) /\ (m.src = Port(p) => ~Read(m.dst))
  /\ \A q \in Children : pc[q] = "start" => peer[q] # Port(p)

\* recvfrom() returns EINTR with tout_flag set: give up, or send the last
\* packet again.
timeout(p) ==
  /\ pc[p] = "fsm" /\ armed[p] /\ "eintr" \in Env
  /\ "impatient" \in Env \/ Quiet(p)
  /\ \/ /\ GiveUp(rtt_timeout(rtt[p]))
        /\ Return(p, rtt_timeout(rtt[p]), "timeout")
        /\ UNCHANGED net
     \/ /\ ~GiveUp(rtt_timeout(rtt[p]))
        /\ LoopAgain(p, rtt_timeout(rtt[p]))
        /\ net' = net \cup {Msg(Port(p), peer[p], sendbuff[p])}
        /\ UNCHANGED <<pc, outcome>>
  /\ UNCHANGED <<peer, recv_first, recvbuff, localfp, sock, dups, strays>>
  /\ UNCHANGED xferVars

\* SIGALRM arrives but recvfrom() goes on waiting: the signal came before the
\* call, or signal() installed the handler with SA_RESTART.
alarm_lost(p) ==
  /\ pc[p] = "fsm" /\ armed[p] /\ "alarmlost" \in Env
  /\ "impatient" \in Env \/ Quiet(p)
  /\ armed' = [armed EXCEPT ![p] = FALSE]
  /\ UNCHANGED <<pc, outcome, rtt, net, peer, recv_first, recvbuff, localfp,
                 sock, dups, strays>>
  /\ UNCHANGED xferVars

-----------------------------------------------------------------------------
(* The client's commands. *)

\* file_open() of the local file: for a get at block 1, for a put at block 0.
file_open(c, f, blk) ==
  /\ localfp' = [localfp EXCEPT ![c] = f]
  /\ nextblknum' = [nextblknum EXCEPT ![c] = blk]
  /\ fpos' = [fpos EXCEPT ![c] = 0]
  /\ written' = [written EXCEPT ![c] = <<>>]
  /\ outcome' = [outcome EXCEPT ![c] = "none"]

\* net_open(), send_RQ() and the start of fsm_loop().
send_RQ(c, f, op) ==
  /\ sock[c] < MaxTransfers
  /\ sock' = [sock EXCEPT ![c] = @ + 1]
  /\ peer' = [peer EXCEPT ![c] = WellKnown]
  /\ recv_first' = [recv_first EXCEPT ![c] = TRUE]
  /\ sendbuff' = [sendbuff EXCEPT ![c] = RQ(op, f)]
  /\ net' = net \cup {Msg(<<c, sock[c] + 1>>, WellKnown, RQ(op, f))}
  /\ op_sent' = [op_sent EXCEPT ![c] = op]
  /\ pc' = [pc EXCEPT ![c] = "fsm"]
  /\ LoopAgain(c, rtt_newpack(rtt[c]))

do_get(c, f) ==
  /\ pc[c] = "idle"
  /\ file_open(c, f, 1)
  /\ send_RQ(c, f, OP_RRQ)
  /\ UNCHANGED <<lastsend, recvbuff, upload, finished, dups, strays>>

do_put(c, f) ==
  /\ pc[c] = "idle"
  /\ file_open(c, f, 0)
  /\ send_RQ(c, f, OP_WRQ)
  /\ lastsend' = [lastsend EXCEPT ![c] = MAXDATA]
  /\ UNCHANGED <<recvbuff, upload, finished, dups, strays>>

\* do_get() and do_put() return when net_open() fails, the file open already.
net_open_fails(c, f, blk) ==
  /\ pc[c] = "idle" /\ "nohost" \in Env
  /\ file_open(c, f, blk)
  /\ UNCHANGED <<pc, op_sent, lastsend, sendbuff, recvbuff, peer, recv_first,
                 rtt, armed, sock, net, upload, finished, dups, strays>>

\* sig_intr(): back to the prompt; the socket and the file stay open.
sig_intr(c) ==
  /\ pc[c] = "fsm" /\ "intr" \in Env
  /\ pc' = [pc EXCEPT ![c] = "idle"]
  /\ armed' = [armed EXCEPT ![c] = FALSE]
  /\ outcome' = [outcome EXCEPT ![c] = "intr"]
  /\ UNCHANGED <<rtt, net, peer, recv_first, recvbuff, localfp, sock, dups,
                 strays>>
  /\ UNCHANGED xferVars

cmd_exit(c) ==
  /\ pc[c] = "idle"
  /\ Exit(c, "quit")
  /\ UNCHANGED <<rtt, net, peer, recv_first, recvbuff, localfp, sock, dups,
                 strays>>
  /\ UNCHANGED xferVars

-----------------------------------------------------------------------------
(* The server. *)

\* net_open(): the parent takes datagram m, whatever it is, from the well-known
\* port and forks ch, which binds a port of its own.
net_open(ch, m) ==
  /\ pc[Server] = "listen" /\ pc[ch] = "idle" /\ m.dst = WellKnown
  /\ pc' = [pc EXCEPT ![ch] = "start"]
  /\ peer' = [peer EXCEPT ![ch] = m.src]
  /\ recvbuff' = [recvbuff EXCEPT ![ch] = m.pkt]
  /\ sock' = [sock EXCEPT ![ch] = 1]
  /\ Exchange(m, {})
  /\ UNCHANGED <<rtt, armed, outcome, recv_first, localfp, strays>>
  /\ UNCHANGED xferVars

\* fsm_loop(0): its first pass, in which net_recv() returns what the parent
\* read, calls the given handler.
FirstPass(ch, handler) ==
  /\ pc[ch] = "start"
  /\ fsm_ptr(ch, 0, recvbuff[ch].op) = handler
  /\ UNCHANGED <<peer, recv_first, recvbuff, sock, dups, strays>>

\* The first pass ends and the second begins.
EnterLoop(ch) ==
  /\ pc' = [pc EXCEPT ![ch] = "fsm"]
  /\ \E x \in Rexmts :
       LoopAgain(ch, rtt_stop(rtt_start(rtt_newpack(rtt[ch]), x)))

recv_RRQ(ch) ==
  /\ FirstPass(ch, "recv_RRQ")
  /\ localfp' = [localfp EXCEPT ![ch] = recvbuff[ch].file]
  /\ send_DATA(ch, recvbuff[ch].file, 0, 1)
  /\ net' = net \cup {Msg(Port(ch), peer[ch], NextData(recvbuff[ch].file, 0, 1))}
  /\ EnterLoop(ch)
  /\ UNCHANGED <<outcome, written, upload, finished>>

\* fopen(filename, "w") empties the file.
recv_WRQ(ch) ==
  /\ FirstPass(ch, "recv_WRQ")
  /\ localfp' = [localfp EXCEPT ![ch] = recvbuff[ch].file]
  /\ written' = [written EXCEPT ![ch] = <<>>]
  /\ upload' = [upload EXCEPT ![recvbuff[ch].file] = <<>>]
  /\ nextblknum' = [nextblknum EXCEPT ![ch] = 1]
  /\ sendbuff' = [sendbuff EXCEPT ![ch] = ACK(0)]
  /\ op_sent' = [op_sent EXCEPT ![ch] = OP_ACK]
  /\ net' = net \cup {Msg(Port(ch), peer[ch], ACK(0))}
  /\ EnterLoop(ch)
  /\ UNCHANGED <<outcome, lastsend, fpos, finished>>

\* recv_xRQ() refuses the request: send_ERROR() and exit.
send_ERROR(ch) ==
  /\ "deny" \in Env
  /\ FirstPass(ch, "recv_RRQ") \/ FirstPass(ch, "recv_WRQ")
  /\ sendbuff' = [sendbuff EXCEPT ![ch] = ERROR]
  /\ net' = net \cup {Msg(Port(ch), peer[ch], ERROR)}
  /\ Exit(ch, "denied")
  /\ UNCHANGED <<rtt, localfp, op_sent, nextblknum, lastsend, fpos, written,
                 upload, finished>>

\* The first datagram was no request.
not_a_request(ch) ==
  /\ FirstPass(ch, "fsm_invalid")
  /\ Exit(ch, "botch")
  /\ UNCHANGED <<rtt, localfp, net>> /\ UNCHANGED xferVars

-----------------------------------------------------------------------------
(* The environment. *)

\* A system call of p fails: err_sys(), or D_printf() and exit().  A failing
\* fork() or recvfrom() ends the parent server.
sys_error(p) ==
  /\ "syserr" \in Env
  /\ pc[p] \in {"start", "fsm", "listen"}
  /\ pc' = [pc EXCEPT ![p] = "exit"]
  /\ outcome' = IF p = Server THEN outcome ELSE [outcome EXCEPT ![p] = "syserr"]
  /\ armed' = IF p = Server THEN armed ELSE [armed EXCEPT ![p] = FALSE]
  /\ UNCHANGED <<rtt, net, peer, recv_first, recvbuff, localfp, sock, dups,
                 strays>>
  /\ UNCHANGED xferVars

\* Another implementation of TFTP sends an error packet, or one that is too
\* short or has an unknown opcode.
stray(m) ==
  /\ strays < MaxStrays
  /\ m.pkt \in {ERROR, NoPacket}
  /\ \/ m.src = Foreign /\ m.dst = WellKnown
     \/ \E p \in Procs : /\ pc[p] = "fsm" /\ m.dst = Port(p)
                         /\ m.src \in {peer[p], Foreign}
  /\ net' = net \cup {m}
  /\ strays' = strays + 1
  /\ UNCHANGED <<pc, outcome, armed, rtt, peer, recv_first, recvbuff, localfp,
                 sock, dups>>
  /\ UNCHANGED xferVars

StrayMsgs ==
  {Msg(s, d, k) : s \in {Foreign} \cup {peer[p] : p \in Procs},
                  d \in {WellKnown} \cup {Port(p) : p \in Procs},
                  k \in {ERROR, NoPacket}}

-----------------------------------------------------------------------------
Init ==
  /\ pc = [p \in Procs \cup {Server} |-> IF p = Server THEN "listen" ELSE "idle"]
  /\ op_sent = [p \in Procs |-> 0]
  /\ nextblknum = [p \in Procs |-> 0]
  /\ lastsend = [p \in Procs |-> 0]
  /\ sendbuff = [p \in Procs |-> NoPacket]
  /\ recvbuff = [ch \in Children |-> NoPacket]
  /\ peer = [p \in Procs |-> WellKnown]
  /\ recv_first = [p \in Procs |-> FALSE]
  /\ localfp = [p \in Procs |-> NoFile]
  /\ fpos = [p \in Procs |-> 0]
  /\ written = [p \in Procs |-> <<>>]
  /\ rtt = [p \in Procs |-> [nrexmt |-> 0, currto |-> 0, nxtrto |-> 0]]
  /\ armed = [p \in Procs |-> FALSE]
  /\ sock = [p \in Procs |-> 0]
  /\ outcome = [p \in Procs |-> "none"]
  /\ net = {}
  /\ upload = [f \in Files |-> <<>>]
  /\ finished = {}
  /\ dups = 0 /\ strays = 0

\* p takes a datagram from its socket.
Receive(p) ==
  \E m \in net : \/ recv_DATA(p, m) \/ recv_ACK(p, m) \/ recv_RQERR(p, m)
                 \/ fsm_invalid(p, m) \/ net_recv_other(p, m)

Fork == \E ch \in Children, m \in net : net_open(ch, m)

Start(ch) ==
  recv_RRQ(ch) \/ recv_WRQ(ch) \/ send_ERROR(ch) \/ not_a_request(ch)

Command(c) ==
  \/ \E f \in Files : do_get(c, f) \/ do_put(c, f)
  \/ \E f \in Files, blk \in {0, 1} : net_open_fails(c, f, blk)
  \/ cmd_exit(c)

\* Every client has quit and no child is at work: the server waits forever.
Done ==
  /\ \A c \in Clients : pc[c] = "exit"
  /\ \A ch \in Children : pc[ch] \in {"idle", "exit"}
  /\ UNCHANGED vars

Next ==
  \/ \E p \in Procs : Receive(p) \/ timeout(p) \/ alarm_lost(p)
  \/ \E p \in Procs \cup {Server} : sys_error(p)
  \/ Fork
  \/ \E ch \in Children : Start(ch)
  \/ \E c \in Clients : Command(c) \/ sig_intr(c)
  \/ \E m \in StrayMsgs : stray(m)
  \/ Done

Spec == Init /\ [][Next]_vars

\* Alarms go off and forked children run; the network may lose everything.
FairSpec ==
  /\ Spec
  /\ \A p \in Procs : WF_vars(timeout(p))
  /\ \A ch \in Children : WF_vars(Start(ch))

\* The network delivers what is sent and the parent server keeps forking.
ReliableSpec ==
  /\ FairSpec
  /\ \A p \in Procs : WF_vars(Receive(p))
  /\ WF_vars(Fork)

-----------------------------------------------------------------------------
(* Correctness properties. *)

Requests == [op : {OP_RRQ, OP_WRQ}, file : Files]
Datas    == [op : {OP_DATA}, blk : 0..(BLKMOD - 1), data : Chunks, len : 0..MAXDATA]
Acks     == [op : {OP_ACK}, blk : 0..(BLKMOD - 1)]
Others   == [op : {OP_ERROR, 0}]
Packets  == Requests \cup Datas \cup Acks \cup Others
Ports    == (Procs \cup {Server}) \X Nat
Messages == [src : Ports, dst : Ports, pkt : Packets]
Outcomes == {"none", "got", "sent", "timeout", "rqerr", "denied", "port",
             "ahead", "behind", "botch", "intr", "syserr", "quit"}

\* The values the globals of the processes and the network can have.
TypeOK ==
  /\ pc \in [Procs \cup {Server} -> {"idle", "start", "fsm", "exit", "listen"}]
  /\ op_sent \in [Procs -> {0, OP_RRQ, OP_WRQ, OP_DATA, OP_ACK}]
  /\ nextblknum \in [Procs -> Nat]
  /\ lastsend \in [Procs -> 0..MAXDATA]
  /\ sendbuff \in [Procs -> Packets]
  /\ recvbuff \in [Children -> Packets]
  /\ peer \in [Procs -> Ports]
  /\ recv_first \in [Procs -> BOOLEAN]
  /\ localfp \in [Procs -> Files \cup {NoFile}]
  /\ fpos \in [Procs -> Nat]
  /\ written \in [Procs -> Seq(Chunks)]
  /\ rtt \in [Procs -> [nrexmt : 0..(RTT_MAXNREXMT + 1), currto : Int, nxtrto : Int]]
  /\ armed \in [Procs -> BOOLEAN]
  /\ sock \in [Procs -> Nat]
  /\ outcome \in [Procs -> Outcomes]
  /\ net \subseteq Messages
  /\ upload \in [Files -> Seq(Chunks \cup {Hole})]
  /\ finished \subseteq Ports \X (Files \cup {NoFile})
  /\ dups \in 0..MaxDups /\ strays \in 0..MaxStrays

\* p receives a file: a get, or a child that took a WRQ.
Receiving(p) == op_sent[p] \in {OP_RRQ, OP_ACK}
\* p sends a file: a put, or a child that took an RRQ.
Sending(p) == op_sent[p] \in {OP_WRQ, OP_DATA}

\* Whatever is lost, duplicated or reordered, what recv_DATA() has written is an
\* initial part of the requested file: no block twice, none left out, none of
\* another file, in spite of block numbers of 16 bits.
CopyPrefix ==
  \A p \in Procs : (pc[p] = "fsm" /\ Receiving(p)) =>
    /\ Len(written[p]) = nextblknum[p] - 1
    /\ Len(written[p]) <= NFull[localfp[p]]
    /\ \A i \in 1..Len(written[p]) : written[p][i] = <<localfp[p], i>>

\* When recv_DATA() ends a transfer (a block of less than MAXDATA bytes), the
\* whole file has been written.
ReceiverComplete ==
  \A p \in Procs : outcome[p] = "got" => written[p] = Copy(localfp[p])

\* Sender and receiver are in step: the block last sent is the one the receiver
\* waits for or the one before, so that "the other end has received an ACK for
\* block N-1 from us" is never wrong by more than a block.
LockStep ==
  \A s, r \in Procs :
    (/\ pc[s] = "fsm" /\ Sending(s) /\ pc[r] = "fsm" /\ Receiving(r)
     /\ peer[s] = Port(r) /\ peer[r] = Port(s)) =>
       nextblknum[s] \in {nextblknum[r] - 1, nextblknum[r]}

\* recv_ACK() ends a transfer only when the other end has the whole file.
SenderComplete ==
  /\ \A c \in Clients : outcome[c] = "sent" =>
       \E ch \in Children : /\ peer[c] = Port(ch) /\ outcome[ch] = "got"
                            /\ written[ch] = Copy(localfp[c])
  /\ \A ch \in Children : outcome[ch] = "sent" => <<peer[ch], localfp[ch]>> \in finished

\* Without a foreign implementation, neither end is ever ahead of the other
\* ("recvblknum > nextblknum. Something is wrong.") and the state table never
\* calls fsm_invalid() or fsm_error().
NoProtocolBotch ==
  strays = 0 => \A p \in Procs : outcome[p] \notin {"ahead", "botch"}

\* net_recv() exits on a datagram from another port only where two children
\* answer one client: its request reached the server twice.
PortMismatchNeedsTwoChildren ==
  strays = 0 =>
    \A c \in Procs : outcome[c] = "port" =>
      \E a, b \in Children : a # b /\ peer[a] = Port(c) /\ peer[b] = Port(c)

\* The children that opened f with fopen(filename, "w").
Openers(f) == {ch \in Children : localfp[ch] = f /\ op_sent[ch] = OP_ACK}

\* A put that ends well leaves a copy on the server, unless a second child
\* opened, and so emptied, the same file.
UploadIntact ==
  /\ \A ch \in Children :
       (outcome[ch] = "got" /\ Openers(localfp[ch]) = {ch})
          => upload[localfp[ch]] = Copy(localfp[ch])
  /\ \A c \in Clients :
       (outcome[c] = "sent" /\ upload[localfp[c]] # Copy(localfp[c]))
          => \E a, b \in Openers(localfp[c]) : a # b

\* exp_backoff[rtt_nrexmt] of rtt_start() stays inside the array, although
\* rtt_newpack() resets rtt_nrexmt only once per transfer.
BackoffInBounds ==
  \A p \in Procs : pc[p] = "fsm" => rtt[p].nrexmt \in 0..RTT_MAXNREXMT

\* A file too long for 16-bit block numbers is never taken for complete.
LongFilesNeverComplete ==
  \A p \in Procs : outcome[p] \in {"got", "sent"} => NFull[localfp[p]] + 1 < BLKMOD

\* Every fsm_loop() ends, whatever the network loses.  "The protocol counts on
\* the server eventually timing out and exiting." (mainclient.c)
Terminates == \A p \in Procs : pc[p] = "fsm" ~> pc[p] # "fsm"

\* The same, for as long as alarm() is not called with a timeout of 0: the
\* retransmissions of a whole transfer are bounded.
TerminatesWhileArmed ==
  \A p \in Procs : pc[p] = "fsm" ~> (pc[p] # "fsm" \/ ~armed[p])

\* On a network that delivers every datagram before an alarm goes off, a get or
\* put of a file that fits the block numbers succeeds.
ReliableCompletes ==
  \A c \in Clients :
    (pc[c] = "fsm" /\ NFull[localfp[c]] + 1 < BLKMOD)
       ~> outcome[c] \in {"got", "sent"}
=============================================================================
