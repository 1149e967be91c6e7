------------------------------ MODULE FileCopy ------------------------------
(***************************************************************************)
(* What the tftp client and server promise, without packets, block numbers *)
(* and timeouts.  A process that receives a file empties its own copy and  *)
(* then appends the blocks of the file to it, each once and in order; it   *)
(* has received the file only when it has all of them; whoever sends the   *)
(* file learns that it has arrived only when somebody has received it.     *)
(***************************************************************************)
EXTENDS Naturals, Sequences

CONSTANTS
  Processes,
  NoFile,       \* what a process works on at first
  Blocks        \* the domain are the files; Blocks[f]: the blocks that hold a byte

VARIABLES
  job,          \* what a process does or has done, with which file; its copy
  delivered     \* the files that somebody has received

Job(state, file, text) == [state |-> state, file |-> file, text |-> text]
Whole(f) == [i \in 1..Blocks[f] |-> <<f, i>>]
Working(p) == job[p].state \in {"receiving", "sending"}
Becomes(p, new) == job' = [job EXCEPT ![p] = new]

Init ==
  /\ job = [p \in Processes |-> Job("idle", NoFile, <<>>)]
  /\ delivered = {}

\* A transfer begins, or ends as soon as the local file is open.
Begin(p) ==
  /\ ~Working(p)
  /\ \E f \in DOMAIN Blocks, state \in {"receiving", "sending", "idle"} : Becomes(p, Job(state, f, <<>>))
  /\ UNCHANGED delivered

\* The copy of p grows to text, and is the whole file if p says so.
Grows(p, text) ==
  \/ Becomes(p, [job[p] EXCEPT !.text = text]) /\ UNCHANGED delivered
  \/ /\ text = Whole(job[p].file)
     /\ Becomes(p, Job("received", job[p].file, text))
     /\ delivered' = delivered \cup {job[p].file}

Receive(p) ==
  /\ job[p].state = "receiving"
  /\ \/ Grows(p, job[p].text)
     \/ /\ Len(job[p].text) < Blocks[job[p].file]
        /\ Grows(p, Append(job[p].text, <<job[p].file, Len(job[p].text) + 1>>))

Confirm(p) ==
  /\ job[p].state = "sending" /\ job[p].file \in delivered
  /\ Becomes(p, [job[p] EXCEPT !.state = "sent"])
  /\ UNCHANGED delivered

\* A transfer fails; or the user leaves.  What was copied stays.
Abandon(p) == Becomes(p, [job[p] EXCEPT !.state = "idle"]) /\ UNCHANGED delivered

Next == \E p \in Processes : Begin(p) \/ Receive(p) \/ Confirm(p) \/ Abandon(p)
Spec == Init /\ [][Next]_<<job, delivered>>
=============================================================================
