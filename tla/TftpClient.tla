----------------------------- MODULE TftpClient -----------------------------
(***************************************************************************)
(* The client of the tftp-exercises, beside its protocol: the command      *)
(* interpreter (CommandLine) and the conversions of the files it transfers *)
(* (Netascii).  mainloop() runs one command at a time, and a transfer      *)
(* leaves the line buffer and the settings alone; so a behaviour follows   *)
(* either the lines the user types or the transfers they ask for.          *)
(***************************************************************************)
EXTENDS CommandLine, Netascii

VARIABLE half      \* what is followed: "commands" or "transfers"

clientvars == <<vars, navars, half>>

ClientInit == Init /\ NetasciiInit /\ half \in {"commands", "transfers"}

ClientNext ==
  \/ half = "commands" /\ Next /\ UNCHANGED <<navars, half>>
  \/ half = "transfers" /\ NetasciiNext /\ UNCHANGED <<vars, half>>

ClientSpec == ClientInit /\ [][ClientNext]_clientvars
=============================================================================
