----------------------------- MODULE ModeChange -----------------------------
(***************************************************************************)
(* coreutils/lib/modechange.c: a mode argument is compiled into a list of  *)
(* changes, which are then applied to the mode of a file.  A mode is the   *)
(* set of its bits; an octal argument is given as its bits.                *)
(***************************************************************************)
EXTENDS Integers, Sequences, FiniteSetsExt, SequencesExt

S_IRUGO == {"ur", "gr", "or"}
S_IWUGO == {"uw", "gw", "ow"}
S_IXUGO == {"ux", "gx", "ox"}
S_IRWXUGO == S_IRUGO \cup S_IWUGO \cup S_IXUGO
SetIds == {"us", "gs"}
CHMOD_MODE_BITS == S_IRWXUGO \cup SetIds \cup {"t"}

-----------------------------------------------------------------------------
(* mode_compile().  A text is the letters of the argument; before are the   *)
(* two letters in memory in front of it ("nul" ends a string).              *)

Who ==
  [u |-> {"ur", "uw", "ux", "us"}, g |-> {"gr", "gw", "gx", "gs"}, o |-> {"or", "ow", "ox", "t"}, a |-> CHMOD_MODE_BITS]
What ==
  [r |-> S_IRUGO, w |-> S_IWUGO, x |-> S_IXUGO, X |-> {}, s |-> SetIds, t |-> {"t"}]
Operators == {"=", "+", "-"}
ModeChanges ==
  [op : Operators, flag : {"ORDINARY", "X_IF_ANY_X", "COPY_EXISTING"}, affected : SUBSET CHMOD_MODE_BITS,
   value : SUBSET CHMOD_MODE_BITS, mentioned : SUBSET CHMOD_MODE_BITS]
NoChange == [ok |-> FALSE, changes |-> <<>>]

FirstNot(s, k, letters) == Min({j \in k..Len(s) : s[j] \notin letters})
Union(f, letters) == UNION {f[c] : c \in letters}

\* The loop over the operators of one clause.  mode_string is not advanced past
\* the operator and then set back by one, so the values are read from the letter
\* in front of it: nothing the user has written after an operator is looked at.
Directives(s, k, affected) ==
  LET directive[j \in DOMAIN s] ==
        LET end == FirstNot(s, j - 1, DOMAIN What)
            given == {s[i] : i \in (j - 1)..(end - 1)}
            value == Union(What, given)
            change == [op |-> s[j], flag |-> IF "X" \in given THEN "X_IF_ANY_X" ELSE "ORDINARY", affected |-> affected,
                       value |-> value, mentioned |-> IF affected = {} THEN value ELSE affected \cap value]
        IN  IF s[end] \in Operators
            THEN [end |-> directive[end].end, changes |-> <<change>> \o directive[end].changes]
            ELSE [end |-> end, changes |-> <<change>>]
  IN  directive[k]

Clauses(s, k) ==
  LET clause[j \in DOMAIN s] ==
        LET op == FirstNot(s, j, DOMAIN Who)
            d == Directives(s, op, Union(Who, {s[i] : i \in j..(op - 1)}))
        IN  CASE s[op] \notin Operators -> NoChange
              [] s[op] \in Operators /\ s[d.end] = "," /\ clause[d.end + 1].ok ->
                   [ok |-> TRUE, changes |-> d.changes \o clause[d.end + 1].changes]
              [] s[op] \in Operators /\ s[d.end] = "nul" -> [ok |-> TRUE, changes |-> d.changes]
              [] OTHER -> NoChange
  IN  clause[k]

make_node_op_equals(mode) ==
  <<[op |-> "=", flag |-> "ORDINARY", affected |-> CHMOD_MODE_BITS, value |-> mode,
     mentioned |-> (mode \cap SetIds) \cup {"t"} \cup S_IRWXUGO]>>

mode_compile(arg) ==
  CASE arg.kind = "octal" -> [ok |-> TRUE, changes |-> make_node_op_equals(arg.bits)]
    [] arg.kind = "text" -> Clauses(arg.before \o arg.text \o <<"nul">>, Len(arg.before) + 1)
    [] OTHER -> NoChange      \* beyond 07777, or not only octal digits

-----------------------------------------------------------------------------
(* mode_adjust().                                                           *)

\* The bits copied to all of u, g and o by MODE_COPY_EXISTING.
Copied(value) == UNION {k \in {S_IRUGO, S_IWUGO, S_IXUGO} : k \cap value # {}}

ValueOf(c, mode, dir) ==
  CASE c.flag = "ORDINARY" -> c.value
    [] c.flag = "COPY_EXISTING" -> (c.value \cap mode) \cup Copied(c.value \cap mode)
    [] c.flag = "X_IF_ANY_X" ->
         c.value \cup (IF dir \/ mode \cap S_IXUGO # {} THEN S_IXUGO ELSE {})

\* One change; `+' replaces the mode by the bits to be added.
Adjust(acc, c, dir, umask) ==
  LET omit == (IF dir THEN SetIds ELSE {}) \ c.mentioned
      limit == IF c.affected = {} THEN CHMOD_MODE_BITS \ umask ELSE c.affected
      value == (ValueOf(c, acc.mode, dir) \cap limit) \ omit
      preserved == omit \cup (IF c.affected = {} THEN {} ELSE CHMOD_MODE_BITS \ c.affected)
  IN  CASE c.op = "=" -> [mode |-> (acc.mode \cap preserved) \cup value, bits |-> acc.bits \cup (CHMOD_MODE_BITS \ preserved)]
        [] c.op = "+" -> [mode |-> value, bits |-> acc.bits \cup value]
        [] c.op = "-" -> [mode |-> acc.mode \ value, bits |-> acc.bits \cup value]

mode_adjust(old, dir, umask, changes) ==
  LET adjusted[k \in 0..Len(changes)] ==
        IF k = 0 THEN [mode |-> old, bits |-> {}] ELSE Adjust(adjusted[k - 1], changes[k], dir, umask)
  IN  adjusted[Len(changes)]
=============================================================================
