-------------------------- MODULE CoreutilsProofs ---------------------------
(***************************************************************************)
(* What holds of the coreutils programs whatever the files, the operands   *)
(* and the bounds are.  Only one of the two halves of the state moves.     *)
(***************************************************************************)
EXTENDS Coreutils, FtsProofs

-----------------------------------------------------------------------------
(* Names and directories.                                                   *)

Paths == Seq(STRING)
Errors == {"ok", "ENOENT", "ENOTDIR", "EACCES", "EEXIST", "EBUSY", "ENOTEMPTY"}
TreeOK(t) ==
  /\ DOMAIN t \subseteq Paths /\ Slash \in DOMAIN t
  /\ \A x \in DOMAIN t : t[x] \in FileTypes /\ (x # Slash => Front(x) \in DOMAIN t)

\* All but the last of a sequence.
LEMMA FrontFacts ==
  ASSUME NEW S, NEW s \in Seq(S), s # <<>>
  PROVE  /\ Front(s) \in Seq(S) /\ Len(Front(s)) = Len(s) - 1 /\ Last(s) \in S /\ Len(s) \in Nat \ {0} /\ Last(s) = s[Len(s)]
         /\ \A k \in 1..(Len(s) - 1) : Front(s)[k] = s[k]
  <1>1. Len(s) \in Nat /\ Len(s) # 0
    OBVIOUS
  <1>2. Len(s) >= 1 /\ Len(s) - 1 \in Nat
    BY <1>1
  <1> DEFINE n == Len(s) - 1
             f == SubSeq(s, 1, n)
  <1>3. f \in Seq(S) /\ Len(f) = n /\ \A k \in 1..n : f[k] = s[k]
    <2>1. \A k \in 1..n : s[k] \in S
      BY <1>2
    <2>2. f = [k \in 1..n |-> s[k]]
      BY <1>2
    <2> HIDE DEF n, f
    <2>3. n \in Nat
      BY <1>2 DEF n
    <2>4. f \in Seq(S) /\ Len(f) = n
      BY <2>1, <2>2, <2>3, IsASeq
    <2> QED
      BY <2>2, <2>4
  <1> QED
    BY <1>1, <1>2, <1>3 DEF Front, Last

\* A name appended to a path is its last one, and what precedes it the front.
LEMMA AppendFront ==
  ASSUME NEW S, NEW s \in Seq(S), NEW e \in S
  PROVE  Append(s, e) \in Seq(S) /\ Append(s, e) # <<>> /\ Front(Append(s, e)) = s /\ Last(Append(s, e)) = e
  <1> DEFINE t == Append(s, e)
  <1>1. t \in Seq(S) /\ Len(t) = Len(s) + 1 /\ (\A k \in 1..Len(s) : t[k] = s[k]) /\ t[Len(s) + 1] = e /\ Len(s) \in Nat
    OBVIOUS
  <1> HIDE DEF t
  <1>2. t # <<>>
    BY <1>1
  <1>3. Front(t) \in Seq(S) /\ Len(Front(t)) = Len(s) /\ \A k \in 1..Len(s) : Front(t)[k] = s[k]
    BY <1>1, <1>2, FrontFacts
  <1>4. Front(t) = s
    BY <1>3, SeqEqual
  <1> QED
    BY <1>1, <1>2, <1>4 DEF Last, t

\* One step of a name.
LEMMA EntryFacts ==
  ASSUME NEW dir \in Paths, NEW name \in STRING
  PROVE  Entry(dir, name) \in Paths
  BY FrontFacts, AppendFront DEF Entry, Paths, Slash

\* A search of a directory ends with an error or not; if not, there is such a directory.
LEMMA SearchFacts ==
  ASSUME NEW t, NEW dir
  PROVE  Search(t, dir) \in Errors /\ (Search(t, dir) = "ok" => dir \in DOMAIN t /\ t[dir].kind = "dir")
  BY DEF Search, Errors

Places == [err : Errors, dir : Paths]

\* One more component of a name gives an error or not, and a path.
LEMMA ResolveFacts ==
  ASSUME NEW t, NEW at \in Places, NEW name \in STRING
  PROVE  Resolve(t, at, name) \in Places
  <1>1. Search(t, at.dir) \in Errors /\ at.dir \in Paths /\ Entry(at.dir, name) \in Paths /\ "ok" \in Errors /\ "ENOENT" \in Errors
    BY SearchFacts, EntryFacts DEF Errors, Places
  <1> DEFINE err == IF at.err = "ok" THEN Search(t, at.dir) ELSE at.err
             next == Entry(at.dir, name)
             ok == "ok"
             none == "ENOENT"
  <1>2. err \in Errors /\ next \in Paths
    BY <1>1 DEF Places
  <1>3. Resolve(t, at, name) = CASE err # "ok" -> [at EXCEPT !.err = err]
        [] err = "ok" /\ next \notin DOMAIN t -> [err |-> none, dir |-> next]
        [] OTHER -> [err |-> ok, dir |-> next]
    BY DEF Resolve
  <1>4. ok \in Errors /\ none \in Errors
    BY <1>1
  <1> HIDE DEF err, next, ok, none
  <1> QED
    BY <1>2, <1>3, <1>4 DEF Places

\* The loop over the components of a name.
IsLookup(at, t, dir, names) ==
  /\ at = [k \in 0..Len(names) |-> IF k = 0 THEN [err |-> "ok", dir |-> dir] ELSE Resolve(t, at[k - 1], names[k])]
  /\ at \in [0..Len(names) -> Places]

\* Some function computes what every prefix of a name leads to.
LEMMA LookupRuns ==
  ASSUME NEW t, NEW dir \in Paths, NEW names \in Paths
  PROVE  \E at : IsLookup(at, t, dir, names)
  <1> DEFINE n == Len(names)
             start == [err |-> "ok", dir |-> dir]
             F == [k \in 1..n |-> [d \in Places |-> Resolve(t, d, names[k])]]
  <1>1. n \in Nat /\ start \in Places
    BY DEF Paths, Places, Errors
  <1>2. \A k \in 1..n : \A d \in Places : Resolve(t, d, names[k]) \in Places
    <2>1. \A k \in 1..n : names[k] \in STRING
      BY DEF Paths
    <2> QED
      BY <2>1, ResolveFacts
  <1> HIDE DEF n, start
  <1>3. F \in [1..n -> [Places -> Places]]
    BY <1>2
  <1>4. PICK at : IsRun(at, n, Places, start, F)
    <2> HIDE DEF F
    <2> QED
      BY <1>1, <1>3, RunExists
  <1>5. at \in [0..n -> Places] /\ at[0] = start /\ \A k \in 1..n : at[k] = F[k][at[k - 1]]
    BY <1>4 DEF IsRun
  <1>6. \A k \in 1..n : at[k - 1] \in Places
    BY <1>1, <1>5
  <1>7. \A k \in 1..n : at[k] = Resolve(t, at[k - 1], names[k])
    BY <1>5, <1>6
  <1>8. at = [k \in 0..n |-> IF k = 0 THEN start ELSE Resolve(t, at[k - 1], names[k])]
    <2>1. \A k \in 0..n : at[k] = IF k = 0 THEN start ELSE Resolve(t, at[k - 1], names[k])
      BY <1>1, <1>5, <1>7
    <2>2. at = [k \in 0..n |-> at[k]]
      BY <1>5
    <2> QED
      BY <2>1, <2>2
  <1> QED
    BY <1>5, <1>8 DEF IsLookup, n, start

\* So the function that Lookup names does.
LEMMA LookupRun ==
  ASSUME NEW t, NEW dir \in Paths, NEW names \in Paths
  PROVE  \E at : IsLookup(at, t, dir, names) /\ Lookup(t, dir, names) = at[Len(names)]
  <1> DEFINE at == CHOOSE at : at = [k \in 0..Len(names) |-> IF k = 0 THEN [err |-> "ok", dir |-> dir] ELSE Resolve(t, at[k - 1], names[k])]
  <1>1. Lookup(t, dir, names) = at[Len(names)]
    BY DEF Lookup
  <1>2. PICK g : IsLookup(g, t, dir, names)
    BY LookupRuns
  <1>3. at = [k \in 0..Len(names) |-> IF k = 0 THEN [err |-> "ok", dir |-> dir] ELSE Resolve(t, at[k - 1], names[k])]
    BY <1>2 DEF IsLookup
  <1> HIDE DEF at
  <1>4. at = g
    <2> DEFINE n == Len(names)
               S == {k \in 0..n : at[k] = g[k]}
    <2>1. n \in Nat
      BY DEF Paths
    <2>2. g = [k \in 0..n |-> IF k = 0 THEN [err |-> "ok", dir |-> dir] ELSE Resolve(t, g[k - 1], names[k])]
      BY <1>2 DEF IsLookup
    <2>3. at = [k \in 0..n |-> IF k = 0 THEN [err |-> "ok", dir |-> dir] ELSE Resolve(t, at[k - 1], names[k])]
      BY <1>3
    <2> HIDE DEF n
    <2>4. 0 \in S
      BY <2>1, <2>2, <2>3
    <2>5. \A k \in 1..n : k - 1 \in S => k \in S
      BY <2>1, <2>2, <2>3
    <2>6. \A k \in 0..n : k \in S
      <3> HIDE DEF S
      <3> QED
        BY <2>1, <2>4, <2>5, Induction
    <2>7. \A k \in 0..n : at[k] = g[k]
      BY <2>6
    <2>8. at = [k \in 0..n |-> at[k]] /\ g = [k \in 0..n |-> g[k]]
      BY <2>2, <2>3
    <2> QED
      BY <2>7, <2>8
  <1> QED
    BY <1>1, <1>2, <1>4

\* Looking a name up is looking its front up, and then its last component in there.
LEMMA LookupFacts ==
  ASSUME NEW t, NEW dir \in Paths, NEW names \in Paths
  PROVE  /\ Lookup(t, dir, names).err \in Errors /\ Lookup(t, dir, names).dir \in Paths
         /\ Lookup(t, dir, names) \in Places
         /\ names = <<>> => Lookup(t, dir, names).err = "ok" /\ Lookup(t, dir, names).dir = dir
         /\ names # <<>> => Lookup(t, dir, names) = Resolve(t, Lookup(t, dir, Front(names)), Last(names))
  <1> DEFINE n == Len(names)
  <1>1. PICK at : IsLookup(at, t, dir, names) /\ Lookup(t, dir, names) = at[n]
    BY LookupRun
  <1>2. n \in Nat /\ (names = <<>> <=> n = 0)
    BY DEF Paths
  <1>3. at[n] \in Places
    <2> HIDE DEF n
    <2> QED
      BY <1>1, <1>2 DEF IsLookup, n
  <1>4. names = <<>> => at[n].err = "ok" /\ at[n].dir = dir
    BY <1>1, <1>2 DEF IsLookup
  <1>5. ASSUME names # <<>>
        PROVE  Lookup(t, dir, names) = Resolve(t, Lookup(t, dir, Front(names)), Last(names))
    <2> DEFINE f == Front(names)
    <2>1. f \in Paths /\ Len(f) = n - 1 /\ Last(names) = names[n] /\ \A k \in 1..(n - 1) : f[k] = names[k]
      BY <1>5, FrontFacts DEF Paths
    <2> HIDE DEF f
    <2>2. PICK g : IsLookup(g, t, dir, f) /\ Lookup(t, dir, f) = g[n - 1]
      BY <2>1, LookupRun
    <2>3. n \in Nat /\ n - 1 \in Nat /\ n # 0
      BY <1>2, <1>5
    <2> HIDE DEF n
    <2>4. at = [k \in 0..n |-> IF k = 0 THEN [err |-> "ok", dir |-> dir] ELSE Resolve(t, at[k - 1], names[k])]
      BY <1>1 DEF IsLookup, n
    <2>5. g = [k \in 0..(n - 1) |-> IF k = 0 THEN [err |-> "ok", dir |-> dir] ELSE Resolve(t, g[k - 1], f[k])]
      BY <2>1, <2>2 DEF IsLookup
    <2>6. at[0] = g[0]
      BY <2>3, <2>4, <2>5
    <2>7. \A k \in 1..(n - 1) : at[k - 1] = g[k - 1] => at[k] = g[k]
      BY <2>1, <2>3, <2>4, <2>5
    <2>8. at[n - 1] = g[n - 1]
      BY <2>3, <2>6, <2>7, RunsAgree
    <2>9. at[n] = Resolve(t, at[n - 1], names[n])
      BY <2>3, <2>4
    <2> QED
      BY <1>1, <2>1, <2>2, <2>8, <2>9 DEF n, f
  <1> QED
    BY <1>1, <1>3, <1>4, <1>5 DEF Places

\* A file that can be made is new, and in a directory.
NewName(t, dir, names) == Append(Lookup(t, dir, Front(names)).dir, Last(names))

\* What mkdir() and its like can make was not there, and is a name in a directory
\* that is.
LEMMA MakeFacts ==
  ASSUME NEW t, TreeOK(t), NEW dir \in Paths, NEW names \in Paths, names # <<>>, MakeError(t, dir, names) = "ok"
  PROVE  /\ Lookup(t, dir, Front(names)).err = "ok" /\ Lookup(t, dir, Front(names)).dir \in DOMAIN t
         /\ t[Lookup(t, dir, Front(names)).dir].kind = "dir"
         /\ Search(t, Lookup(t, dir, Front(names)).dir) = "ok"
         /\ NewName(t, dir, names) \in Paths \ DOMAIN t /\ NewName(t, dir, names) # Slash
         /\ Front(NewName(t, dir, names)) \in DOMAIN t
         /\ NewName(t, dir, names) = Entry(Lookup(t, dir, Front(names)).dir, Last(names))
         /\ \A kind, mode, by :
              Made(t, dir, names, kind, mode, by) = With(t, NewName(t, dir, names), [kind |-> kind, mode |-> mode, by |-> by])
  <1> DEFINE up == Lookup(t, dir, Front(names))
             new == Entry(up.dir, Last(names))
             last == Last(names)
  <1>1. Front(names) \in Paths /\ last \in STRING
    BY FrontFacts DEF Paths
  <1>2. up.err \in Errors /\ up.dir \in Paths
    BY <1>1, LookupFacts
  <1>3. MakeError(t, dir, names) = CASE up.err # "ok" -> up.err
        [] up.err = "ok" /\ Search(t, up.dir) # "ok" -> Search(t, up.dir)
        [] up.err = "ok" /\ Search(t, up.dir) = "ok" /\ new \in DOMAIN t -> "EEXIST"
        [] OTHER -> IF "uw" \in t[up.dir].mode THEN "ok" ELSE "EACCES"
    BY DEF MakeError
  <1>4. \A kind, mode, by : Made(t, dir, names, kind, mode, by) = With(t, new, [kind |-> kind, mode |-> mode, by |-> by])
    BY DEF Made
  <1> DEFINE dirname == up.dir
             err == up.err
  <1>5. new = Entry(dirname, last)
    OBVIOUS
  <1>6. err = "ok" /\ Search(t, dirname) = "ok" /\ new \notin DOMAIN t
    <2> HIDE DEF up, new
    <2> QED
      BY <1>3
  <1> HIDE DEF up, new, last
  <1>7. dirname \in DOMAIN t /\ t[dirname].kind = "dir"
    BY <1>6, SearchFacts
  <1>8. new = Append(dirname, last)
    <2>1. last # "."
      BY <1>5, <1>6, <1>7 DEF Entry
    <2>2. last # ".."
      BY <1>5, <1>6, <1>7 DEF Entry, TreeOK
    <2> QED
      BY <1>5, <2>1, <2>2 DEF Entry
  <1>9. new \in Paths /\ new # Slash /\ Front(new) = dirname
    BY <1>1, <1>2, <1>8, AppendFront DEF Paths, Slash
  <1> QED
    BY <1>4, <1>5, <1>6, <1>7, <1>8, <1>9 DEF NewName, up, last

\* A tree with one more file.
LEMMA WithFacts ==
  ASSUME NEW t, TreeOK(t), NEW x \in Paths, x # Slash, Front(x) \in DOMAIN t, NEW file \in FileTypes
  PROVE  /\ TreeOK(With(t, x, file)) /\ DOMAIN With(t, x, file) = DOMAIN t \cup {x} /\ With(t, x, file)[x] = file
         /\ \A y \in DOMAIN t : y # x => With(t, x, file)[y] = t[y]
  <1> DEFINE w == With(t, x, file)
  <1>1. DOMAIN w = DOMAIN t \cup {x} /\ w[x] = file /\ \A y \in DOMAIN t : y # x => w[y] = t[y]
    BY DEF With
  <1> HIDE DEF w
  <1>2. TreeOK(w)
    BY <1>1 DEF TreeOK
  <1> QED
    BY <1>1, <1>2 DEF w

\* A directory that can be removed is empty, and is not the root.
LEMMA RmdirFacts ==
  ASSUME NEW t, TreeOK(t), NEW dir \in Paths, NEW names \in Paths, RmdirError(t, dir, names) = "ok"
  PROVE  TreeOK([x \in DOMAIN t \ {Lookup(t, dir, names).dir} |-> t[x]])
  <1> DEFINE l == Lookup(t, dir, names)
             d == l.dir
             err == l.err
             w == [x \in DOMAIN t \ {d} |-> t[x]]
  <1>1. RmdirError(t, dir, names) =
        CASE err # "ok" -> err
          [] err = "ok" /\ d = Slash -> "EBUSY"
          [] err = "ok" /\ d # Slash ->
               IF ~({"uw", "ux"} \subseteq t[Front(d)].mode) THEN "EACCES"
               ELSE IF t[d].kind # "dir" THEN "ENOTDIR"
               ELSE IF Entries(t, d) # {} THEN "ENOTEMPTY" ELSE "ok"
    BY DEF RmdirError
  <1> HIDE DEF d, err
  <1>2. d # Slash /\ Entries(t, d) = {}
    BY <1>1
  <1>3. \A x \in DOMAIN t : x # Slash => Front(x) # d
    BY <1>2 DEF Entries
  <1>4. DOMAIN w = DOMAIN t \ {d} /\ \A x \in DOMAIN w : w[x] = t[x]
    OBVIOUS
  <1> HIDE DEF w
  <1>5. TreeOK(w)
    BY <1>2, <1>3, <1>4 DEF TreeOK
  <1> QED
    BY <1>5 DEF w, d

\* A file gets another mode.
LEMMA ModeFacts ==
  ASSUME NEW t, TreeOK(t), NEW d \in DOMAIN t, NEW m \in SUBSET CHMOD_MODE_BITS
  PROVE  /\ TreeOK([t EXCEPT ![d].mode = m]) /\ DOMAIN [t EXCEPT ![d].mode = m] = DOMAIN t
         /\ \A x \in DOMAIN t : /\ [t EXCEPT ![d].mode = m][x].kind = t[x].kind /\ [t EXCEPT ![d].mode = m][x].by = t[x].by
                                /\ [t EXCEPT ![d].mode = m][x].mode = IF x = d THEN m ELSE t[x].mode
  <1> DEFINE f == [t[d] EXCEPT !.mode = m]
             w == [t EXCEPT ![d].mode = m]
  <1>1. t[d] \in FileTypes
    BY DEF TreeOK
  <1>2. f \in FileTypes /\ f.kind = t[d].kind /\ f.by = t[d].by /\ f.mode = m
    BY <1>1 DEF FileTypes
  <1>3. w = [t EXCEPT ![d] = f]
    OBVIOUS
  <1> HIDE DEF f
  <1>4. DOMAIN w = DOMAIN t /\ w[d] = f /\ \A x \in DOMAIN t : x # d => w[x] = t[x]
    BY <1>3
  <1> HIDE DEF w
  <1>5. TreeOK(w)
    BY <1>2, <1>4 DEF TreeOK
  <1>6. \A x \in DOMAIN t : w[x].kind = t[x].kind /\ w[x].by = t[x].by /\ w[x].mode = IF x = d THEN m ELSE t[x].mode
    BY <1>2, <1>4
  <1> QED
    BY <1>4, <1>5, <1>6 DEF w

-----------------------------------------------------------------------------
(* Modes.                                                                   *)

\* A set-id bit of the mode is one that was spoken of.
Adjusted == {a \in [mode : SUBSET CHMOD_MODE_BITS, bits : SUBSET CHMOD_MODE_BITS] : a.mode \cap SetIds \subseteq a.bits}

\* One change of a mode keeps it a mode, and every set-id bit in it is spoken of.
LEMMA AdjustFacts ==
  ASSUME NEW acc \in Adjusted, NEW c \in ModeChanges, NEW dir \in BOOLEAN, NEW umask
  PROVE  Adjust(acc, c, dir, umask) \in Adjusted
  <1> DEFINE omit == (IF dir THEN SetIds ELSE {}) \ c.mentioned
             limit == IF c.affected = {} THEN CHMOD_MODE_BITS \ umask ELSE c.affected
             value == (ValueOf(c, acc.mode, dir) \cap limit) \ omit
             preserved == omit \cup (IF c.affected = {} THEN {} ELSE CHMOD_MODE_BITS \ c.affected)
             mode == CASE c.op = "=" -> (acc.mode \cap preserved) \cup value
                       [] c.op = "+" -> value
                       [] c.op = "-" -> acc.mode \ value
             bits == CASE c.op = "=" -> acc.bits \cup (CHMOD_MODE_BITS \ preserved)
                       [] c.op = "+" -> acc.bits \cup value
                       [] c.op = "-" -> acc.bits \cup value
  <1>1. c.op \in {"=", "+", "-"} /\ c.affected \subseteq CHMOD_MODE_BITS
    BY DEF ModeChanges, Operators
  <1>2. Adjust(acc, c, dir, umask) = [mode |-> mode, bits |-> bits]
    BY <1>1 DEF Adjust
  <1>3. acc.mode \subseteq CHMOD_MODE_BITS /\ acc.bits \subseteq CHMOD_MODE_BITS /\ acc.mode \cap SetIds \subseteq acc.bits
    BY DEF Adjusted
  <1>4. value \subseteq limit \ omit /\ limit \subseteq CHMOD_MODE_BITS
    BY <1>1
  <1>5. value \cap preserved = {}
    BY <1>4
  <1> HIDE DEF value, preserved
  <1>6. mode \subseteq CHMOD_MODE_BITS /\ bits \subseteq CHMOD_MODE_BITS /\ mode \cap SetIds \subseteq bits
    BY <1>1, <1>3, <1>4, <1>5
  <1> HIDE DEF mode, bits
  <1> QED
    BY <1>2, <1>6 DEF Adjusted

\* So do all the changes of mode_adjust().
LEMMA ModeAdjusts ==
  ASSUME NEW old \in SUBSET S_IRWXUGO, NEW dir \in BOOLEAN, NEW umask, NEW changes \in Seq(ModeChanges)
  PROVE  /\ mode_adjust(old, dir, umask, changes) \in Adjusted
         /\ Len(changes) = 1 => mode_adjust(old, dir, umask, changes) = Adjust([mode |-> old, bits |-> {}], changes[1], dir, umask)
  <1> DEFINE n == Len(changes)
             start == [mode |-> old, bits |-> {}]
             F == [k \in 1..n |-> [a \in Adjusted |-> Adjust(a, changes[k], dir, umask)]]
             at == CHOOSE adjusted : adjusted = [k \in 0..Len(changes) |->
                      IF k = 0 THEN [mode |-> old, bits |-> {}] ELSE Adjust(adjusted[k - 1], changes[k], dir, umask)]
  <1>1. n \in Nat /\ start \in Adjusted /\ \A k \in 1..n : changes[k] \in ModeChanges
    <2>1. start \in Adjusted
      <3>1. old \subseteq CHMOD_MODE_BITS /\ old \cap SetIds = {}
        BY DEF CHMOD_MODE_BITS, S_IRWXUGO, S_IRUGO, S_IWUGO, S_IXUGO, SetIds
      <3> QED
        BY <3>1 DEF Adjusted
    <2> QED
      BY <2>1
  <1>2. mode_adjust(old, dir, umask, changes) = at[n]
    BY DEF mode_adjust
  <1> HIDE DEF start, n
  <1>3. \A k \in 1..n : \A a \in Adjusted : Adjust(a, changes[k], dir, umask) \in Adjusted
    BY <1>1, AdjustFacts
  <1>4. F \in [1..n -> [Adjusted -> Adjusted]]
    BY <1>3
  <1>5. PICK g : IsRun(g, n, Adjusted, start, F)
    <2> HIDE DEF F
    <2> QED
      BY <1>1, <1>4, RunExists
  <1>6. g \in [0..n -> Adjusted] /\ g[0] = start /\ \A k \in 1..n : g[k] = F[k][g[k - 1]]
    BY <1>5 DEF IsRun
  <1>7. \A k \in 1..n : g[k] = Adjust(g[k - 1], changes[k], dir, umask)
    <2>1. \A k \in 1..n : g[k - 1] \in Adjusted
      BY <1>1, <1>6
    <2> QED
      BY <1>6, <2>1
  <1>8. g = [k \in 0..n |-> IF k = 0 THEN start ELSE Adjust(g[k - 1], changes[k], dir, umask)]
    <2>1. \A k \in 0..n : g[k] = IF k = 0 THEN start ELSE Adjust(g[k - 1], changes[k], dir, umask)
      BY <1>1, <1>6, <1>7
    <2>2. g = [k \in 0..n |-> g[k]]
      BY <1>6
    <2> QED
      BY <2>1, <2>2
  <1>9. at = [k \in 0..n |-> IF k = 0 THEN start ELSE Adjust(at[k - 1], changes[k], dir, umask)]
    BY <1>8 DEF start, n
  <1> HIDE DEF at
  <1>10. at[0] = g[0] /\ \A k \in 1..n : at[k - 1] = g[k - 1] => at[k] = g[k]
    BY <1>1, <1>6, <1>7, <1>9
  <1>11. at[n] = g[n]
    BY <1>1, <1>10, RunsAgree
  <1>12. g[n] \in Adjusted
    BY <1>1, <1>6
  <1>13. n = 1 => at[n] = Adjust(start, changes[1], dir, umask)
    BY <1>6, <1>7, <1>11
  <1> QED
    BY <1>2, <1>11, <1>12, <1>13 DEF n, start

\* What an octal mode makes of the usual one: that mode.
AsOctal(a, dir, bits) == a.mode = bits /\ (dir => a.bits = CHMOD_MODE_BITS \ (SetIds \ bits))

\* Octal digits set the mode exactly; of a directory only absent set-id bits are not
\* spoken of.
LEMMA OctalAdjusts ==
  ASSUME NEW old \in SUBSET S_IRWXUGO, NEW dir \in BOOLEAN, NEW umask, NEW bits \in SUBSET CHMOD_MODE_BITS
  PROVE  AsOctal(mode_adjust(old, dir, umask, make_node_op_equals(bits)), dir, bits)
  <1> DEFINE m == (bits \cap SetIds) \cup {"t"} \cup S_IRWXUGO
             op == "="
             flag == "ORDINARY"
             c == [op |-> op, flag |-> flag, affected |-> CHMOD_MODE_BITS, value |-> bits, mentioned |-> m]
             changes == <<c>>
  <1>1. m \in SUBSET CHMOD_MODE_BITS /\ op \in Operators /\ flag \in {"ORDINARY", "X_IF_ANY_X", "COPY_EXISTING"}
    BY DEF CHMOD_MODE_BITS, Operators
  <1> DEFINE all == CHMOD_MODE_BITS
  <1>2. c \in ModeChanges
    <2> HIDE DEF m, op, flag, all
    <2> QED
      BY <1>1 DEF ModeChanges, all
  <1>3. make_node_op_equals(bits) = changes
    BY DEF make_node_op_equals
  <1>4. c.op = "=" /\ c.flag = "ORDINARY" /\ c.affected = CHMOD_MODE_BITS /\ c.value = bits /\ c.mentioned = m
    OBVIOUS
  <1> HIDE DEF c
  <1>5. changes \in Seq(ModeChanges) /\ Len(changes) = 1 /\ changes[1] = c
    BY <1>2
  <1> HIDE DEF changes
  <1>6. mode_adjust(old, dir, umask, changes) = Adjust([mode |-> old, bits |-> {}], c, dir, umask)
    BY <1>5, ModeAdjusts
  <1> DEFINE omit == (IF dir THEN SetIds ELSE {}) \ m
             value == (bits \cap CHMOD_MODE_BITS) \ omit
             preserved == omit
  <1>7. Adjust([mode |-> old, bits |-> {}], c, dir, umask)
          = [mode |-> (old \cap preserved) \cup value, bits |-> {} \cup (CHMOD_MODE_BITS \ preserved)]
    <2>1. CHMOD_MODE_BITS # {}
      BY DEF CHMOD_MODE_BITS
    <2>2. ValueOf(c, old, dir) = bits
      BY <1>4 DEF ValueOf
    <2>3. omit \cup (CHMOD_MODE_BITS \ CHMOD_MODE_BITS) = omit
      OBVIOUS
    <2> HIDE DEF m
    <2> QED
      BY <1>4, <2>1, <2>2, <2>3 DEF Adjust
  <1>8. old \cap SetIds = {} /\ omit \subseteq SetIds /\ omit \cap bits = {}
    BY DEF S_IRWXUGO, S_IRUGO, S_IWUGO, S_IXUGO, SetIds
  <1>9. dir => omit = SetIds \ bits
    BY DEF S_IRWXUGO, S_IRUGO, S_IWUGO, S_IXUGO, SetIds
  <1> HIDE DEF omit
  <1>10. (old \cap preserved) \cup value = bits
    BY <1>8
  <1> DEFINE cleared == {} \cup (CHMOD_MODE_BITS \ preserved)
             mode == (old \cap preserved) \cup value
  <1>11. dir => cleared = CHMOD_MODE_BITS \ (SetIds \ bits)
    BY <1>9
  <1>12. Adjust([mode |-> old, bits |-> {}], c, dir, umask) = [mode |-> mode, bits |-> cleared]
    BY <1>7
  <1> HIDE DEF cleared, mode
  <1>13. mode_adjust(old, dir, umask, changes).mode = mode /\ mode_adjust(old, dir, umask, changes).bits = cleared
    BY <1>6, <1>12
  <1> QED
    BY <1>3, <1>5, <1>10, <1>11, <1>13 DEF mode, AsOctal

-----------------------------------------------------------------------------
(* The processes of mkdir, rmdir, mkfifo and mknod.                         *)

LineFields == {"prog", "parents", "ignore", "mode", "umask", "ops", "type", "numbers", "valid", "set"}
LineOK ==
  /\ Home \in Paths /\ DOMAIN line = LineFields /\ line.prog \in {"mkdir", "rmdir", "mkfifo", "mknod"} /\ line.parents \in BOOLEAN
  /\ line.ops \in Seq([abs : BOOLEAN, names : Seq(STRING) \ {<<>>}]) /\ line.umask \subseteq S_IRWXUGO
  /\ line.mode.kind = "octal" => line.mode.bits \subseteq CHMOD_MODE_BITS
  /\ mode_compile(line.mode).ok => mode_compile(line.mode).changes \in Seq(ModeChanges)

\* What main() has made of the mode: it is what the user has asked for, and
\* every special bit in it was spoken of.  Without -m there are none; with -m
\* the umask is cleared, and what was spoken of are all bits but the set-id bits
\* that are not asked for.
SetOK ==
  /\ line.set.mode \subseteq CHMOD_MODE_BITS /\ line.set.bits \subseteq CHMOD_MODE_BITS /\ line.set.umask \subseteq S_IRWXUGO
  /\ line.set.mode \cap SetIds \subseteq line.set.bits
  /\ line.prog \in {"mkfifo", "mknod"} => line.set.mode \subseteq S_IRWXUGO
  /\ line.prog # "rmdir" /\ line.mode.kind # "text" =>
       /\ line.set.mode \ line.set.umask = Asked
       /\ \/ line.set.bits = {} /\ line.set.mode \subseteq S_IRWXUGO
          \/ line.set.umask = {} /\ line.set.bits = CHMOD_MODE_BITS \ (SetIds \ Asked)

Both == {"parent", "child"}
ProcessFields == {"pc", "i", "status", "state", "child", "saved", "cwd", "names", "root", "made", "nofollow", "readable", "want",
                  "fd", "inside", "err"}
Busy == {"ancestor", "open", "save", "chdir", "chmod", "mkdir", "stat"}
Active == Busy \cup {"next", "restore", "judge"}
Good(me, t) ==
  /\ DOMAIN me = ProcessFields
  /\ me.pc \in Active \cup {"main", "exit", "killed"} /\ me.i \in 1..(Len(line.ops) + 1) /\ me.status \in {0, 1}
  /\ me.state \in {"INITIAL", "FD", "FDPOST", "FORKING", "ERROR", "FINAL"} /\ me.child \in {"none", "child", "self"}
  /\ me.names \in Paths /\ me.cwd \in Paths
  /\ me.root \in BOOLEAN /\ me.saved \in BOOLEAN /\ me.want \in BOOLEAN /\ me.fd \in BOOLEAN /\ me.inside \in BOOLEAN
  /\ line.prog = "mkdir" => me.cwd \in DOMAIN t
  /\ me.saved <=> me.state \in {"FD", "FDPOST"}
  /\ me.fd => me.pc \in {"save", "chdir", "chmod", "killed"}
  /\ me.pc \in Busy \cup {"restore", "judge"} => me.i \in 1..Len(line.ops)
  /\ me.pc \in Busy => me.names # <<>>
  /\ me.pc \in {"open", "save", "chdir"} /\ ~me.want => Len(me.names) > 1

BudgetOK(b) == DOMAIN b = {"fails", "others"} /\ b.fails \in 0..MaxFails /\ b.others \in 0..MaxOthers
HistOK(h) == DOMAIN h = {"acted", "lost"} /\ h.lost \in BOOLEAN /\ h.acted \in [1..Len(line.ops) -> Nat]
ProcsOK ==
  /\ DOMAIN ps = Both /\ \A p \in Both : ps[p].pc # "none" => Good(ps[p], tree)
  /\ ps.parent.pc # "none" /\ (ps.child.pc # "none" => line.prog = "mkdir" /\ ps.child.pc # "main")
  /\ ps.parent.pc = "main" => ps.child.pc = "none" /\ line.set = Unset
  /\ \A p \in Both : ps[p].pc \in Active => SetOK
  /\ line.prog # "rmdir" => ps.parent.pc # "judge" /\ ps.child.pc # "judge"
MkOK ==
  /\ TreeOK(tree) /\ LineOK /\ (line.prog = "mkdir" => Home \in DOMAIN tree)
  /\ BudgetOK(budget) /\ HistOK(hist) /\ ProcsOK

\* The invariant holds when a program of MakeDirs starts.
LEMMA MkInitOK ==
  ASSUME MkInit
  PROVE  MkOK
  <1>1. /\ tree \in Trees /\ line \in Lines /\ budget = [fails |-> MaxFails, others |-> MaxOthers]
        /\ ps = [parent |-> Process, child |-> Nobody]
        /\ hist = [acted |-> [i \in DOMAIN line.ops |-> 0], lost |-> FALSE]
    BY DEF MkInit
  <1>2. TreeOK(tree) /\ Home \in DOMAIN tree /\ Home \in Paths
    BY <1>1, TreesAssumption DEF TreeOK, Paths
  <1>3. LineOK /\ line.set = Unset
    BY <1>1, <1>2, LinesAssumption DEF LineOK, LineFields
  <1>4. BudgetOK(budget)
    BY <1>1, MakeDirsAssumption DEF BudgetOK
  <1>5. HistOK(hist)
    <2>1. DOMAIN line.ops = 1..Len(line.ops)
      BY <1>3 DEF LineOK
    <2> QED
      BY <1>1, <2>1 DEF HistOK
  <1>6. Good(Process, tree)
    <2>1. Len(line.ops) \in Nat
      BY <1>3 DEF LineOK
    <2>2. Home \in Paths /\ <<>> \in Paths
      BY <1>2 DEF TreeOK, Paths
    <2>3. DOMAIN Process = ProcessFields /\ Process.pc = "main" /\ Process.i = 1 /\ Process.status = 0 /\ Process.state = "INITIAL"
          /\ Process.child = "none" /\ Process.saved = FALSE /\ Process.cwd = Home /\ Process.names = <<>> /\ Process.root = FALSE
          /\ Process.want = FALSE /\ Process.fd = FALSE /\ Process.inside = FALSE
      BY DEF Process, ProcessFields
    <2> DEFINE me == Process
               n == Len(line.ops)
    <2> HIDE DEF me, n
    <2>4. me.pc \in Active \cup {"main", "exit", "killed"} /\ me.i \in 1..(n + 1) /\ me.status \in {0, 1}
      BY <2>1, <2>3 DEF me, n
    <2>5. me.names \in Paths /\ me.cwd \in Paths /\ me.cwd \in DOMAIN tree
      BY <1>2, <2>2, <2>3 DEF me
    <2>6. me.root \in BOOLEAN /\ me.saved \in BOOLEAN /\ me.want \in BOOLEAN /\ me.fd \in BOOLEAN /\ me.inside \in BOOLEAN
          /\ (me.saved <=> me.state \in {"FD", "FDPOST"}) /\ ~me.fd
      BY <2>3 DEF me
    <2>7. me.pc \notin Active /\ me.state = "INITIAL" /\ me.child = "none" /\ DOMAIN me = ProcessFields
      BY <2>3 DEF me, Active, Busy
    <2> QED
      BY <2>4, <2>5, <2>6, <2>7 DEF Good, me, n, Active, Busy
  <1>7. ProcsOK
    <2>1. DOMAIN ps = Both /\ ps.parent = Process /\ ps.child = Nobody /\ ps["parent"] = Process /\ ps["child"] = Nobody
      BY <1>1 DEF Both
    <2>2. Nobody.pc = "none" /\ Process.pc = "main"
      BY DEF Nobody, Process
    <2> QED
      BY <1>3, <1>6, <2>1, <2>2 DEF ProcsOK, Both, Active, Busy
  <1> QED
    BY <1>2, <1>3, <1>4, <1>5, <1>7 DEF MkOK

\* The bound on failures goes down, never below nothing.
LEMMA SpendOK ==
  ASSUME BudgetOK(budget), NEW failed \in BOOLEAN, Trouble(failed), Spend(failed)
  PROVE  BudgetOK(budget') /\ budget'.fails <= budget.fails /\ budget'.others = budget.others /\ (failed => budget'.fails < budget.fails)
  BY MakeDirsAssumption DEF BudgetOK, Trouble, Spend

\* What may be relied on while a process of mkdir runs.
LEMMA RunningFacts ==
  ASSUME MkOK, NEW p \in Both, Running(p)
  PROVE  Good(ps[p], tree) /\ ps[p].pc \in Active \ {"judge"} /\ line.prog = "mkdir" /\ SetOK /\ TreeOK(tree) /\ LineOK
         /\ Len(line.ops) \in Nat /\ BudgetOK(budget) /\ HistOK(hist)
  <1>1. line.prog = "mkdir" /\ ps[p].pc \notin {"none", "main", "exit", "killed"} /\ ProcsOK /\ TreeOK(tree) /\ LineOK /\ BudgetOK(budget)
        /\ HistOK(hist)
    BY DEF Running, MkOK
  <1>2. Good(ps[p], tree) /\ ps[p].pc # "judge"
    BY <1>1 DEF ProcsOK, Both
  <1>3. ps[p].pc \in Active
    BY <1>1, <1>2 DEF Good
  <1>4. Len(line.ops) \in Nat
    BY <1>1 DEF LineOK
  <1> QED
    BY <1>1, <1>2, <1>3, <1>4 DEF ProcsOK

\* A process stays well-formed when no file goes.
LEMMA GoodGrows ==
  ASSUME NEW me, NEW t, NEW u, Good(me, t), DOMAIN t \subseteq DOMAIN u
  PROVE  Good(me, u)
  BY DEF Good

\* One process takes a new state, the other keeps its own.
LEMMA GoesFacts ==
  ASSUME DOMAIN ps = Both, NEW p \in Both, NEW n, Goes(p, n)
  PROVE  DOMAIN ps' = Both /\ ps'[p] = n /\ \A q \in Both : q # p => ps'[q] = ps[q]
  BY DEF Goes

\* A step of one process.
LEMMA ProcStep ==
  ASSUME MkOK, NEW p \in Both, Running(p), NEW n, Goes(p, n), Good(n, tree'), n.pc \notin {"main", "judge"}, line' = line,
         TreeOK(tree'), DOMAIN tree \subseteq DOMAIN tree', BudgetOK(budget'), HistOK(hist')
  PROVE  MkOK'
  <1>1. ProcsOK /\ LineOK /\ Home \in DOMAIN tree /\ line.prog = "mkdir" /\ SetOK
    BY RunningFacts DEF MkOK
  <1>2. DOMAIN ps = Both /\ DOMAIN ps' = Both /\ ps'[p] = n /\ \A q \in Both : q # p => ps'[q] = ps[q]
    BY <1>1, GoesFacts DEF ProcsOK
  <1>3. n.pc # "none"
    BY DEF Good, Active, Busy
  <1>4. \A q \in Both : ps'[q].pc # "none" => Good(ps'[q], tree')
    BY <1>1, <1>2, GoodGrows DEF ProcsOK
  <1>5. \A q \in Both : (ps'[q].pc # "none" => Good(ps[q], tree)')
    BY <1>4 DEF Good
  <1>6. LineOK' /\ SetOK' /\ BudgetOK(budget)' /\ HistOK(hist)' /\ TreeOK(tree)'
    BY <1>1 DEF LineOK, SetOK, BudgetOK, HistOK, TreeOK, Asked
  <1>7. ps.parent.pc # "none" /\ ps.child.pc # "main" /\ (ps.parent.pc = "main" => ps.child.pc = "none") /\ ps.parent.pc # "judge"
        /\ ps.child.pc # "judge" /\ p \in {"parent", "child"}
    BY <1>1 DEF ProcsOK, Both
  <1>8. ps'.parent.pc # "main"
    BY <1>2, <1>7 DEF Running, Both
  <1>9. ps'.parent.pc # "none" /\ ps'.child.pc # "main" /\ ps'.parent.pc # "judge" /\ ps'.child.pc # "judge"
    BY <1>2, <1>3, <1>7 DEF Both
  <1>10. ProcsOK'
    BY <1>1, <1>2, <1>5, <1>6, <1>8, <1>9 DEF ProcsOK
  <1> QED
    BY <1>1, <1>6, <1>10 DEF MkOK

\* An operand is counted as acted on.
LEMMA ActedFacts ==
  ASSUME HistOK(hist), DOMAIN ps = Both, NEW p \in Both, NEW me, NEW ok \in BOOLEAN, Acted(p, me, ok), DOMAIN me = ProcessFields, me.i \in 1..Len(line.ops)
  PROVE  /\ HistOK(hist') /\ hist'.lost = hist.lost /\ hist'.acted = [hist.acted EXCEPT ![me.i] = hist.acted[me.i] + 1]
         /\ Goes(p, [me EXCEPT !.pc = "restore", !.status = IF ok THEN me.status ELSE 1])
  <1> DEFINE a == [hist.acted EXCEPT ![me.i] = hist.acted[me.i] + 1]
  <1>1. a \in [1..Len(line.ops) -> Nat]
    BY DEF HistOK
  <1>2. hist' = [hist EXCEPT !.acted = a]
    BY DEF Acted
  <1> HIDE DEF a
  <1>3. HistOK(hist') /\ hist'.lost = hist.lost /\ hist'.acted = a
    BY <1>1, <1>2 DEF HistOK
  <1>4. Goes(p, [me EXCEPT !.pc = "restore", !.status = IF ok THEN me.status ELSE 1])
    BY DEF Acted, ProcessFields
  <1> QED
    BY <1>3, <1>4 DEF a

\* The operand is done with.
LEMMA ActedStep ==
  ASSUME MkOK, NEW p \in Both, Running(p), NEW me, NEW ok \in BOOLEAN, Acted(p, me, ok), Good(me, tree'), ~me.fd, me.i \in 1..Len(line.ops),
         line' = line, TreeOK(tree'), DOMAIN tree \subseteq DOMAIN tree', BudgetOK(budget')
  PROVE  MkOK'
  <1> DEFINE s == IF ok THEN me.status ELSE 1
             n == [me EXCEPT !.pc = "restore", !.status = s]
  <1>1. HistOK(hist') /\ Goes(p, n)
    BY RunningFacts, ActedFacts DEF MkOK, ProcsOK, Good
  <1>2. s \in {0, 1}
    BY DEF Good
  <1> HIDE DEF s
  <1>3. /\ DOMAIN n = DOMAIN me /\ n.pc = "restore" /\ n.status = s /\ n.i = me.i /\ n.state = me.state /\ n.child = me.child /\ n.saved = me.saved
        /\ n.cwd = me.cwd /\ n.names = me.names /\ n.root = me.root /\ n.want = me.want /\ n.fd = me.fd /\ n.inside = me.inside
    BY DEF Good, ProcessFields
  <1> HIDE DEF n
  <1>4. Good(n, tree')
    BY <1>2, <1>3 DEF Good, Active, Busy
  <1> QED
    BY <1>1, <1>3, <1>4, ProcStep

\* An operand is a name.
LEMMA OperandFacts ==
  ASSUME LineOK, NEW i \in 1..Len(line.ops)
  PROVE  line.ops[i].names \in Paths /\ line.ops[i].names # <<>> /\ line.ops[i].abs \in BOOLEAN
  <1> DEFINE R == [abs : BOOLEAN, names : Paths \ {<<>>}]
             ops == line.ops
  <1>1. ops \in Seq(R) /\ i \in 1..Len(ops)
    BY DEF LineOK, Paths
  <1> HIDE DEF R, ops
  <1>2. ops[i] \in R
    BY <1>1
  <1> QED
    BY <1>2 DEF R, ops

\* The operands are looked at one after the other.
LEMMA ActingOK ==
  ASSUME MkOK, NEW p \in Both, savewd_finish(p) \/ ActOn(p) \/ Leaves(p)
  PROVE  MkOK'
  <1> DEFINE me == ps[p]
             op == line.ops[me.i]
  <1>1. Running(p) /\ me.pc = "next" /\ UNCHANGED <<tree, line, budget>>
    BY DEF savewd_finish, ActOn, Leaves
  <1>2. Good(me, tree) /\ TreeOK(tree) /\ BudgetOK(budget) /\ HistOK(hist) /\ LineOK /\ Len(line.ops) \in Nat
    BY <1>1, RunningFacts
  <1> HIDE DEF me
  <1>3. CASE savewd_finish(p)
    <2> DEFINE n == [me EXCEPT !.state = "FINAL", !.saved = FALSE]
    <2>1. Goes(p, n) /\ UNCHANGED hist
      BY <1>3 DEF savewd_finish, me
    <2>2. Good(n, tree) /\ n.pc = "next"
      BY <1>1, <1>2 DEF Good, ProcessFields, Busy, Active
    <2> HIDE DEF n
    <2> QED
      BY <1>1, <1>2, <2>1, <2>2, ProcStep
  <1>4. CASE Leaves(p)
    <2> DEFINE n == [me EXCEPT !.pc = "exit"]
    <2>1. Goes(p, n) /\ UNCHANGED hist
      BY <1>4 DEF Leaves, me
    <2>2. Good(n, tree) /\ n.pc = "exit"
      BY <1>1, <1>2 DEF Good, ProcessFields, Busy, Active
    <2> HIDE DEF n
    <2> QED
      BY <1>1, <1>2, <2>1, <2>2, ProcStep
  <1>5. CASE ActOn(p)
    <2>1. me.i \in 1..Len(line.ops)
      BY <1>2, <1>5 DEF ActOn, LineOK, me
    <2>2. op.names \in Paths /\ op.names # <<>> /\ op.abs \in BOOLEAN
      BY <1>2, <2>1, OperandFacts
    <2> DEFINE new == [me EXCEPT !.pc = IF line.parents THEN "ancestor" ELSE "mkdir", !.names = op.names, !.root = op.abs,
                        !.made = FALSE, !.want = FALSE, !.inside = FALSE]
               d == [me EXCEPT !.pc = "restore"]
    <2>3. \/ Goes(p, d) /\ UNCHANGED hist
          \/ Acted(p, me, FALSE)
          \/ Goes(p, new) /\ UNCHANGED hist
      BY <1>5 DEF ActOn, me
    <2>4. CASE Goes(p, d) /\ UNCHANGED hist
      <3>1. Good(d, tree) /\ d.pc = "restore"
        BY <1>1, <1>2, <2>1 DEF Good, ProcessFields, Busy, Active
      <3> HIDE DEF d
      <3> QED
        BY <1>1, <1>2, <2>4, <3>1, ProcStep
    <2>5. CASE Goes(p, new) /\ UNCHANGED hist
      <3> DEFINE at == IF line.parents THEN "ancestor" ELSE "mkdir"
                 names == op.names
                 root == op.abs
      <3>1. at \in {"ancestor", "mkdir"} /\ names \in Paths /\ names # <<>> /\ root \in BOOLEAN
        BY <2>2
      <3> HIDE DEF at, names, root
      <3>2. Good([me EXCEPT !.pc = at, !.names = names, !.root = root, !.made = FALSE, !.want = FALSE, !.inside = FALSE], tree)
        BY <1>1, <1>2, <2>1, <3>1 DEF Good, ProcessFields, Busy, Active
      <3>3. Good(new, tree) /\ new.pc \in {"ancestor", "mkdir"}
        BY <1>2, <3>2 DEF at, names, root, Good, ProcessFields
      <3> HIDE DEF new
      <3> QED
        BY <1>1, <1>2, <2>5, <3>3, ProcStep
    <2>6. CASE Acted(p, me, FALSE)
      <3> DEFINE ok == FALSE
      <3>1. ok \in BOOLEAN /\ Acted(p, me, ok) /\ ~me.fd
        BY <1>1, <1>2, <2>6 DEF Good
      <3> HIDE DEF ok
      <3> QED
        BY <1>1, <1>2, <2>1, <3>1, ActedStep
    <2> QED
      BY <2>3, <2>4, <2>5, <2>6
  <1> QED
    BY <1>3, <1>4, <1>5

\* A step of both processes.
LEMMA PairStep ==
  ASSUME MkOK, line.prog = "mkdir", SetOK, NEW a, NEW b, ps' = [parent |-> a, child |-> b], UNCHANGED <<tree, line>>,
         Good(a, tree), a.pc \notin {"main", "judge"}, b.pc # "none" => Good(b, tree) /\ b.pc \notin {"main", "judge"},
         BudgetOK(budget'), HistOK(hist')
  PROVE  MkOK'
  <1>1. ProcsOK /\ LineOK /\ Home \in DOMAIN tree /\ TreeOK(tree)
    BY DEF MkOK
  <1>2. DOMAIN ps' = Both /\ ps'["parent"] = a /\ ps'["child"] = b /\ ps'.parent = a /\ ps'.child = b
    BY DEF Both
  <1>3. a.pc # "none"
    BY DEF Good, Active, Busy
  <1>4. \A q \in Both : (ps'[q].pc # "none" => Good(ps[q], tree)')
    BY <1>2 DEF Good, Both
  <1>5. LineOK' /\ SetOK' /\ BudgetOK(budget)' /\ HistOK(hist)' /\ TreeOK(tree)'
    BY <1>1 DEF LineOK, SetOK, BudgetOK, HistOK, TreeOK, Asked
  <1>6. ProcsOK'
    BY <1>2, <1>3, <1>4, <1>5 DEF ProcsOK
  <1> QED
    BY <1>1, <1>5, <1>6 DEF MkOK

\* The greater of two exit statuses.
LEMMA MaxOfFacts ==
  ASSUME NEW a \in Int, NEW b \in Int
  PROVE  MaxOf({a, b}) \in {a, b} /\ MaxOf({a, b}) >= a /\ MaxOf({a, b}) >= b
  <1> DEFINE S == {a, b}
  <1>1. \E x \in S : \A y \in S : x >= y
    OBVIOUS
  <1>2. MaxOf(S) = CHOOSE x \in S : \A y \in S : x >= y
    BY DEF MaxOf, Max
  <1> QED
    BY <1>1, <1>2

\* savewd_restore(), a wait for the child included, keeps the invariant.
LEMMA RestoreOK ==
  ASSUME MkOK, NEW p \in Both, savewd_restore(p)
  PROVE  MkOK'
  <1> DEFINE me == ps[p]
             on == Onward(me)
  <1>1. Running(p) /\ me.pc = "restore" /\ UNCHANGED <<tree, line>>
    BY DEF savewd_restore
  <1>2. Good(me, tree) /\ TreeOK(tree) /\ BudgetOK(budget) /\ HistOK(hist) /\ LineOK /\ Len(line.ops) \in Nat /\ SetOK /\ line.prog = "mkdir"
        /\ Home \in DOMAIN tree /\ Home \in Paths /\ ProcsOK
    BY <1>1, RunningFacts DEF MkOK, TreeOK
  <1> HIDE DEF me
  <1>3. Good(on, tree) /\ on.pc = "next" /\ ~on.fd /\ on.i = me.i + 1 /\ on.state = me.state /\ on.status = me.status
    BY <1>1, <1>2 DEF Good, ProcessFields, Busy, Active, Onward
  <1>4. \/ Goes(p, on) /\ UNCHANGED <<budget, hist>>
        \/ \E failed \in BOOLEAN :
             /\ Trouble(failed) /\ Spend(failed) /\ me.state = "FDPOST"
             /\ hist' = [hist EXCEPT !.lost = hist.lost \/ failed]
             /\ Goes(p, IF failed THEN [on EXCEPT !.state = "ERROR", !.saved = FALSE]
                        ELSE [on EXCEPT !.state = "FD", !.cwd = Home])
        \/ Goes(p, [me EXCEPT !.pc = "exit"]) /\ UNCHANGED <<budget, hist>>
        \/ /\ ps' = [parent |-> [on EXCEPT !.child = "none", !.status = MaxOf({on.status, ps.child.status})], child |-> Nobody]
           /\ ps.child.pc = "exit" /\ UNCHANGED <<budget, hist>>
        \/ ps' = [parent |-> [me EXCEPT !.pc = "killed"], child |-> Nobody] /\ UNCHANGED <<budget, hist>>
    BY <1>2 DEF savewd_restore, me, ChildStatus, HistOK, Good, ProcessFields, Onward
  <1> HIDE DEF on
  <1>5. CASE Goes(p, on) /\ UNCHANGED <<budget, hist>>
    BY <1>1, <1>2, <1>3, <1>5, ProcStep
  <1>6. ASSUME NEW failed \in BOOLEAN, Trouble(failed), Spend(failed), me.state = "FDPOST", hist' = [hist EXCEPT !.lost = hist.lost \/ failed],
               Goes(p, IF failed THEN [on EXCEPT !.state = "ERROR", !.saved = FALSE] ELSE [on EXCEPT !.state = "FD", !.cwd = Home])
        PROVE  MkOK'
    <2> DEFINE lost == hist.lost \/ failed
    <2>1. HistOK(hist')
      <3>1. lost \in BOOLEAN
        OBVIOUS
      <3> HIDE DEF lost
      <3>2. hist' = [hist EXCEPT !.lost = lost]
        BY <1>6 DEF lost
      <3> QED
        BY <1>2, <3>1, <3>2 DEF HistOK
    <2>2. BudgetOK(budget')
      BY <1>2, <1>6, SpendOK
    <2>3. CASE failed
      <3> DEFINE n == [on EXCEPT !.state = "ERROR", !.saved = FALSE]
      <3>1. Good(n, tree) /\ n.pc = "next" /\ Goes(p, n)
        BY <1>3, <1>6, <2>3 DEF Good, ProcessFields, Busy, Active
      <3> HIDE DEF n
      <3> QED
        BY <1>1, <1>2, <2>1, <2>2, <3>1, ProcStep
    <2>4. CASE ~failed
      <3> DEFINE n == [on EXCEPT !.state = "FD", !.cwd = Home]
      <3>1. Goes(p, n) /\ n.pc = "next"
        BY <1>3, <1>6, <2>4 DEF Good, ProcessFields
      <3>2. Good(n, tree)
        BY <1>2, <1>3, <1>6 DEF Good, ProcessFields, Busy, Active
      <3> HIDE DEF n
      <3> QED
        BY <1>1, <1>2, <2>1, <2>2, <3>1, <3>2, ProcStep
    <2> QED
      BY <2>3, <2>4
  <1>7. CASE Goes(p, [me EXCEPT !.pc = "exit"]) /\ UNCHANGED <<budget, hist>>
    <2> DEFINE n == [me EXCEPT !.pc = "exit"]
    <2>1. Good(n, tree) /\ n.pc = "exit"
      BY <1>1, <1>2 DEF Good, ProcessFields, Busy, Active
    <2> HIDE DEF n
    <2>2. Goes(p, n)
      BY <1>7 DEF n
    <2> QED
      BY <1>1, <1>2, <1>7, <2>1, <2>2, ProcStep
  <1>8. CASE /\ ps' = [parent |-> [on EXCEPT !.child = "none", !.status = MaxOf({on.status, ps.child.status})], child |-> Nobody]
             /\ ps.child.pc = "exit" /\ UNCHANGED <<budget, hist>>
    <2> DEFINE s == MaxOf({on.status, ps.child.status})
               n == [on EXCEPT !.child = "none", !.status = s]
    <2>1. ps.child.status \in {0, 1}
      BY <1>2, <1>8 DEF ProcsOK, Both, Good
    <2>2. s \in {0, 1}
      <3> DEFINE a == on.status
                 b == ps.child.status
      <3>1. a \in {0, 1} /\ b \in {0, 1}
        BY <1>3, <2>1 DEF Good
      <3> HIDE DEF a, b
      <3>2. MaxOf({a, b}) \in {a, b}
        BY <3>1, MaxOfFacts
      <3> QED
        BY <3>1, <3>2 DEF a, b
    <2> HIDE DEF s
    <2>6. /\ DOMAIN n = DOMAIN on /\ n.pc = "next" /\ n.status = s /\ n.i = on.i /\ n.state = on.state /\ n.child = "none" /\ n.saved = on.saved
          /\ n.cwd = on.cwd /\ n.names = on.names /\ n.root = on.root /\ n.want = on.want /\ n.fd = on.fd /\ n.inside = on.inside
      BY <1>3 DEF Good, ProcessFields
    <2>3. Good(n, tree) /\ n.pc = "next"
      <3> HIDE DEF n
      <3> QED
        BY <1>3, <2>2, <2>6 DEF Good, Busy, Active
    <2>4. ps' = [parent |-> n, child |-> Nobody]
      BY <1>8 DEF s
    <2>5. Nobody.pc = "none"
      BY DEF Nobody
    <2> HIDE DEF n
    <2> QED
      BY <1>1, <1>2, <1>8, <2>3, <2>4, <2>5, PairStep
  <1>9. CASE ps' = [parent |-> [me EXCEPT !.pc = "killed"], child |-> Nobody] /\ UNCHANGED <<budget, hist>>
    <2> DEFINE n == [me EXCEPT !.pc = "killed"]
    <2>1. Good(n, tree) /\ n.pc = "killed"
      BY <1>1, <1>2 DEF Good, ProcessFields, Busy, Active
    <2>2. Nobody.pc = "none"
      BY DEF Nobody
    <2> HIDE DEF n
    <2>3. ps' = [parent |-> n, child |-> Nobody]
      BY <1>9 DEF n
    <2> QED
      BY <1>1, <1>2, <1>9, <2>1, <2>2, <2>3, PairStep
  <1> QED
    BY <1>4, <1>5, <1>6, <1>7, <1>8, <1>9

\* A signal kills the child.
LEMMA KillOK ==
  ASSUME MkOK, KillChild
  PROVE  MkOK'
  <1> DEFINE me == ps["child"]
             n == [me EXCEPT !.pc = "killed"]
             p == "child"
             failed == TRUE
  <1>1. Running(p) /\ Trouble(failed) /\ Spend(failed) /\ Goes(p, n) /\ UNCHANGED <<tree, line, hist>> /\ p \in Both /\ failed \in BOOLEAN
    BY DEF KillChild, Both
  <1> HIDE DEF p, failed
  <1>2. Good(me, tree) /\ TreeOK(tree) /\ BudgetOK(budget) /\ HistOK(hist) /\ Len(line.ops) \in Nat
    BY <1>1, RunningFacts DEF p
  <1>3. BudgetOK(budget')
    BY <1>1, <1>2, SpendOK
  <1> HIDE DEF me
  <1>4. Good(n, tree) /\ n.pc = "killed"
    BY <1>2 DEF Good, ProcessFields, Busy, Active
  <1> HIDE DEF n
  <1> QED
    BY <1>1, <1>2, <1>3, <1>4, ProcStep

\* A name with a component less.
LEMMA TailFacts ==
  ASSUME NEW names \in Paths, Len(names) > 1
  PROVE  Tail(names) \in Paths /\ Tail(names) # <<>>
  <1> DEFINE tail == Tail(names)
             n == Len(names)
  <1>1. names \in Seq(STRING) /\ names # <<>> /\ n \in Nat
    BY DEF Paths
  <1>2. tail \in Seq(STRING) /\ Len(tail) = n - 1
    BY <1>1, HeadTailProperties
  <1> HIDE DEF tail, n
  <1>3. Len(tail) # 0
    BY <1>1, <1>2 DEF n
  <1>4. tail # <<>>
    BY <1>3
  <1> QED
    BY <1>2, <1>4 DEF tail, Paths

\* Where names are looked up from.
LEMMA AimFacts ==
  ASSUME NEW me, NEW t, Good(me, t), me.pc \in Busy
  PROVE  /\ From(me) \in Paths /\ Aim(me) \in Paths /\ Aim(me) # <<>> /\ Head(me.names) \in STRING /\ Tail(me.names) \in Paths
         /\ <<Head(me.names)>> \in Paths /\ <<Head(me.names)>> # <<>>
         /\ Len(me.names) \in Nat \ {0}
  <1> DEFINE names == me.names
  <1>1. names \in Seq(STRING) /\ names # <<>> /\ me.cwd \in Paths
    BY DEF Good, Paths
  <1>2. Len(names) \in Nat /\ Len(names) # 0
    BY <1>1
  <1>3. Head(names) \in STRING /\ Tail(names) \in Seq(STRING)
    BY <1>1, HeadTailProperties
  <1> HIDE DEF names
  <1>4. <<Head(names)>> \in Seq(STRING) /\ <<Head(names)>> # <<>> /\ Slash \in Seq(STRING)
    BY <1>3 DEF Slash
  <1> QED
    BY <1>1, <1>2, <1>3, <1>4 DEF Paths, From, Aim, names

\* savewd_chdir() has not got there.
LEMMA NotChangedOK ==
  ASSUME MkOK, NEW p \in Both, Running(p), NEW me, me = ps[p], me.pc \in {"open", "chdir"}, NotChanged(p, me), UNCHANGED <<tree, line>>,
         BudgetOK(budget')
  PROVE  MkOK'
  <1>1. Good(me, tree) /\ TreeOK(tree) /\ HistOK(hist) /\ Len(line.ops) \in Nat
    BY RunningFacts
  <1>2. CASE Acted(p, CloseDir(me), FALSE)
    <2> DEFINE n == CloseDir(me)
               ok == FALSE
    <2>1. Good(n, tree) /\ ~n.fd /\ n.i \in 1..Len(line.ops) /\ ok \in BOOLEAN
      BY <1>1 DEF Good, ProcessFields, Busy, Active, CloseDir
    <2>2. Acted(p, n, ok)
      BY <1>2
    <2> HIDE DEF n, ok
    <2> QED
      BY <1>1, <2>1, <2>2, ActedStep
  <1>3. CASE SetUp(p, me, FALSE)
    <2> DEFINE n == [me EXCEPT !.pc = "chmod", !.inside = FALSE]
    <2>1. Good(n, tree) /\ n.pc = "chmod"
      BY <1>1 DEF Good, ProcessFields, Busy, Active
    <2>2. Goes(p, n) /\ UNCHANGED hist
      BY <1>3 DEF SetUp
    <2> HIDE DEF n
    <2> QED
      BY <1>1, <2>1, <2>2, ProcStep
  <1> QED
    BY <1>2, <1>3 DEF NotChanged

\* The directory is opened.
LEMMA ChdirOpenOK ==
  ASSUME MkOK, NEW p \in Both, ChdirOpen(p)
  PROVE  MkOK'
  <1> DEFINE me == ps[p]
             err == OpenError(tree, From(me), Aim(me))
             found == (err = "ok")
  <1>1. Running(p) /\ me.pc = "open" /\ UNCHANGED <<tree, line>>
    BY DEF ChdirOpen
  <1>2. Good(me, tree) /\ TreeOK(tree) /\ BudgetOK(budget) /\ HistOK(hist) /\ Len(line.ops) \in Nat
    BY <1>1, RunningFacts
  <1>3. PICK failed \in BOOLEAN :
          /\ Trouble(failed) /\ Spend(failed)
          /\ \/ Goes(p, [me EXCEPT !.pc = "save"]) /\ UNCHANGED hist
             \/ NotChanged(p, me)
             \/ Goes(p, [me EXCEPT !.pc = "save", !.fd = found]) /\ UNCHANGED hist
    <2> HIDE DEF me
    <2> QED
      BY DEF ChdirOpen, me
  <1>4. BudgetOK(budget')
    BY <1>2, <1>3, SpendOK
  <1>5. CASE Goes(p, [me EXCEPT !.pc = "save"]) /\ UNCHANGED hist
    <2> DEFINE n == [me EXCEPT !.pc = "save"]
    <2> HIDE DEF me
    <2>1. Good(n, tree) /\ n.pc = "save"
      BY <1>1, <1>2 DEF Good, ProcessFields, Busy, Active
    <2>2. Goes(p, n) /\ UNCHANGED hist
      BY <1>5
    <2> HIDE DEF n
    <2> QED
      BY <1>1, <1>2, <1>4, <2>1, <2>2, ProcStep DEF me
  <1>6. CASE NotChanged(p, me)
    <2> HIDE DEF me
    <2> QED
      BY <1>1, <1>4, <1>6, NotChangedOK DEF me
  <1>7. CASE Goes(p, [me EXCEPT !.pc = "save", !.fd = found]) /\ UNCHANGED hist
    <2> DEFINE n == [me EXCEPT !.pc = "save", !.fd = found]
    <2>1. found \in BOOLEAN
      OBVIOUS
    <2> HIDE DEF me, found
    <2>2. Good(n, tree) /\ n.pc = "save"
      BY <1>1, <1>2, <2>1 DEF Good, ProcessFields, Busy, Active
    <2>3. Goes(p, n) /\ UNCHANGED hist
      BY <1>7
    <2> HIDE DEF n
    <2> QED
      BY <1>1, <1>2, <1>4, <2>2, <2>3, ProcStep DEF me
  <1> QED
    BY <1>3, <1>5, <1>6, <1>7

\* The working directory is saved, or a child goes on.
LEMMA SaveOK ==
  ASSUME MkOK, NEW p \in Both, savewd_save(p)
  PROVE  MkOK'
  <1> DEFINE me == ps[p]
             go == [me EXCEPT !.pc = "chdir"]
  <1>1. Running(p) /\ me.pc = "save" /\ UNCHANGED <<tree, line>>
    BY DEF savewd_save
  <1>2. Good(me, tree) /\ TreeOK(tree) /\ BudgetOK(budget) /\ HistOK(hist) /\ Len(line.ops) \in Nat /\ SetOK /\ line.prog = "mkdir"
    BY <1>1, RunningFacts
  <1>3. PICK failed \in BOOLEAN :
          /\ Trouble(failed) /\ Spend(failed) /\ hist' = [hist EXCEPT !.lost = hist.lost \/ failed]
          /\ \/ me.state \in {"INITIAL", "FORKING"} /\ Goes(p, [go EXCEPT !.state = "ERROR", !.child = "none"])
             \/ me.state \in {"INITIAL", "FORKING"} /\ Fork(p, me)
             \/ me.state = "INITIAL" /\ Goes(p, [go EXCEPT !.state = "FD", !.saved = TRUE])
             \/ Goes(p, go)
    BY <1>2 DEF savewd_save, HistOK
  <1> HIDE DEF me
  <1>4. BudgetOK(budget')
    BY <1>2, <1>3, SpendOK
  <1>5. HistOK(hist')
    <2> DEFINE lost == hist.lost \/ failed
    <2>1. lost \in BOOLEAN
      OBVIOUS
    <2>2. hist' = [hist EXCEPT !.lost = lost]
      BY <1>3
    <2> HIDE DEF lost
    <2> QED
      BY <1>2, <2>1, <2>2 DEF HistOK
  <1>6. CASE me.state \in {"INITIAL", "FORKING"} /\ Goes(p, [go EXCEPT !.state = "ERROR", !.child = "none"])
    <2> DEFINE n == [go EXCEPT !.state = "ERROR", !.child = "none"]
    <2>1. Good(n, tree) /\ n.pc = "chdir"
      BY <1>1, <1>2, <1>6 DEF Good, ProcessFields, Busy, Active
    <2>2. Goes(p, n)
      BY <1>6
    <2> HIDE DEF n
    <2> QED
      BY <1>1, <1>2, <1>4, <1>5, <2>1, <2>2, ProcStep
  <1>7. CASE me.state \in {"INITIAL", "FORKING"} /\ Fork(p, me)
    <2> DEFINE a == [me EXCEPT !.pc = "restore", !.state = "FORKING", !.child = "child", !.fd = FALSE]
               b == [me EXCEPT !.pc = "chdir", !.state = "FORKING", !.child = "self"]
    <2>1. Good(a, tree) /\ a.pc = "restore"
      BY <1>1, <1>2, <1>7 DEF Good, ProcessFields, Busy, Active
    <2>2. Good(b, tree) /\ b.pc = "chdir"
      BY <1>1, <1>2, <1>7 DEF Good, ProcessFields, Busy, Active
    <2>3. ps' = [parent |-> a, child |-> b]
      BY <1>7 DEF Fork
    <2> HIDE DEF a, b
    <2> QED
      BY <1>1, <1>2, <1>4, <1>5, <2>1, <2>2, <2>3, PairStep
  <1>8. CASE me.state = "INITIAL" /\ Goes(p, [go EXCEPT !.state = "FD", !.saved = TRUE])
    <2> DEFINE n == [go EXCEPT !.state = "FD", !.saved = TRUE]
    <2>1. Good(n, tree) /\ n.pc = "chdir"
      BY <1>1, <1>2, <1>8 DEF Good, ProcessFields, Busy, Active
    <2>2. Goes(p, n)
      BY <1>8
    <2> HIDE DEF n
    <2> QED
      BY <1>1, <1>2, <1>4, <1>5, <2>1, <2>2, ProcStep
  <1>9. CASE Goes(p, go)
    <2>1. Good(go, tree) /\ go.pc = "chdir"
      BY <1>1, <1>2 DEF Good, ProcessFields, Busy, Active
    <2> HIDE DEF go
    <2> QED
      BY <1>1, <1>2, <1>4, <1>5, <1>9, <2>1, ProcStep
  <1> QED
    BY <1>3, <1>6, <1>7, <1>8, <1>9

\* The working directory is changed.
LEMMA ChdirOK ==
  ASSUME MkOK, NEW p \in Both, Chdir(p)
  PROVE  MkOK'
  <1> DEFINE me == ps[p]
             dir == Lookup(tree, From(me), Aim(me)).dir
             state == AfterChdir(me.state)
             there == [me EXCEPT !.cwd = dir, !.state = state]
  <1>1. Running(p) /\ me.pc = "chdir" /\ UNCHANGED <<tree, line>>
    BY DEF Chdir
  <1>2. Good(me, tree) /\ TreeOK(tree) /\ BudgetOK(budget) /\ HistOK(hist) /\ Len(line.ops) \in Nat
    BY <1>1, RunningFacts
  <1>3. PICK failed \in BOOLEAN :
          /\ Trouble(failed) /\ Spend(failed)
          /\ \/ ChdirError(tree, From(me), Aim(me)) = "ok" /\ Changed(p, there)
             \/ NotChanged(p, me)
    <2>1. Chdir(p) => \E failed \in BOOLEAN :
                        /\ Trouble(failed) /\ Spend(failed)
                        /\ IF ChdirError(tree, From(me), Aim(me)) = "ok" /\ ~failed THEN Changed(p, there) ELSE NotChanged(p, me)
      BY <1>2 DEF Chdir, Good, ProcessFields
    <2> HIDE DEF me, there
    <2> QED
      BY <2>1
  <1>4. BudgetOK(budget')
    BY <1>2, <1>3, SpendOK
  <1>5. CASE NotChanged(p, me)
    <2> HIDE DEF me
    <2> QED
      BY <1>1, <1>4, <1>5, NotChangedOK DEF me
  <1>6. CASE ChdirError(tree, From(me), Aim(me)) = "ok" /\ Changed(p, there)
    <2>1. dir \in DOMAIN tree /\ dir \in Paths
      BY <1>2, <1>6, SearchFacts DEF ChdirError, TreeOK
    <2>2. From(me) \in Paths
      BY <1>1, <1>2, AimFacts DEF Busy
    <2>3. state \in {"INITIAL", "FD", "FDPOST", "FORKING", "ERROR", "FINAL"} /\ (me.saved <=> state \in {"FD", "FDPOST"})
      BY <1>2 DEF AfterChdir, Good
    <2> HIDE DEF me, dir, state
    <2>4. Good(there, tree) /\ there.pc = "chdir" /\ there.names = me.names /\ there.want = me.want
      BY <1>1, <1>2, <2>1, <2>3 DEF Good, ProcessFields, Busy, Active
    <2> HIDE DEF there
    <2>5. CASE ~there.want
      <3> DEFINE tail == Tail(there.names)
                 n == [CloseDir(there) EXCEPT !.pc = "ancestor", !.names = tail, !.root = FALSE]
      <3>1. tail \in Paths /\ tail # <<>>
        <4>1. Len(there.names) > 1 /\ there.names \in Paths
          BY <2>4, <2>5 DEF Good
        <4> QED
          BY <4>1, TailFacts
      <3>2. Goes(p, n) /\ UNCHANGED hist
        BY <1>6, <2>4, <2>5 DEF Changed, CloseDir, Good, ProcessFields
      <3> HIDE DEF tail
      <3>3. Good(n, tree) /\ n.pc = "ancestor"
        BY <2>4, <3>1 DEF Good, ProcessFields, Busy, Active, CloseDir
      <3> HIDE DEF n
      <3> QED
        BY <1>1, <1>2, <1>4, <3>2, <3>3, ProcStep
    <2>6. CASE there.want
      <3> DEFINE n == [there EXCEPT !.pc = "chmod", !.inside = TRUE]
      <3>1. Goes(p, n) /\ UNCHANGED hist
        BY <1>6, <2>6 DEF Changed, SetUp
      <3>2. Good(n, tree) /\ n.pc = "chmod"
        BY <2>4 DEF Good, ProcessFields, Busy, Active
      <3> HIDE DEF n
      <3> QED
        BY <1>1, <1>2, <1>4, <3>1, <3>2, ProcStep
    <2> QED
      BY <2>4, <2>5, <2>6 DEF Good
  <1> QED
    BY <1>3, <1>5, <1>6

\* A tree with one more file.
Adds(u, t, new, file) ==
  /\ TreeOK(u) /\ DOMAIN u = DOMAIN t \cup {new} /\ new \in Paths \ DOMAIN t /\ u[new] = file
  /\ \A x \in DOMAIN t : u[x] = t[x]

\* The tree has exactly one more file, in a directory, after mkdir() and its like.
LEMMA MadeFacts ==
  ASSUME NEW t, TreeOK(t), NEW dir \in Paths, NEW names \in Paths, names # <<>>, MakeError(t, dir, names) = "ok",
         NEW kind \in {"dir", "reg", "nod"}, NEW mode \in SUBSET CHMOD_MODE_BITS, NEW by \in {"before", "other", "ancestor", "mkdir"}
  PROVE  Adds(Made(t, dir, names, kind, mode, by), t, NewName(t, dir, names), [kind |-> kind, mode |-> mode, by |-> by])
  <1> DEFINE new == NewName(t, dir, names)
             file == [kind |-> kind, mode |-> mode, by |-> by]
             u == Made(t, dir, names, kind, mode, by)
  <1>1. new \in Paths \ DOMAIN t /\ new # Slash /\ Front(new) \in DOMAIN t /\ u = With(t, new, file)
    BY MakeFacts
  <1>2. file \in FileTypes
    BY DEF FileTypes
  <1> HIDE DEF new, file, u
  <1> DEFINE w == With(t, new, file)
  <1>3. TreeOK(w) /\ DOMAIN w = DOMAIN t \cup {new} /\ w[new] = file /\ \A y \in DOMAIN t : y # new => w[y] = t[y]
    BY <1>1, <1>2, WithFacts
  <1>4. u = w
    BY <1>1
  <1> HIDE DEF w
  <1>5. Adds(u, t, new, file)
    BY <1>1, <1>3, <1>4 DEF Adds
  <1> QED
    BY <1>5 DEF new, file, u

\* An ancestor is made, or passed.
LEMMA AncestorOK ==
  ASSUME MkOK, NEW p \in Both, mkancesdirs(p)
  PROVE  MkOK'
  <1> DEFINE me == ps[p]
             name == Head(me.names)
             err == MakeError(tree, From(me), <<name>>)
             makes == name # ".." /\ err = "ok"
             made == CASE name = ".." -> FALSE [] name # ".." /\ err = "ok" -> TRUE [] OTHER -> me.made
             readable == name # ".." /\ err = "ok" /\ "ur" \in ancestor_mode
  <1>1. Running(p) /\ me.pc = "ancestor" /\ UNCHANGED <<line, budget, hist>>
    BY DEF mkancesdirs
  <1>2. Good(me, tree) /\ TreeOK(tree) /\ BudgetOK(budget) /\ HistOK(hist) /\ Len(line.ops) \in Nat /\ LineOK
    BY <1>1, RunningFacts
  <1>3. /\ From(me) \in Paths /\ <<name>> \in Paths /\ <<name>> # <<>> /\ Tail(me.names) \in Paths
        /\ Len(me.names) \in Nat \ {0} /\ me.names \in Paths
    BY <1>1, <1>2, AimFacts DEF Busy, Good
  <1>4. \/ Goes(p, [me EXCEPT !.pc = "mkdir"]) /\ UNCHANGED tree
        \/ Len(me.names) > 1 /\ Goes(p, [me EXCEPT !.names = Tail(me.names)]) /\ UNCHANGED tree
        \/ /\ Len(me.names) > 1
           /\ tree' = IF makes THEN Made(tree, From(me), <<name>>, "dir", ancestor_mode, "ancestor") ELSE tree
           /\ Goes(p, [me EXCEPT !.pc = "open", !.made = made, !.nofollow = made, !.readable = readable])
    <2> DEFINE n == Len(me.names)
    <2>1. n = 1 \/ n > 1
      <3>1. n \in Nat \ {0}
        BY <1>3
      <3> HIDE DEF n
      <3> QED
        BY <3>1
    <2> QED
      BY <1>2, <2>1 DEF mkancesdirs, Good, ProcessFields
  <1>5. CASE Goes(p, [me EXCEPT !.pc = "mkdir"]) /\ UNCHANGED tree
    <2> DEFINE n == [me EXCEPT !.pc = "mkdir"]
    <2> HIDE DEF me
    <2>1. Good(n, tree) /\ n.pc = "mkdir"
      BY <1>1, <1>2 DEF Good, ProcessFields, Busy, Active
    <2>2. Goes(p, n) /\ UNCHANGED <<tree, line, budget, hist>>
      BY <1>1, <1>5
    <2> HIDE DEF n
    <2> QED
      BY <1>1, <1>2, <2>1, <2>2, ProcStep DEF me
  <1>6. CASE Len(me.names) > 1 /\ Goes(p, [me EXCEPT !.names = Tail(me.names)]) /\ UNCHANGED tree
    <2> DEFINE tail == Tail(me.names)
               n == [me EXCEPT !.names = tail]
    <2>1. tail \in Paths /\ tail # <<>>
      BY <1>3, <1>6, TailFacts
    <2>2. Goes(p, n)
      BY <1>6
    <2> HIDE DEF me, tail
    <2>3. Good(n, tree) /\ n.pc = "ancestor"
      BY <1>1, <1>2, <2>1 DEF Good, ProcessFields, Busy, Active
    <2> HIDE DEF n
    <2> QED
      BY <1>1, <1>2, <1>6, <2>2, <2>3, ProcStep
  <1>7. CASE /\ Len(me.names) > 1
             /\ tree' = IF makes THEN Made(tree, From(me), <<name>>, "dir", ancestor_mode, "ancestor") ELSE tree
             /\ Goes(p, [me EXCEPT !.pc = "open", !.made = made, !.nofollow = made, !.readable = readable])
    <2> DEFINE n == [me EXCEPT !.pc = "open", !.made = made, !.nofollow = made, !.readable = readable]
               k == "dir"
               by == "ancestor"
    <2>1. TreeOK(tree') /\ DOMAIN tree \subseteq DOMAIN tree'
      <3>1. CASE makes
        <4>1. ancestor_mode \in SUBSET CHMOD_MODE_BITS /\ k \in {"dir", "reg", "nod"} /\ by \in {"before", "other", "ancestor", "mkdir"}
          BY DEF ancestor_mode, CHMOD_MODE_BITS, S_IRWXUGO, S_IWUGO, S_IXUGO
        <4>2. tree' = Made(tree, From(me), <<name>>, k, ancestor_mode, by)
          BY <1>7, <3>1
        <4> DEFINE one == <<name>>
                   from == From(me)
        <4>3. one \in Paths /\ one # <<>> /\ from \in Paths /\ MakeError(tree, from, one) = "ok"
          BY <1>3, <3>1
        <4>4. tree' = Made(tree, from, one, k, ancestor_mode, by)
          BY <4>2
        <4> DEFINE new == NewName(tree, from, one)
                   file == [kind |-> k, mode |-> ancestor_mode, by |-> by]
        <4> HIDE DEF me, name, k, by, one, from
        <4>5. Adds(Made(tree, from, one, k, ancestor_mode, by), tree, new, file)
          BY <1>2, <4>1, <4>3, MadeFacts
        <4> QED
          BY <4>4, <4>5 DEF Adds
      <3>2. CASE ~makes
        <4>1. tree' = tree
          BY <1>7, <3>2
        <4> QED
          BY <1>2, <4>1
      <3> QED
        BY <3>1, <3>2
    <2>2. Goes(p, n) /\ Len(me.names) > 1
      BY <1>7
    <2> HIDE DEF me, made, readable
    <2>3. Good(n, tree) /\ n.pc = "open"
      BY <1>1, <1>2, <2>2 DEF Good, ProcessFields, Busy, Active
    <2>4. Good(n, tree')
      <3> HIDE DEF n
      <3> QED
        BY <2>1, <2>3, GoodGrows
    <2> HIDE DEF n
    <2> QED
      BY <1>1, <1>2, <2>1, <2>2, <2>3, <2>4, ProcStep
  <1> QED
    BY <1>4, <1>5, <1>6, <1>7

\* The directory itself is made.
LEMMA MakeDirOK ==
  ASSUME MkOK, NEW p \in Both, MakeDir(p)
  PROVE  MkOK'
  <1> DEFINE me == ps[p]
             err == MakeError(tree, From(me), me.names)
             mode == mkdir_mode \ (line.set.umask \cup SetIds)
             readable == "ur" \in line.set.mode
  <1>1. Running(p) /\ me.pc = "mkdir" /\ UNCHANGED <<line, budget>>
    BY DEF MakeDir
  <1>2. Good(me, tree) /\ TreeOK(tree) /\ BudgetOK(budget) /\ HistOK(hist) /\ Len(line.ops) \in Nat /\ SetOK
    BY <1>1, RunningFacts
  <1>3. From(me) \in Paths /\ me.names \in Paths /\ me.names # <<>>
    BY <1>1, <1>2, AimFacts DEF Busy, Good
  <1>4. \/ Goes(p, [me EXCEPT !.pc = "stat", !.err = err]) /\ UNCHANGED <<tree, hist>>
        \/ /\ err = "ok" /\ tree' = Made(tree, From(me), me.names, "dir", mode, "mkdir")
           /\ \/ Acted(p, me, TRUE)
              \/ Goes(p, [me EXCEPT !.pc = "open", !.want = TRUE, !.nofollow = TRUE, !.readable = readable]) /\ UNCHANGED hist
    BY DEF MakeDir
  <1>5. CASE Goes(p, [me EXCEPT !.pc = "stat", !.err = err]) /\ UNCHANGED <<tree, hist>>
    <2> DEFINE n == [me EXCEPT !.pc = "stat", !.err = err]
    <2> HIDE DEF me, err
    <2>1. Good(n, tree) /\ n.pc = "stat"
      BY <1>1, <1>2 DEF Good, ProcessFields, Busy, Active
    <2>2. Goes(p, n) /\ UNCHANGED <<tree, line, budget, hist>>
      BY <1>1, <1>5
    <2> HIDE DEF n
    <2> QED
      BY <1>1, <1>2, <2>1, <2>2, ProcStep DEF me
  <1>6. CASE /\ err = "ok" /\ tree' = Made(tree, From(me), me.names, "dir", mode, "mkdir")
             /\ \/ Acted(p, me, TRUE)
                \/ Goes(p, [me EXCEPT !.pc = "open", !.want = TRUE, !.nofollow = TRUE, !.readable = readable]) /\ UNCHANGED hist
    <2> DEFINE k == "dir"
               by == "mkdir"
               from == From(me)
               names == me.names
    <2>1. mode \in SUBSET CHMOD_MODE_BITS /\ k \in {"dir", "reg", "nod"} /\ by \in {"before", "other", "ancestor", "mkdir"}
      BY <1>2 DEF mkdir_mode, SetOK
    <2>2. tree' = Made(tree, from, names, k, mode, by) /\ from \in Paths /\ names \in Paths /\ names # <<>> /\ MakeError(tree, from, names) = "ok"
      BY <1>3, <1>6
    <2> HIDE DEF me
    <2>3. TreeOK(tree') /\ DOMAIN tree \subseteq DOMAIN tree'
      <3> DEFINE new == NewName(tree, from, names)
                 file == [kind |-> k, mode |-> mode, by |-> by]
      <3> HIDE DEF k, by, from, names, mode
      <3>1. Adds(Made(tree, from, names, k, mode, by), tree, new, file)
        BY <1>2, <2>1, <2>2, MadeFacts
      <3> QED
        BY <2>2, <3>1 DEF Adds
    <2>4. CASE Acted(p, me, TRUE)
      <3> DEFINE ok == TRUE
      <3>1. ok \in BOOLEAN /\ Acted(p, me, ok) /\ ~me.fd /\ me.i \in 1..Len(line.ops)
        BY <1>1, <1>2, <2>4 DEF Good, Busy
      <3>2. Good(me, tree')
        BY <1>2, <2>3, GoodGrows
      <3> HIDE DEF ok
      <3> QED
        BY <1>1, <1>2, <2>3, <3>1, <3>2, ActedStep
    <2>5. CASE Goes(p, [me EXCEPT !.pc = "open", !.want = TRUE, !.nofollow = TRUE, !.readable = readable]) /\ UNCHANGED hist
      <3> DEFINE n == [me EXCEPT !.pc = "open", !.want = TRUE, !.nofollow = TRUE, !.readable = readable]
      <3> HIDE DEF readable
      <3>1. Good(n, tree) /\ n.pc = "open"
        BY <1>1, <1>2 DEF Good, ProcessFields, Busy, Active
      <3>2. Goes(p, n) /\ UNCHANGED <<line, budget, hist>>
        BY <1>1, <2>5
      <3> HIDE DEF n
      <3>3. Good(n, tree')
        BY <2>3, <3>1, GoodGrows
      <3> QED
        BY <1>1, <1>2, <2>3, <3>1, <3>2, <3>3, ProcStep DEF me
    <2> QED
      BY <1>6, <2>4, <2>5
  <1> QED
    BY <1>4, <1>5, <1>6

\* What is there already is looked at.
LEMMA ExistingOK ==
  ASSUME MkOK, NEW p \in Both, Existing(p)
  PROVE  MkOK'
  <1> DEFINE me == ps[p]
             n == [me EXCEPT !.err = "ok"]
             ok == TakesExisting(me)
  <1>1. Running(p) /\ me.pc = "stat" /\ UNCHANGED <<tree, line, budget>> /\ Acted(p, n, ok)
    BY DEF Existing
  <1>2. Good(me, tree) /\ TreeOK(tree) /\ BudgetOK(budget) /\ HistOK(hist) /\ LineOK
    BY <1>1, RunningFacts
  <1>3. ok \in BOOLEAN
    BY <1>2 DEF TakesExisting, LineOK
  <1> HIDE DEF me, ok
  <1>4. Good(n, tree) /\ ~n.fd /\ n.i \in 1..Len(line.ops)
    BY <1>1, <1>2 DEF Good, ProcessFields, Busy, Active
  <1> HIDE DEF n
  <1> QED
    BY <1>1, <1>2, <1>3, <1>4, ActedStep

\* The mode is set.
LEMMA DirchownmodOK ==
  ASSUME MkOK, NEW p \in Both, dirchownmod(p)
  PROVE  MkOK'
  <1> DEFINE me == ps[p]
             dir == IF me.inside THEN me.cwd ELSE Lookup(tree, From(me), me.names).dir
             mode == line.set.mode \cup (tree[dir].mode \ line.set.bits)
             n == CloseDir(me)
  <1>1. Running(p) /\ me.pc = "chmod" /\ UNCHANGED line
    BY DEF dirchownmod
  <1>2. Good(me, tree) /\ TreeOK(tree) /\ BudgetOK(budget) /\ HistOK(hist) /\ SetOK
    BY <1>1, RunningFacts
  <1>3. PICK failed \in BOOLEAN :
          /\ Trouble(failed) /\ Spend(failed) /\ Acted(p, n, ~failed)
          /\ tree' = [tree EXCEPT ![dir].mode = mode] \/ tree' = tree
    BY DEF dirchownmod
  <1>4. BudgetOK(budget')
    BY <1>2, <1>3, SpendOK
  <1> HIDE DEF me
  <1>5. TreeOK(tree') /\ DOMAIN tree \subseteq DOMAIN tree'
    <2>1. CASE tree' = tree
      BY <1>2, <2>1
    <2>2. CASE tree' = [tree EXCEPT ![dir].mode = mode] /\ dir \in DOMAIN tree
      <3>1. tree[dir].mode \subseteq CHMOD_MODE_BITS
        BY <1>2, <2>2 DEF TreeOK, FileTypes
      <3>2. mode \in SUBSET CHMOD_MODE_BITS
        BY <1>2, <3>1 DEF SetOK
      <3> HIDE DEF dir, mode
      <3> QED
        BY <1>2, <2>2, <3>2, ModeFacts
    <2>3. CASE tree' = [tree EXCEPT ![dir].mode = mode] /\ dir \notin DOMAIN tree
      <3> HIDE DEF dir, mode
      <3>1. DOMAIN tree' = DOMAIN tree /\ \A x \in DOMAIN tree : tree'[x] = tree[x]
        BY <2>3
      <3> QED
        BY <1>2, <3>1 DEF TreeOK
    <2> QED
      BY <1>3, <2>1, <2>2, <2>3
  <1>6. Good(n, tree) /\ ~n.fd /\ n.i \in 1..Len(line.ops)
    BY <1>1, <1>2 DEF Good, ProcessFields, Busy, Active, CloseDir
  <1> DEFINE ok == ~failed
  <1>7. ok \in BOOLEAN /\ Acted(p, n, ok)
    BY <1>3
  <1> HIDE DEF n, ok
  <1>8. Good(n, tree')
    BY <1>5, <1>6, GoodGrows
  <1> QED
    BY <1>1, <1>2, <1>4, <1>5, <1>6, <1>7, <1>8, ActedStep

\* Another process makes a directory.
LEMMA OtherOK ==
  ASSUME MkOK, Other
  PROVE  MkOK'
  <1>1. PICK path \in OtherPaths :
          /\ Front(path) \in DOMAIN tree /\ tree' = With(tree, path, [kind |-> "dir", mode |-> S_IRWXUGO, by |-> "other"])
    BY DEF Other
  <1>2. UNCHANGED <<ps, line, hist>> /\ budget.others > 0 /\ budget' = [budget EXCEPT !.others = budget.others - 1]
    BY DEF Other, MkOK, BudgetOK
  <1>3. ProcsOK /\ LineOK /\ HistOK(hist) /\ BudgetOK(budget) /\ TreeOK(tree) /\ (line.prog = "mkdir" => Home \in DOMAIN tree)
    BY DEF MkOK
  <1> DEFINE kind == "dir"
             by == "other"
             file == [kind |-> kind, mode |-> S_IRWXUGO, by |-> by]
  <1>4. file \in FileTypes
    <2>1. kind \in {"dir", "reg", "nod"} /\ by \in {"before", "other", "ancestor", "mkdir"} /\ S_IRWXUGO \in SUBSET CHMOD_MODE_BITS
      BY DEF CHMOD_MODE_BITS
    <2> HIDE DEF kind, by
    <2> QED
      BY <2>1 DEF FileTypes
  <1>5. path \in Paths /\ path # Slash
    BY TreesAssumption DEF Paths
  <1>6. TreeOK(tree') /\ DOMAIN tree \subseteq DOMAIN tree'
    <2>1. tree' = With(tree, path, file)
      BY <1>1
    <2> DEFINE w == With(tree, path, file)
    <2> HIDE DEF file
    <2>2. TreeOK(w) /\ DOMAIN w = DOMAIN tree \cup {path}
      BY <1>1, <1>3, <1>4, <1>5, WithFacts
    <2> QED
      BY <2>1, <2>2
  <1>7. BudgetOK(budget')
    BY <1>2, <1>3, MakeDirsAssumption DEF BudgetOK
  <1>8. \A q \in Both : ps[q].pc # "none" => Good(ps[q], tree')
    BY <1>3, <1>6, GoodGrows DEF ProcsOK
  <1>9. \A q \in Both : (ps'[q].pc # "none" => Good(ps[q], tree)')
    BY <1>2, <1>8 DEF Good
  <1>10. LineOK' /\ (SetOK <=> SetOK') /\ BudgetOK(budget)' /\ HistOK(hist)' /\ TreeOK(tree)'
    BY <1>2, <1>3, <1>6, <1>7 DEF LineOK, SetOK, BudgetOK, HistOK, TreeOK, Asked
  <1>11. ProcsOK'
    BY <1>2, <1>3, <1>9, <1>10 DEF ProcsOK
  <1> QED
    BY <1>2, <1>3, <1>6, <1>10, <1>11 DEF MkOK

\* A program that has no child.
Alone == MkOK /\ ps.child.pc = "none"

\* The process of a program without a child.
LEMMA AloneFacts ==
  ASSUME MkOK, ps.parent.pc = "main" \/ line.prog # "mkdir"
  PROVE  /\ Alone /\ Good(ps.parent, tree) /\ TreeOK(tree) /\ LineOK /\ BudgetOK(budget) /\ HistOK(hist) /\ Len(line.ops) \in Nat
         /\ ps.parent = ps["parent"] /\ (line.prog = "mkdir" => Home \in DOMAIN tree) /\ (ps.parent.pc = "main" => line.set = Unset)
         /\ (ps.parent.pc \in Active => SetOK) /\ DOMAIN ps = Both
  BY DEF MkOK, ProcsOK, Both, Alone, LineOK

\* A step of the program without a child keeps the invariant if the new state of the
\* process is well-formed.
LEMMA ParentStep ==
  ASSUME Alone, NEW n, Goes("parent", n), Good(n, tree'), n.pc # "main", n.pc = "judge" => line.prog = "rmdir", LineOK',
         line'.prog = line.prog, line'.ops = line.ops, n.pc \in Active => SetOK', TreeOK(tree'), line.prog = "mkdir" => Home \in DOMAIN tree',
         BudgetOK(budget'), HistOK(hist')
  PROVE  MkOK'
  <1>1. DOMAIN ps = Both /\ "parent" \in Both /\ "child" \in Both /\ ps.child.pc = "none"
    BY DEF Alone, MkOK, ProcsOK, Both
  <1>2. DOMAIN ps' = Both /\ ps'.parent = n /\ ps'.child.pc = "none" /\ ps'["parent"] = n /\ ps'["child"].pc = "none"
    BY <1>1 DEF Goes
  <1>3. n.pc # "none"
    BY DEF Good, Active, Busy
  <1>4. \A q \in Both : (ps'[q].pc # "none" => Good(ps[q], tree)')
    BY <1>2 DEF Good, Both
  <1>5. BudgetOK(budget)' /\ HistOK(hist)' /\ TreeOK(tree)'
    BY DEF BudgetOK, HistOK, TreeOK
  <1>6. ProcsOK'
    BY <1>2, <1>3, <1>4 DEF ProcsOK, Both, Active, Busy
  <1> QED
    BY <1>5, <1>6 DEF MkOK

\* A process that exits.
LEMMA ExitGood ==
  ASSUME NEW me, NEW t, Good(me, t), NEW s \in {0, 1}, ~me.fd
  PROVE  Good([me EXCEPT !.pc = "exit", !.status = s], t) /\ [me EXCEPT !.pc = "exit", !.status = s].pc = "exit"
  <1> DEFINE n == [me EXCEPT !.pc = "exit", !.status = s]
  <1>1. /\ DOMAIN n = DOMAIN me /\ n.pc = "exit" /\ n.status = s /\ n.i = me.i /\ n.state = me.state /\ n.child = me.child
        /\ n.saved = me.saved /\ n.cwd = me.cwd /\ n.names = me.names /\ n.root = me.root /\ n.want = me.want /\ n.fd = me.fd
        /\ n.inside = me.inside
    BY DEF Good, ProcessFields
  <1> HIDE DEF n
  <1>2. Good(n, t)
    BY <1>1 DEF Good, Busy, Active
  <1> QED
    BY <1>1, <1>2 DEF n

\* Nothing but the process, or what it may still use up, has changed.
LEMMA QuietStep ==
  ASSUME Alone, NEW n, Goes("parent", n), Good(n, tree), n.pc # "main", n.pc = "judge" => line.prog = "rmdir",
         n.pc \in Active => SetOK, UNCHANGED <<line, tree, hist>>, BudgetOK(budget')
  PROVE  MkOK'
  <1>1. LineOK /\ TreeOK(tree) /\ HistOK(hist) /\ (line.prog = "mkdir" => Home \in DOMAIN tree)
    BY DEF Alone, MkOK
  <1>2. LineOK' /\ (SetOK <=> SetOK')
    BY <1>1 DEF LineOK, SetOK, Asked
  <1> QED
    BY <1>1, <1>2, ParentStep

\* main() that fails keeps the invariant.
LEMMA MainFailsOK ==
  ASSUME MkOK, MainFails
  PROVE  MkOK'
  <1>1. ps.parent.pc = "main" /\ UNCHANGED <<tree, line, hist>> /\ Goes("parent", [ps.parent EXCEPT !.pc = "exit", !.status = 1])
    BY DEF MainFails, Exits
  <1>2. PICK failed \in BOOLEAN : Trouble(failed) /\ Spend(failed)
    BY DEF MainFails
  <1>3. Alone /\ Good(ps.parent, tree) /\ BudgetOK(budget) /\ ~ps.parent.fd
    BY <1>1, AloneFacts DEF Good
  <1>4. BudgetOK(budget')
    BY <1>2, <1>3, SpendOK
  <1> DEFINE n == [ps.parent EXCEPT !.pc = "exit", !.status = 1]
  <1>5. Good(n, tree) /\ n.pc = "exit"
    BY <1>3, ExitGood
  <1>6. Goes("parent", n)
    BY <1>1
  <1> HIDE DEF n
  <1>7. n.pc \notin Active
    BY <1>5 DEF Active, Busy
  <1> QED
    BY <1>1, <1>3, <1>4, <1>5, <1>6, <1>7, QuietStep

\* main() has its mode.
LEMMA StartsOK ==
  ASSUME MkOK, ps.parent.pc = "main", NEW mode, NEW bits, NEW umask, Starts(mode, bits, umask), UNCHANGED <<tree, budget, hist>>,
         mode \subseteq CHMOD_MODE_BITS, bits \subseteq CHMOD_MODE_BITS, umask \subseteq S_IRWXUGO, mode \cap SetIds \subseteq bits,
         line.prog \in {"mkfifo", "mknod"} => mode \subseteq S_IRWXUGO,
         line.prog # "rmdir" /\ line.mode.kind # "text" =>
           /\ mode \ umask = Asked
           /\ (bits = {} /\ mode \subseteq S_IRWXUGO) \/ (umask = {} /\ bits = CHMOD_MODE_BITS \ (SetIds \ Asked))
  PROVE  MkOK'
  <1> DEFINE set == [mode |-> mode, bits |-> bits, umask |-> umask]
             n == [ps.parent EXCEPT !.pc = "next"]
  <1>1. line' = [line EXCEPT !.set = set] /\ Goes("parent", n)
    BY DEF Starts
  <1>2. set.mode = mode /\ set.bits = bits /\ set.umask = umask
    OBVIOUS
  <1>3. Alone /\ Good(ps.parent, tree) /\ TreeOK(tree) /\ LineOK /\ BudgetOK(budget) /\ HistOK(hist) /\ (line.prog = "mkdir" => Home \in DOMAIN tree)
    BY AloneFacts
  <1> HIDE DEF set
  <1>4. /\ DOMAIN line' = LineFields /\ line'.set = set /\ line'.prog = line.prog /\ line'.parents = line.parents
        /\ line'.ops = line.ops /\ line'.umask = line.umask /\ line'.mode = line.mode
    BY <1>1, <1>3 DEF LineOK, LineFields
  <1>5. LineOK'
    BY <1>3, <1>4 DEF LineOK
  <1>6. Asked' = Asked
    BY <1>4 DEF Asked
  <1>7. SetOK'
    BY <1>2, <1>4, <1>6 DEF SetOK
  <1>8. Good(n, tree) /\ n.pc = "next"
    BY <1>3 DEF Good, ProcessFields, Busy, Active
  <1> HIDE DEF n
  <1>9. HistOK(hist') /\ BudgetOK(budget') /\ TreeOK(tree') /\ Good(n, tree')
    BY <1>3, <1>4, <1>8 DEF HistOK, BudgetOK
  <1> QED
    BY <1>1, <1>3, <1>4, <1>5, <1>7, <1>8, <1>9, ParentStep

\* Without a mode argument the umask decides.
LEMMA UmaskFacts ==
  ASSUME LineOK
  PROVE  umask_cleared \subseteq S_IRWXUGO
  BY DEF umask_cleared, LineOK

\* Permission bits are mode bits, and none of the special ones.
LEMMA UsualBits ==
  /\ S_IRWXUGO \subseteq CHMOD_MODE_BITS /\ S_IRUGO \cup S_IWUGO \subseteq S_IRWXUGO
  /\ S_IRWXUGO \cap (SetIds \cup {"t"}) = {} /\ SetIds \cup {"t"} \subseteq CHMOD_MODE_BITS
  BY DEF S_IRWXUGO, S_IRUGO, S_IWUGO, S_IXUGO, SetIds, CHMOD_MODE_BITS

\* An argument that is compiled: from octal digits, or from a text.
LEMMA CompiledFacts ==
  ASSUME LineOK, Compiled.ok, NEW old \in SUBSET S_IRWXUGO, NEW dir \in BOOLEAN
  PROVE  LET a == mode_adjust(old, dir, line.umask, Compiled.changes)
         IN  /\ a.mode \subseteq CHMOD_MODE_BITS /\ a.bits \subseteq CHMOD_MODE_BITS /\ a.mode \cap SetIds \subseteq a.bits
             /\ line.mode.kind # "text" => a.mode = Asked /\ (dir => a.bits = CHMOD_MODE_BITS \ (SetIds \ Asked))
  <1> DEFINE changes == Compiled.changes
  <1>1. changes \in Seq(ModeChanges)
    BY DEF LineOK, Compiled
  <1>2. line.mode.kind # "text" => line.mode.kind = "octal"
    BY DEF Compiled, mode_compile, NoChange
  <1>3. line.mode.kind = "octal" => changes = make_node_op_equals(line.mode.bits) /\ Asked = line.mode.bits
    BY DEF Compiled, mode_compile, Asked
  <1>4. line.mode.kind = "octal" => line.mode.bits \in SUBSET CHMOD_MODE_BITS
    BY DEF LineOK
  <1> HIDE DEF changes
  <1>5. mode_adjust(old, dir, line.umask, changes) \in Adjusted
    BY <1>1, ModeAdjusts
  <1>6. ASSUME line.mode.kind = "octal"
        PROVE  /\ mode_adjust(old, dir, line.umask, changes).mode = Asked
               /\ dir => mode_adjust(old, dir, line.umask, changes).bits = CHMOD_MODE_BITS \ (SetIds \ Asked)
    <2> DEFINE b == line.mode.bits
    <2>1. b \in SUBSET CHMOD_MODE_BITS /\ changes = make_node_op_equals(b) /\ Asked = b /\ line.umask \in SUBSET S_IRWXUGO
      BY <1>3, <1>4, <1>6 DEF LineOK
    <2> HIDE DEF b
    <2>2. /\ mode_adjust(old, dir, line.umask, make_node_op_equals(b)).mode = b
          /\ dir => mode_adjust(old, dir, line.umask, make_node_op_equals(b)).bits = CHMOD_MODE_BITS \ (SetIds \ b)
      <3>1. AsOctal(mode_adjust(old, dir, line.umask, make_node_op_equals(b)), dir, b)
        BY <2>1, OctalAdjusts
      <3> QED
        BY <3>1 DEF AsOctal
    <2> QED
      BY <2>1, <2>2, Zenon
  <1> QED
    BY <1>2, <1>5, <1>6 DEF Adjusted, changes

\* main() of mkdir makes of -m and umask what SetOK says.
LEMMA MkdirMainOK ==
  ASSUME MkOK, mkdir_main
  PROVE  MkOK'
  <1>1. line.prog = "mkdir" /\ ps.parent.pc = "main" /\ UNCHANGED <<tree, budget, hist>>
    BY DEF mkdir_main
  <1>2. LineOK /\ umask_cleared \subseteq S_IRWXUGO
    BY UmaskFacts DEF MkOK
  <1>3. CASE ~Specified
    <2> DEFINE mode == IF line.parents THEN S_IRWXUGO \ line.umask ELSE S_IRWXUGO
               bits == {}
    <2>1. Starts(mode, bits, umask_cleared)
      BY <1>3 DEF mkdir_main
    <2>2. mode \subseteq S_IRWXUGO /\ mode \subseteq CHMOD_MODE_BITS /\ bits \subseteq CHMOD_MODE_BITS /\ bits = {}
          /\ mode \cap SetIds \subseteq bits
      BY UsualBits
    <2>3. mode \ umask_cleared = Asked
      <3>1. line.mode.kind = "none"
        BY <1>3 DEF Specified, NoMode
      <3> QED
        BY <1>1, <1>3, <3>1 DEF umask_cleared, Asked
    <2> HIDE DEF mode, bits
    <2> QED
      BY <1>1, <1>2, <2>1, <2>2, <2>3, StartsOK
  <1>4. CASE Specified
    <2> DEFINE dir == TRUE
               a == mode_adjust(S_IRWXUGO, dir, line.umask, Compiled.changes)
               mode == a.mode
               bits == a.bits
    <2>1. Starts(mode, bits, umask_cleared) /\ Compiled.ok
      BY <1>4 DEF mkdir_main
    <2>2. dir \in BOOLEAN /\ dir /\ S_IRWXUGO \in SUBSET S_IRWXUGO
      OBVIOUS
    <2>3. umask_cleared = {}
      BY <1>4 DEF umask_cleared
    <2> HIDE DEF dir
    <2>4. /\ a.mode \subseteq CHMOD_MODE_BITS /\ a.bits \subseteq CHMOD_MODE_BITS /\ a.mode \cap SetIds \subseteq a.bits
          /\ line.mode.kind # "text" => a.mode = Asked /\ a.bits = CHMOD_MODE_BITS \ (SetIds \ Asked)
      BY <1>2, <2>1, <2>2, CompiledFacts
    <2> HIDE DEF a
    <2>5. line.mode.kind # "text" => mode \ umask_cleared = Asked
      BY <2>3, <2>4
    <2>6. line.prog \notin {"mkfifo", "mknod"}
      BY <1>1
    <2> HIDE DEF mode, bits
    <2> QED
      BY <1>1, <1>2, <2>1, <2>3, <2>4, <2>5, <2>6, StartsOK DEF mode, bits
  <1> QED
    BY <1>3, <1>4

\* So does main() of rmdir, which has no mode.
LEMMA RmdirMainOK ==
  ASSUME MkOK, rmdir_main
  PROVE  MkOK'
  <1> DEFINE none == {}
  <1>1. line.prog = "rmdir" /\ ps.parent.pc = "main" /\ UNCHANGED <<tree, budget, hist>> /\ Starts(none, none, none)
    BY DEF rmdir_main
  <1>2. none \subseteq CHMOD_MODE_BITS /\ none \subseteq S_IRWXUGO /\ none \cap SetIds \subseteq none
    OBVIOUS
  <1> HIDE DEF none
  <1> QED
    BY <1>1, <1>2, StartsOK

\* So does main() of mkfifo and mknod, or it fails.
LEMMA NodMainOK ==
  ASSUME MkOK, nod_main
  PROVE  MkOK'
  <1>1. line.prog \in {"mkfifo", "mknod"} /\ ps.parent.pc = "main" /\ UNCHANGED <<tree, budget, hist>> /\ (Specified => Compiled.ok)
    BY DEF nod_main
  <1>2. LineOK /\ umask_cleared \subseteq S_IRWXUGO
    BY UmaskFacts DEF MkOK
  <1>3. (Permissions(NodMode) /\ Starts(NodMode, {}, umask_cleared)) \/ (Exits(1) /\ UNCHANGED line)
    BY Zenon DEF nod_main
  <1>4. CASE Permissions(NodMode) /\ Starts(NodMode, {}, umask_cleared)
    <2> DEFINE mode == NodMode
               bits == {}
    <2>1. Starts(mode, bits, umask_cleared) /\ mode \subseteq S_IRWXUGO /\ bits \subseteq CHMOD_MODE_BITS /\ bits = {}
      BY <1>4 DEF Permissions
    <2>2. line.mode.kind # "text" => mode \ umask_cleared = Asked
      <3>1. CASE Specified
        <4> DEFINE dir == FALSE
                   old == S_IRUGO \cup S_IWUGO
        <4>1. mode = mode_adjust(old, dir, line.umask, Compiled.changes).mode /\ umask_cleared = {}
          BY <3>1 DEF NodMode, umask_cleared
        <4>2. dir \in BOOLEAN /\ old \in SUBSET S_IRWXUGO
          BY UsualBits
        <4> HIDE DEF dir, mode, old
        <4>3. line.mode.kind # "text" => mode = Asked
          BY <1>1, <1>2, <3>1, <4>1, <4>2, CompiledFacts
        <4> QED
          BY <4>1, <4>3
      <3>2. CASE ~Specified
        <4>1. line.mode.kind = "none"
          BY <3>2 DEF Specified, NoMode
        <4> QED
          BY <1>1, <3>2, <4>1 DEF NodMode, umask_cleared, Asked
      <3> QED
        BY <3>1, <3>2
    <2> HIDE DEF mode, bits
    <2>3. mode \subseteq CHMOD_MODE_BITS /\ mode \cap (SetIds \cup {"t"}) = {} /\ mode \cap SetIds \subseteq bits
      BY <2>1, UsualBits
    <2> QED
      BY <1>1, <1>2, <2>1, <2>2, <2>3, StartsOK
  <1>5. CASE Exits(1) /\ UNCHANGED line
    <2> DEFINE n == [ps.parent EXCEPT !.pc = "exit", !.status = 1]
    <2>1. Alone /\ Good(ps.parent, tree) /\ BudgetOK(budget) /\ ~ps.parent.fd
      BY <1>1, AloneFacts DEF Good
    <2>2. Good(n, tree) /\ n.pc = "exit" /\ Goes("parent", n)
      BY <1>5, <2>1, ExitGood DEF Exits
    <2> HIDE DEF n
    <2>3. n.pc \notin Active
      BY <2>2 DEF Active, Busy
    <2>4. BudgetOK(budget')
      BY <1>1, <2>1 DEF BudgetOK
    <2> QED
      BY <1>1, <1>5, <2>1, <2>2, <2>3, <2>4, QuietStep
  <1> QED
    BY <1>3, <1>4, <1>5

\* The end of the loop over the operands keeps the invariant.
LEMMA LoopEndsOK ==
  ASSUME MkOK, LoopEnds
  PROVE  MkOK'
  <1> DEFINE s == ps.parent.status
             n == [ps.parent EXCEPT !.pc = "exit", !.status = s]
  <1>1. line.prog # "mkdir" /\ UNCHANGED <<tree, line, budget, hist>> /\ Goes("parent", n) /\ ps.parent.pc = "next"
    BY DEF LoopEnds, Exits, Parent
  <1>2. Alone /\ Good(ps.parent, tree) /\ BudgetOK(budget) /\ ~ps.parent.fd
    BY <1>1, AloneFacts DEF Good
  <1>3. s \in {0, 1}
    BY <1>2 DEF Good
  <1> HIDE DEF s
  <1>4. Good(n, tree) /\ n.pc = "exit"
    BY <1>2, <1>3, ExitGood
  <1> HIDE DEF n
  <1>5. n.pc \notin Active
    BY <1>4 DEF Active, Busy
  <1>6. BudgetOK(budget')
    BY <1>1, <1>2 DEF BudgetOK
  <1> QED
    BY <1>1, <1>2, <1>4, <1>5, <1>6, QuietStep

\* On to the next operand, with or without a failure.
LEMMA OnwardFacts ==
  ASSUME NEW me, Good(me, tree), me.pc \in {"next", "judge", "restore"}, me.i \in 1..Len(line.ops), Len(line.ops) \in Nat
  PROVE  /\ Good(Onward(me), tree) /\ Onward(me).pc = "next" /\ Good([me EXCEPT !.status = 1], tree)
         /\ [me EXCEPT !.status = 1].pc = me.pc /\ [me EXCEPT !.status = 1].i = me.i
         /\ Good([Onward(me) EXCEPT !.want = FALSE], tree) /\ [Onward(me) EXCEPT !.want = FALSE].pc = "next"
         /\ Good([Onward(me) EXCEPT !.want = FALSE, !.err = "ok"], tree) /\ [Onward(me) EXCEPT !.want = FALSE, !.err = "ok"].pc = "next"
  <1> DEFINE i == me.i + 1
             on == [me EXCEPT !.pc = "next", !.i = i]
  <1>1. Onward(me) = on
    BY DEF Onward, Good, ProcessFields
  <1>2. i \in 1..(Len(line.ops) + 1)
    OBVIOUS
  <1> HIDE DEF i
  <1>3. Good(on, tree) /\ on.pc = "next"
    BY <1>2 DEF Good, ProcessFields, Busy, Active
  <1> HIDE DEF on
  <1>4. Good([on EXCEPT !.want = FALSE], tree) /\ [on EXCEPT !.want = FALSE].pc = "next"
    BY <1>3 DEF Good, ProcessFields, Busy, Active
  <1>5. Good([on EXCEPT !.want = FALSE, !.err = "ok"], tree) /\ [on EXCEPT !.want = FALSE, !.err = "ok"].pc = "next"
    BY <1>3 DEF Good, ProcessFields, Busy, Active
  <1>6. Good([me EXCEPT !.status = 1], tree) /\ [me EXCEPT !.status = 1].pc = me.pc /\ [me EXCEPT !.status = 1].i = me.i
    BY DEF Good, ProcessFields, Busy, Active
  <1> QED
    BY <1>1, <1>3, <1>4, <1>5, <1>6

\* rmdir that judges a failure keeps it.
LEMMA JudgeOK ==
  ASSUME MkOK, Judge
  PROVE  MkOK'
  <1>1. line.prog = "rmdir" /\ ps.parent.pc = "judge" /\ UNCHANGED <<tree, line, budget, hist>>
    BY DEF Judge, Parent
  <1>2. Alone /\ Good(ps.parent, tree) /\ BudgetOK(budget) /\ SetOK /\ Len(line.ops) \in Nat /\ ps.parent.i \in 1..Len(line.ops)
    <2>1. line.prog # "mkdir"
      BY <1>1
    <2> QED
      BY <1>1, <2>1, AloneFacts DEF Active, Good
  <1>3. PICK me \in {ps.parent, [ps.parent EXCEPT !.status = 1]} : Goes("parent", [Onward(me) EXCEPT !.want = FALSE, !.err = "ok"])
    BY DEF Judge, Parent, Fails
  <1>4. Good(me, tree) /\ me.pc = "judge" /\ me.i \in 1..Len(line.ops)
    BY <1>1, <1>2, <1>3, OnwardFacts
  <1> DEFINE n == [Onward(me) EXCEPT !.want = FALSE, !.err = "ok"]
  <1>5. Good(n, tree) /\ n.pc = "next"
    BY <1>2, <1>4, OnwardFacts
  <1>6. Goes("parent", n)
    BY <1>3
  <1> HIDE DEF n
  <1>7. BudgetOK(budget')
    BY <1>1, <1>2 DEF BudgetOK
  <1> QED
    BY <1>1, <1>2, <1>5, <1>6, <1>7, QuietStep

\* Where the names of an operand start.
LEMMA StartFacts ==
  ASSUME LineOK, ps.parent.i \in 1..Len(line.ops)
  PROVE  Start(Operand) \in Paths /\ Operand.names \in Paths /\ Operand.names # <<>> /\ Operand.abs \in BOOLEAN
  <1>1. Operand = line.ops[ps.parent.i]
    BY DEF Operand, Parent
  <1>2. Slash \in Paths /\ Home \in Paths
    BY DEF Slash, Paths, LineOK
  <1> QED
    BY <1>1, <1>2, OperandFacts DEF Start
\* A node is made.
LEMMA MakeNodsOK ==
  ASSUME MkOK, make_nods
  PROVE  MkOK'
  <1> DEFINE from == Start(Operand)
             names == Operand.names
             k == "nod"
             by == "mkdir"
             mode == line.set.mode \ line.set.umask
             made == Made(tree, from, names, k, mode, by)
  <1>1. line.prog \in {"mkfifo", "mknod"} /\ ps.parent.pc = "next" /\ ps.parent.i \in 1..Len(line.ops) /\ UNCHANGED <<line, hist>>
    BY DEF make_nods, Parent, MkOK, LineOK
  <1>2. Alone /\ Good(ps.parent, tree) /\ TreeOK(tree) /\ LineOK /\ BudgetOK(budget) /\ HistOK(hist) /\ SetOK /\ Len(line.ops) \in Nat
    <2>1. line.prog # "mkdir"
      BY <1>1
    <2> QED
      BY <1>1, <2>1, AloneFacts DEF Active
  <1>3. PICK failed \in BOOLEAN :
          /\ Trouble(failed) /\ Spend(failed)
          /\ \/ MakeError(tree, from, names) = "ok" /\ tree' = made /\ Goes("parent", Onward(ps.parent))
             \/ tree' = tree /\ Goes("parent", Onward(ps.parent)) 
             \/ tree' = tree /\ Goes("parent", Onward([ps.parent EXCEPT !.status = 1]))
    BY DEF make_nods, Parent, Fails
  <1>4. BudgetOK(budget')
    BY <1>2, <1>3, SpendOK
  <1>5. TreeOK(tree') /\ DOMAIN tree \subseteq DOMAIN tree'
    <2>1. CASE MakeError(tree, from, names) = "ok" /\ tree' = made
      <3>1. from \in Paths /\ names \in Paths /\ names # <<>>
        BY <1>1, <1>2, StartFacts
      <3>2. k \in {"dir", "reg", "nod"} /\ by \in {"before", "other", "ancestor", "mkdir"} /\ mode \in SUBSET CHMOD_MODE_BITS
        BY <1>2 DEF SetOK
      <3> DEFINE new == NewName(tree, from, names)
                 file == [kind |-> k, mode |-> mode, by |-> by]
      <3> HIDE DEF from, names, k, by, mode
      <3>3. Adds(Made(tree, from, names, k, mode, by), tree, new, file)
        BY <1>2, <2>1, <3>1, <3>2, MadeFacts
      <3> QED
        BY <2>1, <3>3 DEF Adds
    <2>2. CASE tree' = tree
      BY <1>2, <2>2
    <2> QED
      BY <1>3, <2>1, <2>2
  <1>6. PICK me \in {ps.parent, [ps.parent EXCEPT !.status = 1]} : Goes("parent", Onward(me))
    BY <1>3
  <1>7. Good(me, tree) /\ me.pc = "next" /\ me.i \in 1..Len(line.ops)
    BY <1>1, <1>2, <1>6, OnwardFacts
  <1> DEFINE n == Onward(me)
  <1>8. Good(n, tree) /\ n.pc = "next"
    BY <1>2, <1>7, OnwardFacts
  <1>9. Goes("parent", n)
    BY <1>6
  <1> HIDE DEF n
  <1>10. Good(n, tree')
    BY <1>5, <1>8, GoodGrows
  <1>11. LineOK' /\ SetOK' /\ HistOK(hist')
    BY <1>1, <1>2 DEF LineOK, SetOK, HistOK, Asked
  <1> QED
    BY <1>1, <1>2, <1>4, <1>5, <1>8, <1>9, <1>10, <1>11, ParentStep

\* Nothing is left of nothing.
LEMMA FrontOfNothing ==
  ASSUME NEW S
  PROVE  Front(<<>>) \in Seq(S)
  <1> DEFINE s == <<>>
             f == SubSeq(s, 1, Len(s) - 1)
  <1>1. Len(s) - 1 = -1
    OBVIOUS
  <1>2. f = [k \in 1..(-1) |-> s[k]]
    BY <1>1
  <1>3. 1..(-1) = 1..0
    OBVIOUS
  <1> HIDE DEF s
  <1>4. DOMAIN f = {} /\ f = [k \in {} |-> s[k]]
    BY <1>2
  <1> HIDE DEF f
  <1>5. f = <<>>
    BY <1>4
  <1> QED
    BY <1>5 DEF f, s, Front

\* A directory is removed, or cannot be.
LEMMA GoodOthers ==
  ASSUME NEW me, NEW t, NEW u, Good(me, t), line.prog # "mkdir"
  PROVE  Good(me, u)
  BY DEF Good

\* rmdir() keeps it: what goes had no entries, so every file still has a parent.
LEMMA RemovalOK ==
  ASSUME MkOK, Removal
  PROVE  MkOK'
  <1> DEFINE me == ps.parent
             names == IF me.want THEN me.names ELSE Operand.names
             err == RmdirError(tree, Start(Operand), names)
             d == Lookup(tree, Start(Operand), names).dir
             judged == [me EXCEPT !.pc = "judge", !.err = err, !.names = names]
             up == [me EXCEPT !.want = TRUE, !.names = Front(names)]
  <1>1. line.prog = "rmdir" /\ me.pc = "next" /\ me.i \in 1..Len(line.ops) /\ UNCHANGED <<line, budget, hist>>
    BY DEF Removal, Parent, MkOK, LineOK
  <1>2. Alone /\ Good(me, tree) /\ TreeOK(tree) /\ LineOK /\ BudgetOK(budget) /\ HistOK(hist) /\ SetOK /\ Len(line.ops) \in Nat
    <2>1. line.prog # "mkdir"
      BY <1>1
    <2> QED
      BY <1>1, <2>1, AloneFacts DEF Active
  <1>3. \/ tree' = tree /\ Goes("parent", judged)
        \/ /\ err = "ok" /\ tree' = [x \in DOMAIN tree \ {d} |-> tree[x]]
           /\ \/ Goes("parent", [Onward(me) EXCEPT !.want = FALSE])
              \/ Goes("parent", up)
    BY DEF Removal, Parent
  <1>4. Start(Operand) \in Paths /\ names \in Paths
    BY <1>1, <1>2, StartFacts DEF Good
  <1>5. TreeOK(tree')
    <2>1. CASE err = "ok" /\ tree' = [x \in DOMAIN tree \ {d} |-> tree[x]]
      <3> HIDE DEF names
      <3> QED
        BY <1>2, <1>4, <2>1, RmdirFacts
    <2>2. CASE tree' = tree
      BY <1>2, <2>2
    <2> QED
      BY <1>3, <2>1, <2>2
  <1>6. ASSUME NEW n, Goes("parent", n), Good(n, tree), n.pc \in {"next", "judge"}
        PROVE  MkOK'
    <2>1. Good(n, tree')
      BY <1>1, <1>6, GoodOthers
    <2>2. LineOK' /\ SetOK' /\ HistOK(hist') /\ BudgetOK(budget')
      BY <1>1, <1>2 DEF LineOK, SetOK, HistOK, BudgetOK, Asked
    <2> QED
      BY <1>1, <1>2, <1>5, <1>6, <2>1, <2>2, ParentStep
  <1>7. CASE Goes("parent", judged)
    <2>1. judged.pc = "judge" /\ Good(judged, tree)
      <3> HIDE DEF me, names, err
      <3> QED
        BY <1>1, <1>2, <1>4 DEF Good, ProcessFields, Busy, Active
    <2> HIDE DEF judged
    <2> QED
      BY <1>6, <1>7, <2>1
  <1>8. CASE Goes("parent", [Onward(me) EXCEPT !.want = FALSE])
    <2> DEFINE n == [Onward(me) EXCEPT !.want = FALSE]
    <2>1. Good(n, tree) /\ n.pc = "next"
      BY <1>1, <1>2, OnwardFacts
    <2>2. Goes("parent", n)
      BY <1>8
    <2> HIDE DEF n
    <2> QED
      BY <1>6, <2>1, <2>2
  <1>9. CASE err = "ok" /\ Goes("parent", up)
    <2> DEFINE front == Front(names)
               n == [me EXCEPT !.want = TRUE, !.names = front]
    <2>1. front \in Paths
      <3>1. CASE names = <<>>
        BY <3>1, FrontOfNothing DEF Paths
      <3>2. CASE names # <<>>
        <4> HIDE DEF names
        <4> QED
          BY <1>4, <3>2, FrontFacts DEF Paths
      <3> QED
        BY <3>1, <3>2
    <2>2. Goes("parent", n)
      BY <1>9
    <2> HIDE DEF me, front
    <2>3. Good(n, tree) /\ n.pc = "next"
      BY <1>1, <1>2, <2>1 DEF Good, ProcessFields, Busy, Active
    <2> HIDE DEF n
    <2> QED
      BY <1>6, <2>2, <2>3
  <1> QED
    BY <1>3, <1>7, <1>8, <1>9
\* Every step of the four programs.
LEMMA MkNextOK ==
  ASSUME MkOK, MkNext
  PROVE  MkOK'
  <1>1. ASSUME NEW p \in Both, MkdirStep(p)
        PROVE  MkOK'
    BY <1>1, ActingOK, RestoreOK, ChdirOpenOK, SaveOK, ChdirOK, AncestorOK, MakeDirOK, ExistingOK, DirchownmodOK DEF MkdirStep
  <1> QED
    BY <1>1, OtherOK, KillOK, MainFailsOK, MkdirMainOK, RmdirMainOK, NodMainOK, MakeNodsOK, RemovalOK, JudgeOK, LoopEndsOK
    DEF MkNext, Both

\* Nothing has changed.
LEMMA MkStaysOK ==
  ASSUME MkOK, UNCHANGED mkvars
  PROVE  MkOK'
  <1>1. tree' = tree /\ ps' = ps /\ line' = line /\ budget' = budget /\ hist' = hist
    BY DEF mkvars
  <1>2. TreeOK(tree)' /\ LineOK' /\ (line.prog = "mkdir" => Home \in DOMAIN tree)' /\ BudgetOK(budget)' /\ HistOK(hist)'
    BY <1>1 DEF MkOK, TreeOK, LineOK, BudgetOK, HistOK
  <1>3. ProcsOK'
    BY <1>1 DEF MkOK, ProcsOK, Good, SetOK, Asked
  <1> QED
    BY <1>2, <1>3 DEF MkOK

\* The invariant says what the runs check of the state.
LEMMA MkOKIsType ==
  ASSUME MkOK
  PROVE  MkTypeOK /\ NoDescriptorKept
  <1>1. TreeOK(tree) /\ BudgetOK(budget) /\ HistOK(hist) /\ ProcsOK
    BY DEF MkOK
  <1>2. \A p \in Both : ps[p].pc # "none" => Good(ps[p], tree)
    BY <1>1 DEF ProcsOK
  <1>3. \A x \in DOMAIN tree : tree[x].mode \subseteq CHMOD_MODE_BITS
    BY <1>1 DEF TreeOK, FileTypes
  <1>4. MkTypeOK
    BY <1>1, <1>2, <1>3 DEF MkTypeOK, TreeOK, BudgetOK, HistOK, Good, Both
  <1>5. NoDescriptorKept
    BY <1>2 DEF NoDescriptorKept, Good, Both
  <1> QED
    BY <1>4, <1>5

-----------------------------------------------------------------------------
(* The walks of rm and chown.                                               *)

\* A program that is none of them has ended, and no walk starts.
LEMMA IdleStays ==
  ASSUME FtsIdle
  PROVE  ~FtsNext
  <1>1. pc = "exit" /\ args.prog = "other" /\ fs = <<>> /\ faults = 0
    BY DEF FtsIdle
  <1>2. ~World
    BY <1>1 DEF World
  <1>3. ~Walk
    <2>1. ~ReadAgain /\ ~ReadSkipped
      BY <1>1 DEF ReadAgain, ReadSkipped, Reading
    <2>2. ~BuildOpen
      BY <1>1 DEF BuildOpen, Reading
    <2>3. ~BuildChdir
      BY <1>1 DEF BuildChdir
    <2>4. ~BuildRead /\ ~BuildBack
      BY <1>1 DEF BuildRead, BuildBack
    <2>5. ~ReadNext /\ ~ReadUp
      BY <1>1 DEF ReadNext, ReadUp, Reading
    <2>6. ~CheckForDir /\ ~enter_dir /\ ~Discard
      BY <1>1 DEF CheckForDir, enter_dir, Discard
    <2> QED
      BY <2>1, <2>2, <2>3, <2>4, <2>5, <2>6 DEF Walk
  <1>4. ~Rm /\ ~Chown
    BY <1>1 DEF Rm, RmOption, RmUsage, RmMain, RmDirectory, RmProtected, RmPrompt, RmExcise, RmEnd, IsRm, IsChown, Got,
                Chown, ChownOption, ChownUsage, ChownParse, ChownOpen, ChownVisit, ChownDecide, ChownLink, ChownOpens,
                ChownDescriptor, ChownOrdinary, ChownEnd
  <1> QED
    BY <1>2, <1>3, <1>4 DEF FtsNext

\* Either the program walks and the walk is sound, or there is no walk.
WalkInv == FtsIdle \/ (FtsOK /\ OwnInv)

\* The programs start with it.
LEMMA WalkInit ==
  ASSUME CoreInit
  PROVE  WalkInv
  BY FtsInitOK, OwnInit DEF CoreInit, WalkInv

\* Every step of a program keeps it.
LEMMA WalkNext ==
  ASSUME WalkInv, [CoreNext]_<<vars, mkvars>>
  PROVE  WalkInv'
  <1>1. CASE UNCHANGED vars
    <2>1. FtsIdle => FtsIdle'
      BY <1>1 DEF FtsIdle, vars
    <2>2. FtsOK => FtsOK'
      BY <1>1 DEF vars, FtsOK, FsOK, TypedOK, Sound, OpenDirs, Dirs, StackOK, Based, Full, PcOK, NoChdir, ArgsOK
    <2>3. FtsOK /\ OwnInv => OwnInv'
      <3>1. FtsOK => At(sp, cur)' = At(sp, cur) /\ cur' = cur
        BY <1>1, AtKept DEF vars, FtsOK
      <3>2. OwnInv => log' \in LogSet /\ (\A r \in log'.removed : r.ino \in DOMAIN fs') /\ FromRespected' /\ DotParsed'
        BY <1>1 DEF vars, OwnInv, FromRespected, DotParsed, opt
      <3>3. FtsOK /\ Asking => Asking'
        BY <1>1, <3>1 DEF vars, Asking, Open, write_protected
      <3>4. Protective' => Protective
        BY <1>1 DEF vars, Protective, IsRm, Quiet, ChecksProtection
      <3> QED
        BY <3>2, <3>3, <3>4 DEF OwnInv
    <2> QED
      BY <2>1, <2>2, <2>3 DEF WalkInv
  <1>2. CASE FtsNext
    BY <1>2, IdleStays, FtsNextOK, OwnNext DEF WalkInv
  <1> QED
    BY <1>1, <1>2 DEF CoreNext

\* rm asks before it removes a protected file, the file whose owner chown
\* --from changes through a descriptor is the one it has seen, and owned by
\* whom it was told, and a dot separates only if the whole is no name.
THEOREM OwnersCorrect == CoreSpec => []OwnersRight
  <1>1. CoreInit => WalkInv
    BY WalkInit
  <1>2. WalkInv /\ [CoreNext]_<<vars, mkvars>> => WalkInv'
    BY WalkNext
  <1>3. WalkInv => OwnersRight
    <2>1. FtsIdle => OwnersRight
      BY DEF FtsIdle, NoLog, OwnersRight, AsksIfProtected, FromRespected, DotIsLastResort, IsRm
    <2> QED
      BY <2>1, OwnersHold DEF WalkInv, OwnersRight
  <1> QED
    BY <1>1, <1>2, <1>3, PTL DEF CoreSpec

-----------------------------------------------------------------------------
(* Descriptors.                                                             *)

\* As many descriptors are open as there are holders.
One(fd) == IF fd >= 0 THEN {fd} ELSE {}

\* A descriptor that is not -1 is one number.
LEMMA OneFacts ==
  ASSUME NEW fd \in Int
  PROVE  IsFiniteSet(One(fd)) /\ Cardinality(One(fd)) = (IF fd >= 0 THEN 1 ELSE 0)
  <1>1. CASE fd >= 0
    <2>1. One(fd) = {fd}
      BY <1>1 DEF One
    <2>2. IsFiniteSet({fd}) /\ Cardinality({fd}) = 1
      BY FS_Singleton
    <2> QED
      BY <1>1, <2>1, <2>2
  <1>2. CASE ~(fd >= 0)
    <2>1. One(fd) = {}
      BY <1>2 DEF One
    <2>2. IsFiniteSet({}) /\ Cardinality({}) = 0
      BY FS_EmptySet
    <2> QED
      BY <1>2, <2>1, <2>2
  <1> QED
    BY <1>1, <1>2

\* Two finite sets without a common element have as many as both together.
LEMMA ApartFacts ==
  ASSUME NEW S, NEW T, IsFiniteSet(S), IsFiniteSet(T), S \cap T = {}
  PROVE  IsFiniteSet(S \cup T) /\ Cardinality(S \cup T) = Cardinality(S) + Cardinality(T)
  <1>1. IsFiniteSet(S \cup T) /\ Cardinality(S \cup T) = Cardinality(S) + Cardinality(T) - Cardinality(S \cap T)
    BY FS_Union
  <1>2. Cardinality(S \cap T) = 0
    BY FS_EmptySet
  <1>3. Cardinality(S) \in Nat /\ Cardinality(T) \in Nat
    BY FS_CardinalityType
  <1> QED
    BY <1>1, <1>2, <1>3

\* As many descriptors are open as the ring, the stream and the program hold.
LEMMA HeldFacts ==
  ASSUME NEW cwd \in Int, NEW dirp \in Int, NEW own \in Int, NEW data \in [Slots -> Int], NEW open, Exact(cwd, dirp, own, data, open)
  PROVE  Cardinality(open) = Cardinality({i \in Slots : data[i] >= 0}) + (IF cwd >= 0 THEN 1 ELSE 0)
                               + (IF dirp >= 0 THEN 1 ELSE 0) + (IF own >= 0 THEN 1 ELSE 0)
  <1> DEFINE F == {i \in Slots : data[i] >= 0}
             R == {data[i] : i \in F}
             f == [i \in F |-> data[i]]
  <1>1. /\ \A fd \in {cwd, dirp, own} \cup {data[i] : i \in Slots} : fd >= 0 => fd \in open
        /\ \A fd \in open : fd >= 0 /\ (fd \in {cwd, dirp, own} \/ \E i \in Slots : data[i] = fd)
        /\ \A i, j \in Slots : data[i] >= 0 /\ data[i] = data[j] => i = j
        /\ cwd >= 0 => cwd # dirp /\ cwd # own /\ \A i \in Slots : data[i] # cwd
        /\ dirp >= 0 => dirp # own /\ \A i \in Slots : data[i] # dirp
        /\ own >= 0 => \A i \in Slots : data[i] # own
    BY DEF Exact
  <1>2. IsFiniteSet(F)
    BY SlotFacts, FS_Subset
  <1>3. IsFiniteSet(R) /\ Cardinality(R) = Cardinality(F)
    <2>1. f \in Surjection(F, R)
      BY DEF Surjection
    <2>2. \A i, j \in F : f[i] = f[j] => i = j
      BY <1>1
    <2>3. f \in Injection(F, R)
      BY <2>1, <2>2 DEF Surjection, Injection, IsInjective
    <2> HIDE DEF F, R, f
    <2> QED
      BY <1>2, <2>1, <2>3, FS_Surjection
  <1>4. IsFiniteSet(R \cup One(cwd)) /\ Cardinality(R \cup One(cwd)) = Cardinality(R) + Cardinality(One(cwd))
    <2>1. R \cap One(cwd) = {}
      BY <1>1 DEF One
    <2> HIDE DEF R
    <2> QED
      BY <1>3, <2>1, OneFacts, ApartFacts
  <1>5. IsFiniteSet(R \cup One(cwd) \cup One(dirp))
        /\ Cardinality(R \cup One(cwd) \cup One(dirp)) = Cardinality(R \cup One(cwd)) + Cardinality(One(dirp))
    <2>1. (R \cup One(cwd)) \cap One(dirp) = {}
      BY <1>1 DEF One
    <2> HIDE DEF R
    <2> QED
      BY <1>4, <2>1, OneFacts, ApartFacts
  <1>6. Cardinality(R \cup One(cwd) \cup One(dirp) \cup One(own)) = Cardinality(R \cup One(cwd) \cup One(dirp)) + Cardinality(One(own))
    <2>1. (R \cup One(cwd) \cup One(dirp)) \cap One(own) = {}
      BY <1>1 DEF One
    <2> HIDE DEF R
    <2> QED
      BY <1>5, <2>1, OneFacts, ApartFacts
  <1>7. open = R \cup One(cwd) \cup One(dirp) \cup One(own)
    <2>1. \A fd \in open : fd \in R \cup One(cwd) \cup One(dirp) \cup One(own)
      BY <1>1 DEF One
    <2>2. R \subseteq open /\ One(cwd) \subseteq open /\ One(dirp) \subseteq open /\ One(own) \subseteq open
      BY <1>1 DEF One
    <2> HIDE DEF R
    <2> QED
      BY <2>1, <2>2
  <1> HIDE DEF F, R
  <1>8. Cardinality(F) \in Nat
    BY <1>2, FS_CardinalityType
  <1> QED
    BY <1>3, <1>4, <1>5, <1>6, <1>7, <1>8, OneFacts DEF F

\* A sound walk has the type the runs check, and exactly the descriptors it accounts for.
LEMMA SoundDescriptors ==
  ASSUME FtsOK
  PROVE  FtsTypeOK /\ DescriptorsExact
  <1>1. TypedOK /\ Sound(sp, fds, cmd.fd) /\ Based(stack) /\ PcOK
    BY DEF FtsOK, StackOK
  <1>2. sp \in Streams /\ Exact(sp.cwd, sp.dirp, cmd.fd, sp.ring.data, DOMAIN fds) /\ cmd.fd \in Int
    BY <1>1 DEF Sound, TypedOK, CmdSet
  <1>3. sp.cwd \in Int /\ sp.dirp \in Int /\ sp.ring \in Rings
    BY <1>2 DEF Streams
  <1>4. sp.ring.data \in [Slots -> Int] /\ sp.ring.front \in Slots /\ sp.ring.back \in Slots
    BY <1>3 DEF Rings
  <1>5. FtsTypeOK
    <2>1. \A l \in DOMAIN stack : \A k \in DOMAIN stack[l] : stack[l][k].info \in Infos /\ stack[l][k].dirs \in Nat
      <3>1. Levels(stack)
        BY <1>1 DEF Based
      <3>2. DOMAIN stack = 1..Len(stack)
        BY <3>1 DEF Levels
      <3> SUFFICES ASSUME NEW l \in 1..Len(stack), NEW k \in DOMAIN stack[l]
                   PROVE  stack[l][k].info \in Infos /\ stack[l][k].dirs \in Nat
        BY <3>2
      <3> DEFINE level == stack[l]
      <3>3. level \in Seq(EntrySet) /\ (\A j \in 1..Len(level) : level[j] \in EntrySet)
        BY <3>1, LevelFacts
      <3>4. DOMAIN level = 1..Len(level)
        BY <3>3
      <3>5. level[k] \in EntrySet
        BY <3>3, <3>4
      <3> HIDE DEF level
      <3>6. level[k].info \in Infos /\ level[k].dirs \in Nat
        BY <3>5 DEF EntrySet
      <3> QED
        BY <3>6 DEF level
    <2>2. pc \in Pcs /\ faults \in 0..MaxFaults /\ cmd.exit \in {NONE, 0, 1} /\ cmd.status \in {"OK", "DECLINED", "ERROR"}
      BY <1>1 DEF TypedOK, CmdSet
    <2> QED
      BY <1>4, <2>1, <2>2 DEF FtsTypeOK, Pcs, Before, Current
  <1>6. DescriptorsExact
    <2>1. {fd \in Held : fd >= 0} = DOMAIN fds
      <3> DEFINE data == sp.ring.data
                 open == DOMAIN fds
      <3>1. Held = {sp.cwd, sp.dirp, cmd.fd} \cup {data[i] : i \in Slots}
        BY <1>4 DEF Held, Range
      <3> HIDE DEF data, open
      <3>2. /\ \A fd \in {sp.cwd, sp.dirp, cmd.fd} \cup {data[i] : i \in Slots} : fd >= 0 => fd \in open
            /\ \A fd \in open : fd >= 0 /\ (fd \in {sp.cwd, sp.dirp, cmd.fd} \/ \E i \in Slots : data[i] = fd)
        BY <1>2 DEF Exact, data, open
      <3>3. {fd \in Held : fd >= 0} = open
        BY <3>1, <3>2
      <3> QED
        BY <3>3 DEF open
    <2>2. Cardinality(DOMAIN fds) = Cardinality({i \in Slots : sp.ring.data[i] >= 0}) + (IF sp.cwd >= 0 THEN 1 ELSE 0)
                            + (IF sp.dirp >= 0 THEN 1 ELSE 0) + (IF cmd.fd >= 0 THEN 1 ELSE 0)
      BY <1>2, <1>3, <1>4, HeldFacts
    <2>3. pc = "exit" => DOMAIN fds = {}
      BY <1>1 DEF PcOK
    <2> QED
      BY <2>1, <2>2, <2>3 DEF DescriptorsExact
  <1> QED
    BY <1>5, <1>6

\* A program that does not walk has nothing open.
LEMMA IdleDescriptors ==
  ASSUME FtsIdle
  PROVE  FtsTypeOK /\ DescriptorsExact
  <1>1. pc = "exit" /\ faults = 0 /\ sp = NoStream /\ fds = <<>> /\ stack = <<>> /\ cmd = NoCmd
    BY DEF FtsIdle
  <1>2. sp.cwd = -100 /\ sp.dirp = -1 /\ cmd.fd = -1 /\ sp.ring.front = 0 /\ sp.ring.back = 0 /\ sp.ring.data = [i \in Slots |-> -1]
        /\ cmd.exit = NONE /\ cmd.status = "OK"
    BY <1>1 DEF NoStream, NoCmd, i_ring_init, NONE, AT_FDCWD
  <1>3. DOMAIN fds = {} /\ DOMAIN stack = {}
    BY <1>1
  <1>4. FtsTypeOK
    BY <1>1, <1>2, <1>3, SlotFacts, FtsAssumption DEF FtsTypeOK, NONE
  <1>5. Exact(sp.cwd, sp.dirp, cmd.fd, sp.ring.data, DOMAIN fds)
    BY <1>2, <1>3, SlotFacts DEF Exact
  <1>6. {fd \in Held : fd >= 0} = {}
    BY <1>2 DEF Held, Range
  <1>7. sp.cwd \in Int /\ sp.dirp \in Int /\ cmd.fd \in Int /\ sp.ring.data \in [Slots -> Int]
    BY <1>2
  <1>8. Cardinality(DOMAIN fds) = Cardinality({i \in Slots : sp.ring.data[i] >= 0}) + (IF sp.cwd >= 0 THEN 1 ELSE 0)
                            + (IF sp.dirp >= 0 THEN 1 ELSE 0) + (IF cmd.fd >= 0 THEN 1 ELSE 0)
    BY <1>5, <1>7, HeldFacts
  <1>9. DescriptorsExact
    BY <1>3, <1>6, <1>8 DEF DescriptorsExact
  <1> QED
    BY <1>4, <1>9

\* Either mkdir or one of the others runs and its state is sound, or none does.
MakeInv == MkIdle \/ MkOK

\* A process that only stands for a program that is not run.
LEMMA MkIdleFacts ==
  ASSUME MkIdle
  PROVE  /\ tree = <<>> /\ DOMAIN tree = {} /\ line.prog = "other" /\ line.ops = <<>> /\ line.set = Unset /\ DOMAIN hist.acted = {}
         /\ hist.lost = FALSE /\ ps.parent.pc = "exit" /\ ps.child.pc = "none" /\ ps.parent = ps["parent"] /\ ps.child = ps["child"]
         /\ ps.parent.state = "INITIAL" /\ ps.parent.status = 0 /\ ps.parent.i = 1 /\ budget.fails = 0 /\ budget.others = 0
  <1>1. /\ tree = <<>> /\ line = NoLine /\ budget = [fails |-> 0, others |-> 0]
        /\ ps = [parent |-> [Process EXCEPT !.pc = "exit"], child |-> Nobody] /\ hist = [acted |-> <<>>, lost |-> FALSE]
    BY DEF MkIdle
  <1>2. ps.parent = [Process EXCEPT !.pc = "exit"] /\ ps.child.pc = "none" /\ ps.parent = ps["parent"] /\ ps.child = ps["child"]
    BY <1>1 DEF Nobody
  <1>3. ps.parent.pc = "exit" /\ ps.parent.state = "INITIAL" /\ ps.parent.status = 0 /\ ps.parent.i = 1
    BY <1>2 DEF Process
  <1> QED
    BY <1>1, <1>2, <1>3 DEF NoLine

\* The program that is not run does nothing.
LEMMA MkIdleStays ==
  ASSUME MkIdle
  PROVE  ~MkNext
  <1>1. line.prog = "other" /\ ps.parent.pc = "exit"
    BY MkIdleFacts
  <1>2. ~Other /\ ~MainFails /\ ~mkdir_main /\ ~rmdir_main /\ ~nod_main
    BY <1>1 DEF Other, MainFails, mkdir_main, rmdir_main, nod_main
  <1>3. ~make_nods /\ ~Removal /\ ~Judge /\ ~LoopEnds
    BY <1>1 DEF make_nods, Removal, Judge, LoopEnds, Parent
  <1>4. \A p \in Both : ~Running(p)
    BY <1>1 DEF Running
  <1>5. ~KillChild
    BY <1>1 DEF KillChild, Running
  <1>6. \A p \in Both : ~MkdirStep(p)
    <2> SUFFICES ASSUME NEW p \in Both
                 PROVE  ~MkdirStep(p)
      OBVIOUS
    <2>1. ~savewd_finish(p) /\ ~ActOn(p) /\ ~Leaves(p) /\ ~savewd_restore(p)
      BY <1>4 DEF savewd_finish, ActOn, Leaves, savewd_restore
    <2>2. ~ChdirOpen(p) /\ ~savewd_save(p) /\ ~Chdir(p)
      BY <1>4 DEF ChdirOpen, savewd_save, Chdir
    <2>3. ~mkancesdirs(p) /\ ~MakeDir(p) /\ ~Existing(p) /\ ~dirchownmod(p)
      BY <1>4 DEF mkancesdirs, MakeDir, Existing, dirchownmod
    <2> QED
      BY <2>1, <2>2, <2>3 DEF MkdirStep
  <1> QED
    BY <1>2, <1>3, <1>5, <1>6 DEF MkNext, Both

\* The invariant holds at first, whichever program is run.
LEMMA MakeInit ==
  ASSUME CoreInit
  PROVE  MakeInv
  BY MkInitOK DEF CoreInit, MakeInv

\* Every step keeps it.
LEMMA MakeNext ==
  ASSUME MakeInv, [CoreNext]_<<vars, mkvars>>
  PROVE  MakeInv'
  <1>1. CASE UNCHANGED mkvars
    <2>1. MkIdle => MkIdle'
      BY <1>1 DEF MkIdle, mkvars
    <2> QED
      BY <1>1, <2>1, MkStaysOK DEF MakeInv
  <1>2. CASE MkNext
    BY <1>2, MkIdleStays, MkNextOK DEF MakeInv
  <1> QED
    BY <1>1, <1>2 DEF CoreNext

\* The descriptors that are open are those of the walk's working directory, of
\* its ring, of the directory being read and of the file that chown changes,
\* each once, and none is left at the end; a process of mkdir keeps none from
\* one operand to the next but that of the directory it goes back to.
THEOREM DescriptorsCorrect == CoreSpec => []DescriptorsRight
  <1>1. CoreInit => WalkInv /\ MakeInv
    BY WalkInit, MakeInit
  <1>2. WalkInv /\ MakeInv /\ [CoreNext]_<<vars, mkvars>> => (WalkInv /\ MakeInv)'
    BY WalkNext, MakeNext
  <1>3. WalkInv /\ MakeInv => DescriptorsRight
    <2>1. MkIdle => MkTypeOK /\ NoDescriptorKept
      <3> SUFFICES ASSUME MkIdle
                   PROVE  MkTypeOK /\ NoDescriptorKept
        OBVIOUS
      <3>1. Len(line.ops) = 0
        BY MkIdleFacts
      <3>2. /\ DOMAIN tree = {} /\ line.prog # "mkdir" /\ hist.lost = FALSE /\ ps["parent"].pc = "exit" /\ ps["child"].pc = "none"
            /\ ps["parent"].state = "INITIAL" /\ ps["parent"].status = 0 /\ ps["parent"].i = 1
            /\ budget.fails = 0 /\ budget.others = 0
        BY MkIdleFacts
      <3>3. budget.fails \in 0..MaxFails /\ budget.others \in 0..MaxOthers /\ hist.lost \in BOOLEAN
        <4>1. MaxFails \in Nat /\ MaxOthers \in Nat
          BY MakeDirsAssumption
        <4>2. budget.fails \in 0..MaxFails /\ budget.others \in 0..MaxOthers
          BY <3>2, <4>1
        <4>3. hist.lost \in BOOLEAN
          BY <3>2
        <4> QED
          BY <4>2, <4>3
      <3>4. MkTypeOK
        BY <3>1, <3>2, <3>3 DEF MkTypeOK
      <3> QED
        BY <3>2, <3>4 DEF NoDescriptorKept
    <2> QED
      BY <2>1, SoundDescriptors, IdleDescriptors, MkOKIsType DEF WalkInv, MakeInv, DescriptorsRight
  <1> QED
    BY <1>1, <1>2, <1>3, PTL DEF CoreSpec

-----------------------------------------------------------------------------
(* mkdir and the child that stands in for it.                               *)

\* The relative operands after one.
Later(i) == {k \in 1..Len(line.ops) : k > i /\ ~line.ops[k].abs}

\* The last relative operand is one, and there is none after it.
LEMMA LastFacts ==
  ASSUME LineOK
  PROVE  /\ Len(line.ops) \in Nat /\ LastRelative \in 0..Len(line.ops) /\ (LastRelative # 0 => ~line.ops[LastRelative].abs)
         /\ \A k \in 1..Len(line.ops) : ~line.ops[k].abs => k <= LastRelative
  <1>1. Len(line.ops) \in Nat /\ DOMAIN line.ops = 1..Len(line.ops)
    BY DEF LineOK
  <1> DEFINE N == Len(line.ops)
             R == {k \in 1..N : ~line.ops[k].abs}
  <1>2. LastRelative = MaxOf(R)
    BY <1>1 DEF LastRelative
  <1>3. CASE R = {}
    BY <1>1, <1>2, <1>3 DEF MaxOf
  <1>4. CASE R # {}
    <2>1. R \subseteq 1..N /\ N \in Nat
      BY <1>1
    <2> HIDE DEF N
    <2>2. \E x \in R : \A y \in R : x >= y
      <3> HIDE DEF R
      <3> DEFINE D == {d \in 0..N : N - d \in R}
      <3>1. D \subseteq Nat /\ D # {}
        <4>1. PICK x \in R : TRUE
          BY <1>4
        <4>2. N - x \in 0..N /\ N - (N - x) = x
          BY <2>1, <4>1
        <4>3. N - x \in D
          BY <4>1, <4>2
        <4> QED
          BY <4>3
      <3>2. PICK d \in D : \A e \in D : ~(e < d)
        <4> HIDE DEF D
        <4> QED
          BY <3>1, LeastNumber
      <3>3. \A y \in R : N - y \in D
        BY <2>1
      <3>4. ASSUME NEW y \in R
            PROVE  N - d >= y
        <4>1. N - y \in D /\ ~(N - y < d) /\ y \in Int /\ d \in Int
          BY <2>1, <3>2, <3>3
        <4> HIDE DEF D
        <4> QED
          BY <2>1, <4>1
      <3> QED
        BY <3>2, <3>4
    <2>3. MaxOf(R) \in R /\ \A y \in R : MaxOf(R) >= y
      <3> HIDE DEF R
      <3> QED
        BY <1>4, <2>2 DEF MaxOf, Max
    <2>4. LastRelative \in R /\ \A y \in R : LastRelative >= y
      BY <1>2, <2>3
    <2> HIDE DEF LastRelative
    <2> QED
      BY <1>1, <2>4 DEF N
  <1> QED
    BY <1>3, <1>4

\* If the next operand is absolute, another relative one is to come; if it is
\* relative, it is the first to come.
LEMMA LaterFacts ==
  ASSUME LineOK, NEW me, me.i \in 1..(Len(line.ops) + 1), me.i < LastRelative
  PROVE  /\ ~Restores(me) => me.i + 1 < LastRelative /\ Later(me.i + 1) = Later(me.i)
         /\ Restores(me) => me.i + 1 \in Later(me.i)
         /\ me.i + 1 \in 1..Len(line.ops)
  <1>1. /\ Len(line.ops) \in Nat /\ LastRelative \in 0..Len(line.ops) /\ (LastRelative # 0 => ~line.ops[LastRelative].abs)
        /\ \A k \in 1..Len(line.ops) : ~line.ops[k].abs => k <= LastRelative
    BY LastFacts
  <1> DEFINE N == Len(line.ops)
             L == LastRelative
             i == me.i
  <1>2. N \in Nat /\ L \in 0..N /\ i \in 1..(N + 1) /\ i < L
    BY <1>1
  <1> HIDE DEF L, N, i, LastRelative
  <1>3. L # 0 /\ i + 1 <= L /\ i + 1 \in 1..N /\ i + 1 > i
    BY <1>2
  <1>4. ~line.ops[L].abs
    BY <1>1, <1>3 DEF L
  <1>5. ~Restores(me) => line.ops[i + 1].abs
    BY <1>2 DEF Restores, L, i
  <1>6. ~Restores(me) => i + 1 < L
    BY <1>2, <1>3, <1>4, <1>5
  <1>7. ~Restores(me) => Later(i + 1) = Later(i)
    <2>1. ASSUME NEW k \in 1..N, k > i, k # i + 1
          PROVE  k > i + 1
      BY <1>2, <2>1
    <2> QED
      BY <1>2, <1>5, <2>1 DEF Later, N
  <1>8. Restores(me) => i + 1 \in Later(i)
    BY <1>3 DEF Restores, Later, N, i
  <1> QED
    BY <1>3, <1>6, <1>7, <1>8 DEF L, N, i

\* What a step of a process does to its place in the list of operands.
Turn(me) == me.i < LastRelative \/ me.state = "FINAL"
Alike(me, n) == n.i = me.i /\ n.child = me.child /\ n.state = me.state
Scored(me) == hist'.acted = [hist.acted EXCEPT ![me.i] = hist.acted[me.i] + 1]
Finishes(me, n) ==
  me.pc = "next" /\ n.pc = "next" /\ me.i >= LastRelative /\ n.state = "FINAL" /\ n.i = me.i /\ n.child = me.child
Begins(me, n) == me.pc = "next" /\ n.pc \in {"ancestor", "mkdir"} /\ Turn(me) /\ ~Delegating(me) /\ Alike(me, n)
Skips(me, n) == me.pc = "next" /\ n.pc = "restore" /\ Turn(me) /\ Delegating(me) /\ Alike(me, n)
Works(me, n) ==
  /\ me.pc \in Busy /\ n.pc \in Busy /\ n.i = me.i
  /\ \/ n.child = me.child /\ n.state = me.state
     \/ n.child = me.child /\ me.state \in {"INITIAL", "FD"} /\ n.state \in {"FD", "FDPOST"}
     \/ (me.state = "INITIAL" \/ (me.state = "FORKING" /\ me.child = "none")) /\ n.state = "ERROR" /\ n.child = "none"
Passes(me, n) ==
  /\ me.pc = "restore" /\ n.pc = "next" /\ n.i = me.i + 1 /\ n.child = me.child
  /\ \/ n.state = me.state /\ (~Restores(me) \/ me.state # "FORKING" \/ me.child = "none")
     \/ me.state = "FDPOST" /\ n.state \in {"FD", "ERROR"}
Retires(me, n) ==
  me.pc = "restore" /\ n.pc = "exit" /\ Restores(me) /\ me.state = "FORKING" /\ me.child = "self" /\ Alike(me, n)
Ends(me, n) == me.pc = "next" /\ n.pc = "exit" /\ me.i \notin 1..Len(line.ops) /\ me.state = "FINAL" /\ Alike(me, n)
Dies(me, n) == n.pc = "killed" /\ Alike(me, n)
Acts(me, n) ==
  /\ me.pc \in Busy \cup {"next"} /\ n.pc = "restore" /\ me.i \in 1..Len(line.ops) /\ Alike(me, n)
  /\ me.pc = "next" => Turn(me) /\ ~Delegating(me)
Moves(me, n) ==
  /\ n.status \in {me.status, 1}
  /\ \/ Acts(me, n) /\ Scored(me)
     \/ /\ hist'.acted = hist.acted
        /\ \/ Finishes(me, n) \/ Begins(me, n) \/ Skips(me, n) \/ Works(me, n)
           \/ Passes(me, n) \/ Retires(me, n) \/ Ends(me, n) \/ Dies(me, n)

\* The parent waits for its child before the next relative operand, and the
\* child exits before it.
FamilyOK ==
  /\ ps.child.pc # "none" =>
       /\ ps.parent.state = "FORKING" /\ ps.parent.child = "child" /\ ps.parent.pc \in {"next", "restore"} /\ ps.parent.i < LastRelative
       /\ ps.child.state = "FORKING" /\ ps.child.child = "self" /\ ps.child.i < LastRelative
       /\ Later(ps.parent.i) = Later(ps.child.i)
       /\ ps.child.pc = "exit" => Restores(ps.child)
  /\ ps.child.pc = "none" /\ ps.parent.pc # "killed" => ps.parent.child # "child"
  /\ ps.parent.child # "self"
  /\ ps.parent.pc \in Busy \cup {"restore"} => Turn(ps.parent)

\* The operands before the one in hand have been dealt with, by the process that
\* works.
Upto(n) == [k \in 1..Len(line.ops) |-> IF k < n THEN 1 ELSE 0]
Progress(me) == IF me.pc \in {"restore", "exit"} THEN me.i + 1 ELSE me.i
Worker == IF ps.child.pc = "none" THEN ps.parent ELSE ps.child
Tallied(me) ==
  /\ me.pc \in Active => hist.acted = Upto(Progress(me))
  /\ me.pc = "exit" => hist.acted = Upto(me.i + 1)
  /\ me.pc = "killed" => \A k \in 1..Len(line.ops) : hist.acted[k] <= 1
CountOK ==
  /\ ps.parent.pc = "main" => hist.acted = Upto(1) /\ ps.parent.i = 1
  /\ line.set # Unset => Tallied(Worker) /\ (ps.parent.pc = "exit" => ps.parent.i = Len(line.ops) + 1)
  /\ \A k \in 1..Len(line.ops) : hist.acted[k] <= 1

\* Dealing with the next operand.
LEMMA UptoFacts ==
  ASSUME Len(line.ops) \in Nat, NEW i \in 1..Len(line.ops), hist.acted = Upto(i)
  PROVE  [hist.acted EXCEPT ![i] = hist.acted[i] + 1] = Upto(i + 1)
  <1> DEFINE N == Len(line.ops)
             a == [hist.acted EXCEPT ![i] = hist.acted[i] + 1]
  <1>1. DOMAIN a = 1..N /\ DOMAIN Upto(i + 1) = 1..N
    BY DEF Upto
  <1>2. ASSUME NEW k \in 1..N
        PROVE  a[k] = Upto(i + 1)[k]
    BY DEF Upto
  <1>3. a = [k \in 1..N |-> a[k]] /\ Upto(i + 1) = [k \in 1..N |-> Upto(i + 1)[k]]
    BY <1>1 DEF Upto
  <1> HIDE DEF a
  <1> QED
    BY <1>2, <1>3 DEF a

\* The process that works counts on.
LEMMA CountsOn ==
  ASSUME MkOK, NEW me, NEW n, Good(me, tree), me.pc \in Active, ~Delegating(me), Tallied(me), Moves(me, n), line' = line
  PROVE  /\ n.pc \in Active => hist'.acted = Upto(Progress(n))
         /\ n.pc = "exit" => hist'.acted = Upto(n.i + 1)
         /\ n.pc \in {"killed", "exit"} => hist'.acted = hist.acted
         /\ \A k \in 1..Len(line.ops) : hist'.acted[k] <= 1
  <1>1. Len(line.ops) \in Nat /\ me.i \in 1..(Len(line.ops) + 1) /\ hist.acted = Upto(Progress(me))
        /\ (me.pc \in Busy \cup {"restore"} => me.i \in 1..Len(line.ops))
    BY DEF MkOK, LineOK, Good, Tallied
  <1>2. /\ n.pc \in Active => hist'.acted = Upto(Progress(n))
        /\ n.pc = "exit" => hist'.acted = Upto(n.i + 1)
        /\ n.pc \in {"killed", "exit"} => hist'.acted = hist.acted
        /\ \E m \in Nat : hist'.acted = Upto(m)
    <2>1. CASE Acts(me, n) /\ Scored(me)
      <3>1. Progress(me) = me.i /\ n.pc = "restore" /\ n.i = me.i /\ Progress(n) = me.i + 1 /\ me.i \in 1..Len(line.ops)
        BY <2>1 DEF Acts, Alike, Progress, Busy
      <3>2. hist'.acted = Upto(me.i + 1)
        BY <1>1, <2>1, <3>1, UptoFacts DEF Scored
      <3> QED
        BY <1>1, <3>1, <3>2
    <2>2. CASE hist'.acted = hist.acted
      <3>1. Progress(me) \in Nat
        BY <1>1 DEF Progress
      <3>2. CASE Finishes(me, n) \/ Begins(me, n) \/ Works(me, n) \/ Passes(me, n)
        <4>1. Progress(n) = Progress(me) /\ n.pc \notin {"exit", "killed"}
          BY <1>1, <3>2 DEF Finishes, Begins, Works, Passes, Progress, Alike, Busy
        <4> QED
          BY <1>1, <2>2, <3>1, <4>1
      <3>3. CASE Retires(me, n)
        BY <1>1, <2>2, <3>1, <3>3 DEF Retires, Alike, Progress, Active, Busy
      <3>4. CASE Ends(me, n)
        <4>1. n.pc = "exit" /\ me.i = Len(line.ops) + 1 /\ n.i = me.i /\ Progress(me) = me.i
          BY <1>1, <3>4 DEF Ends, Alike, Progress
        <4>2. Upto(Len(line.ops) + 1) = Upto(Len(line.ops) + 1 + 1)
          BY <1>1 DEF Upto
        <4> QED
          BY <1>1, <2>2, <3>1, <4>1, <4>2 DEF Active, Busy
      <3>5. CASE Dies(me, n)
        BY <1>1, <2>2, <3>1, <3>5 DEF Dies, Active, Busy
      <3>6. CASE Skips(me, n)
        BY <3>6 DEF Skips
      <3> QED
        BY <2>1, <3>2, <3>3, <3>4, <3>5, <3>6 DEF Moves
    <2> QED
      BY <2>1, <2>2 DEF Moves
  <1>3. \A k \in 1..Len(line.ops) : hist'.acted[k] <= 1
    BY <1>2 DEF Upto
  <1> QED
    BY <1>2, <1>3

\* A step of one process keeps the two in step.
LEMMA FamilyMoves ==
  ASSUME MkOK, FamilyOK, NEW p \in Both, Running(p), NEW n, Goes(p, n), Moves(ps[p], n), n.pc # "none", n.pc = "killed" => p = "child", line' = line
  PROVE  FamilyOK'
  <1> DEFINE me == ps[p]
  <1>1. Good(me, tree) /\ me.pc \in Active /\ LineOK /\ ProcsOK /\ Len(line.ops) \in Nat /\ me.i \in 1..(Len(line.ops) + 1)
        /\ (me.pc \in Busy \cup {"restore", "judge"} => me.i \in 1..Len(line.ops))
    BY RunningFacts DEF MkOK, Good
  <1>2. DOMAIN ps = Both /\ DOMAIN ps' = Both /\ ps'[p] = n /\ \A q \in Both : q # p => ps'[q] = ps[q]
    BY <1>1, GoesFacts DEF ProcsOK
  <1>3. LastRelative' = LastRelative /\ \A i : Later(i)' = Later(i)
    BY DEF LastRelative, Later
  <1>4. LastRelative \in 0..Len(line.ops)
    BY <1>1, LastFacts
  <1>5. CASE p = "child"
    <2>1. me = ps.child /\ me.pc # "none" /\ me.pc \notin {"exit", "killed"} /\ ps'.parent = ps.parent /\ ps'.child = n
      BY <1>1, <1>2, <1>5 DEF Both, Active, Busy
    <2>2. /\ ps.parent.state = "FORKING" /\ ps.parent.child = "child" /\ ps.parent.pc \in {"next", "restore"} /\ ps.parent.i < LastRelative
          /\ me.state = "FORKING" /\ me.child = "self" /\ me.i < LastRelative /\ Later(ps.parent.i) = Later(me.i)
      BY <2>1 DEF FamilyOK
    <2>3. n.state = "FORKING" /\ n.child = "self" /\ n.i < LastRelative /\ Later(n.i) = Later(me.i) /\ (n.pc = "exit" => Restores(n))
      <3>1. CASE Passes(me, n)
        <4>1. ~Restores(me) /\ n.i = me.i + 1
          BY <2>2, <3>1 DEF Passes
        <4> QED
          BY <1>1, <2>2, <3>1, <4>1, LaterFacts DEF Passes
      <3>2. CASE Retires(me, n)
        BY <2>2, <3>2 DEF Retires, Alike, Restores
      <3>3. CASE Finishes(me, n) \/ Ends(me, n)
        BY <1>1, <1>4, <2>2, <3>3 DEF Finishes, Ends
      <3>4. CASE Begins(me, n) \/ Skips(me, n) \/ Works(me, n) \/ Acts(me, n) \/ Dies(me, n)
        BY <2>2, <3>4 DEF Begins, Skips, Works, Acts, Dies, Alike, Busy
      <3> QED
        BY <3>1, <3>2, <3>3, <3>4 DEF Moves
    <2>4. ps.parent.pc \in Busy \cup {"restore"} => Turn(ps.parent)
      BY DEF FamilyOK
    <2> HIDE DEF me
    <2>5. Restores(n)' = Restores(n) /\ Turn(ps.parent)' = Turn(ps.parent)
      BY <1>3, <2>1 DEF Restores, Turn
    <2>6. ps.parent.child # "self"
      BY DEF FamilyOK
    <2>7. (ps.child.pc # "none")' /\ (Restores(ps.child))' = Restores(n)
      BY <1>3, <2>1 DEF Restores
    <2> QED
      BY <1>3, <2>1, <2>2, <2>3, <2>4, <2>5, <2>6, <2>7 DEF FamilyOK
  <1>6. CASE p = "parent"
    <2>1. me = ps.parent /\ ps'.child = ps.child /\ ps'.parent = n /\ me.pc # "killed"
      BY <1>1, <1>2, <1>6 DEF Both, Active, Busy
    <2>2. ~Dies(me, n)
      BY <1>6 DEF Dies
    <2>3. n.pc \in Busy \cup {"restore"} => Turn(n)
      <3>1. me.pc \in Busy \cup {"restore"} => Turn(me)
        BY <2>1 DEF FamilyOK
      <3> HIDE DEF me
      <3>2. CASE Finishes(me, n) \/ Passes(me, n) \/ Retires(me, n) \/ Ends(me, n)
        BY <3>2 DEF Finishes, Passes, Retires, Ends, Busy
      <3>3. CASE Begins(me, n) \/ Skips(me, n) \/ Acts(me, n)
        BY <3>1, <3>3 DEF Begins, Skips, Acts, Alike, Turn
      <3>4. CASE Works(me, n)
        BY <3>1, <3>4 DEF Works, Turn
      <3> QED
        BY <2>2, <3>2, <3>3, <3>4 DEF Moves, me
    <2>4. CASE ps.child.pc # "none"
      <3>1. /\ me.state = "FORKING" /\ me.child = "child" /\ me.pc \in {"next", "restore"} /\ me.i < LastRelative
            /\ ps.child.state = "FORKING" /\ ps.child.child = "self" /\ ps.child.i < LastRelative /\ Later(me.i) = Later(ps.child.i)
            /\ (ps.child.pc = "exit" => Restores(ps.child))
        BY <2>1, <2>4 DEF FamilyOK
      <3> HIDE DEF me
      <3>2. Delegating(me)
        BY <3>1 DEF Delegating
      <3>3. n.state = "FORKING" /\ n.child = "child" /\ n.pc \in {"next", "restore"} /\ n.i < LastRelative /\ Later(n.i) = Later(me.i)
        <4>1. CASE Passes(me, n)
          <5>1. ~Restores(me) /\ n.i = me.i + 1
            BY <3>1, <4>1 DEF Passes
          <5> QED
            BY <1>1, <3>1, <4>1, <5>1, LaterFacts DEF Passes
        <4>2. CASE Finishes(me, n) \/ Ends(me, n) \/ Retires(me, n)
          BY <1>1, <1>4, <3>1, <4>2 DEF Finishes, Ends, Retires
        <4>3. CASE Begins(me, n) \/ Works(me, n) \/ Acts(me, n)
          BY <3>1, <3>2, <4>3 DEF Begins, Works, Acts, Busy
        <4>4. CASE Skips(me, n)
          BY <3>1, <4>4 DEF Skips, Alike
        <4> QED
          BY <2>2, <4>1, <4>2, <4>3, <4>4 DEF Moves, me
      <3>4. Restores(ps.child)' = Restores(ps.child) /\ Turn(ps.parent)' = Turn(n)
        BY <1>3, <2>1 DEF Restores, Turn
      <3> QED
        BY <1>3, <2>1, <2>3, <2>4, <3>1, <3>3, <3>4 DEF FamilyOK
    <2>5. CASE ps.child.pc = "none"
      <3>1. me.child \notin {"child", "self"}
        BY <2>1, <2>5 DEF FamilyOK
      <3>2. n.child \notin {"child", "self"}
        BY <2>2, <3>1 DEF Moves, Finishes, Begins, Skips, Works, Passes, Retires, Ends, Acts, Alike
      <3>3. Turn(ps.parent)' = Turn(n)
        BY <1>3, <2>1 DEF Turn
      <3> HIDE DEF me
      <3> QED
        BY <2>1, <2>3, <2>5, <3>2, <3>3 DEF FamilyOK
    <2> QED
      BY <2>4, <2>5
  <1> QED
    BY <1>5, <1>6 DEF Both

\* main() has given the mode.
LEMMA SetGiven ==
  ASSUME SetOK
  PROVE  line.set # Unset
  <1>1. line.set.umask \subseteq S_IRWXUGO
    BY DEF SetOK
  <1>2. "unset" \notin S_IRWXUGO
    BY DEF S_IRWXUGO, S_IRUGO, S_IWUGO, S_IXUGO
  <1>3. "unset" \in Unset.umask
    BY DEF Unset
  <1> QED
    BY <1>1, <1>2, <1>3

\* A step of one process counts on, if it is the one that works; a parent that has
\* a child counts nothing.
LEMMA CountMoves ==
  ASSUME MkOK, FamilyOK, CountOK, NEW p \in Both, Running(p), NEW n, Goes(p, n), Moves(ps[p], n), n.pc \notin {"none", "main"},
         n.pc = "killed" => p = "child", line' = line
  PROVE  CountOK'
  <1> DEFINE me == ps[p]
  <1>1. Good(me, tree) /\ me.pc \in Active /\ LineOK /\ ProcsOK /\ Len(line.ops) \in Nat /\ me.i \in 1..(Len(line.ops) + 1) /\ line.set # Unset
    BY RunningFacts, SetGiven DEF MkOK, Good
  <1>2. DOMAIN ps = Both /\ DOMAIN ps' = Both /\ ps'[p] = n /\ \A q \in Both : q # p => ps'[q] = ps[q]
    BY <1>1, GoesFacts DEF ProcsOK
  <1>3. \A i : Upto(i)' = Upto(i)
    BY DEF Upto
  <1>4. Tallied(Worker)
    BY <1>1 DEF CountOK
  <1>5. me.pc \notin {"none", "main", "exit", "killed"}
    BY <1>1 DEF Active, Busy
  <1>6. ASSUME me = Worker, ps'.child.pc = "none" => n = ps'.parent, ps'.child.pc # "none" => n = ps'.child,
               ~Delegating(me), ps'.parent.pc # "main", ps'.parent.pc = "exit" => ps'.parent = n /\ Ends(me, n)
        PROVE  CountOK'
    <2>1. /\ n.pc \in Active => hist'.acted = Upto(Progress(n))
          /\ n.pc = "exit" => hist'.acted = Upto(n.i + 1)
          /\ \A k \in 1..Len(line.ops) : hist'.acted[k] <= 1
      <3> HIDE DEF me
      <3> QED
        BY <1>1, <1>4, <1>6, CountsOn DEF me
    <2>2. Worker' = n
      BY <1>6 DEF Worker
    <2> HIDE DEF Worker
    <2>3. Tallied(Worker)'
      BY <1>3, <2>1, <2>2 DEF Tallied, Progress
    <2>4. ps'.parent.pc = "exit" => ps'.parent.i = Len(line.ops) + 1
      BY <1>1, <1>6 DEF Ends, Alike
    <2> QED
      BY <1>1, <1>6, <2>1, <2>3, <2>4 DEF CountOK
  <1>7. CASE p = "child"
    <2>1. me = ps.child /\ ps'.parent = ps.parent /\ ps'.child = n
      BY <1>1, <1>2, <1>7 DEF Both
    <2>2. me.child = "self" /\ ps.parent.pc \in {"next", "restore"}
      BY <1>5, <2>1 DEF FamilyOK
    <2>3. me = Worker
      BY <1>5, <2>1 DEF Worker
    <2>4. ~Delegating(me)
      BY <2>2 DEF Delegating
    <2> HIDE DEF me
    <2> QED
      BY <1>6, <2>1, <2>2, <2>3, <2>4
  <1>8. CASE p = "parent" /\ ps.child.pc = "none"
    <2>1. me = ps.parent /\ ps'.child = ps.child /\ ps'.parent = n /\ me = Worker
      BY <1>1, <1>2, <1>8 DEF Both, Worker
    <2>2. me.child \notin {"child", "self"}
      BY <1>5, <1>8, <2>1 DEF FamilyOK
    <2>3. n.pc = "exit" => Ends(me, n)
      BY <2>2 DEF Moves, Finishes, Begins, Skips, Works, Passes, Retires, Acts, Dies, Busy
    <2>4. ~Delegating(me)
      BY <2>2 DEF Delegating
    <2> HIDE DEF me
    <2> QED
      BY <1>6, <1>8, <2>1, <2>3, <2>4
  <1>9. CASE p = "parent" /\ ps.child.pc # "none"
    <2>1. me = ps.parent /\ ps'.child = ps.child /\ ps'.parent = n
      BY <1>1, <1>2, <1>9 DEF Both
    <2>2. me.pc \in {"next", "restore"} /\ Delegating(me)
      BY <1>9, <2>1 DEF FamilyOK, Delegating
    <2>3. FamilyOK'
      BY FamilyMoves
    <2>4. n.pc \in {"next", "restore"}
      BY <1>9, <2>1, <2>3 DEF FamilyOK
    <2>5. hist'.acted = hist.acted
      <3> HIDE DEF me
      <3> QED
        BY <2>2 DEF Moves, Acts, Busy, me
    <2>6. Worker' = Worker
      BY <1>9, <2>1 DEF Worker
    <2> HIDE DEF Worker, me
    <2>7. Tallied(Worker)'
      BY <1>3, <1>4, <2>5, <2>6 DEF Tallied, Progress
    <2> QED
      BY <1>1, <2>1, <2>4, <2>5, <2>7 DEF CountOK
  <1> QED
    BY <1>7, <1>8, <1>9 DEF Both

\* A step of both: the parent leaves its operand to a child, takes its exit
\* status, or dies of its signal.
Forks(a, b) ==
  /\ ps' = [parent |-> a, child |-> b] /\ Running("parent") /\ ps.parent.pc \in Busy /\ ps.child.pc = "none"
  /\ ps.parent.state \in {"INITIAL", "FORKING"}
  /\ a.pc = "restore" /\ a.i = ps.parent.i /\ a.state = "FORKING" /\ a.child = "child"
  /\ b.pc \in Busy /\ b.i = ps.parent.i /\ b.state = "FORKING" /\ b.child = "self"
Reaps(a) ==
  /\ ps' = [parent |-> a, child |-> Nobody] /\ Running("parent") /\ ps.parent.pc = "restore" /\ ps.child.pc = "exit"
  /\ Restores(ps.parent) /\ a.pc = "next" /\ a.i = ps.parent.i + 1 /\ a.child = "none"
Raises(a) ==
  /\ ps' = [parent |-> a, child |-> Nobody] /\ Running("parent") /\ ps.child.pc = "killed"
  /\ a.pc = "killed" /\ a.child # "self"

\* Each of them keeps the two in step.
LEMMA FamilyPair ==
  ASSUME MkOK, FamilyOK, CountOK, NEW a, NEW b, Forks(a, b) \/ Reaps(a) \/ Raises(a), line' = line, hist'.acted = hist.acted
  PROVE  FamilyOK' /\ CountOK'
  <1>1. Running("parent") /\ "parent" \in Both /\ DOMAIN ps = Both
    BY DEF Forks, Reaps, Raises, Both, MkOK, ProcsOK
  <1>2. Good(ps.parent, tree) /\ ps.parent.pc \in Active /\ LineOK /\ ProcsOK /\ Len(line.ops) \in Nat
        /\ ps.parent.i \in 1..(Len(line.ops) + 1) /\ line.set # Unset /\ LastRelative \in 0..Len(line.ops)
    <2>1. ps["parent"] = ps.parent
      OBVIOUS
    <2> QED
      BY <1>1, <2>1, RunningFacts, SetGiven, LastFacts DEF MkOK, Good
  <1>3. LastRelative' = LastRelative /\ \A i : Later(i)' = Later(i) /\ Upto(i)' = Upto(i)
    BY DEF LastRelative, Later, Upto
  <1>4. Tallied(Worker) /\ \A k \in 1..Len(line.ops) : hist.acted[k] <= 1
    BY <1>2 DEF CountOK
  <1>5. ps.parent.pc \notin {"none", "main", "exit", "killed"} /\ Nobody.pc = "none"
    BY <1>2 DEF Active, Busy, Nobody
  <1>6. CASE Forks(a, b)
    <2>1. /\ ps' = [parent |-> a, child |-> b] /\ ps.parent.pc \in Busy /\ ps.child.pc = "none"
                      /\ ps.parent.state \in {"INITIAL", "FORKING"}
                      /\ a.pc = "restore" /\ a.i = ps.parent.i /\ a.state = "FORKING" /\ a.child = "child"
                      /\ b.pc \in Busy /\ b.i = ps.parent.i /\ b.state = "FORKING" /\ b.child = "self"
      BY <1>6 DEF Forks
    <2>2. ps'.parent = a /\ ps'.child = b /\ b.pc \notin {"none", "exit", "killed"} /\ b.pc \in Active
      BY <2>1 DEF Busy, Active
    <2>3. ps.parent.i < LastRelative
      BY <2>1 DEF FamilyOK, Turn
    <2>4. Turn(ps.parent)'
      BY <1>3, <2>1, <2>2, <2>3 DEF Turn
    <2>5. FamilyOK'
      BY <1>3, <2>1, <2>2, <2>3, <2>4 DEF FamilyOK
    <2>6. Worker = ps.parent /\ Worker' = b
      BY <2>1, <2>2 DEF Worker
    <2>7. hist.acted = Upto(ps.parent.i)
      BY <1>2, <1>4, <2>1, <2>6 DEF Tallied, Progress, Busy
    <2>8. Tallied(Worker)'
      <3> HIDE DEF Worker
      <3> QED
        BY <1>3, <2>1, <2>2, <2>6, <2>7 DEF Tallied, Progress, Busy
    <2>9. CountOK'
      BY <1>4, <2>1, <2>2, <2>8 DEF CountOK
    <2> QED
      BY <2>5, <2>9
  <1>7. CASE Reaps(a)
    <2>1. /\ ps' = [parent |-> a, child |-> Nobody] /\ ps.parent.pc = "restore" /\ ps.child.pc = "exit"
                   /\ Restores(ps.parent) /\ a.pc = "next" /\ a.i = ps.parent.i + 1 /\ a.child = "none"
      BY <1>7 DEF Reaps
    <2>2. ps'.parent = a /\ ps'.child = Nobody
      BY <2>1
    <2>3. FamilyOK'
      BY <1>5, <2>1, <2>2 DEF FamilyOK, Busy
    <2>4. Worker = ps.child /\ Worker' = a
      BY <1>5, <2>1, <2>2 DEF Worker
    <2>5. ps.parent.i < LastRelative /\ ps.child.i < LastRelative /\ Later(ps.parent.i) = Later(ps.child.i) /\ Restores(ps.child)
      BY <2>1 DEF FamilyOK
    <2>6. Good(ps.child, tree)
      BY <1>2, <2>1 DEF ProcsOK, Both
    <2>7. ps.child.i \in 1..(Len(line.ops) + 1)
      BY <2>6 DEF Good
    <2>8. ps.parent.i + 1 \in Later(ps.parent.i) /\ ps.child.i + 1 \in Later(ps.child.i)
      BY <1>2, <2>1, <2>5, <2>7, LaterFacts
    <2>9. ps.parent.i = ps.child.i
      <3>1. ps.parent.i + 1 \in Later(ps.child.i) /\ ps.child.i + 1 \in Later(ps.parent.i)
        BY <2>5, <2>8
      <3>2. ps.parent.i + 1 > ps.child.i /\ ps.child.i + 1 > ps.parent.i
        BY <3>1 DEF Later
      <3>3. ps.parent.i \in Nat /\ ps.child.i \in Nat
        BY <1>2, <2>7
      <3> HIDE DEF Later
      <3> QED
        BY <3>2, <3>3
    <2>10. hist.acted = Upto(ps.child.i + 1)
      BY <1>4, <2>1, <2>4 DEF Tallied
    <2>11. Tallied(Worker)'
      <3> HIDE DEF Worker
      <3> QED
        BY <1>3, <2>1, <2>4, <2>9, <2>10 DEF Tallied, Progress
    <2>12. CountOK'
      BY <1>4, <2>1, <2>2, <2>11 DEF CountOK
    <2> QED
      BY <2>3, <2>12
  <1>8. CASE Raises(a)
    <2>1. ps' = [parent |-> a, child |-> Nobody] /\ a.pc = "killed" /\ a.child # "self"
      BY <1>8 DEF Raises
    <2>2. ps'.parent = a /\ ps'.child = Nobody
      BY <2>1
    <2>3. FamilyOK'
      BY <1>5, <2>1, <2>2 DEF FamilyOK, Busy
    <2>4. Worker' = a
      BY <1>5, <2>2 DEF Worker
    <2>5. Tallied(Worker)'
      <3> HIDE DEF Worker
      <3> QED
        BY <1>3, <1>4, <2>1, <2>4 DEF Tallied, Active, Busy
    <2>6. CountOK'
      BY <1>4, <2>1, <2>2, <2>5 DEF CountOK
    <2> QED
      BY <2>3, <2>6
  <1> QED
    BY <1>6, <1>7, <1>8

-----------------------------------------------------------------------------
(* The modes of what is made.                                               *)

\* A process is about to set the mode of the directory it has made.
Setting(me) == me.pc \in {"open", "save", "chdir", "chmod"} /\ me.want
Goal(me) == IF me.inside THEN me.cwd ELSE Lookup(tree, From(me), me.names).dir
Ready(me) ==
  /\ me.pc \in {"ancestor", "mkdir"} => ~me.want
  /\ me.pc \in Busy /\ me.inside => me.pc = "chmod"
  /\ me.pc = "chmod" => me.want
  /\ Setting(me) => ~keep_special_mode_bits /\ (me.inside \/ Lookup(tree, From(me), me.names).err = "ok")

\* A mode that is not the one asked for is still to be set, or a process has
\* failed, or died.
Failed == \E p \in Both : ps[p].pc # "none" /\ (ps[p].pc = "killed" \/ ps[p].status = 1)
Pending(x) == \E p \in Both : ps[p].pc # "none" /\ Setting(ps[p]) /\ x = Goal(ps[p])
Narrow(mode) == mode \cap {"gw", "ow"} # {} => line.set.mode \cap (SetIds \cup {"t"}) \subseteq mode
ModeOf(x) ==
  IF line.prog = "mkdir"
  THEN /\ tree[x].kind = "dir" /\ tree[x].mode \cap SetIds \subseteq line.set.mode /\ Narrow(tree[x].mode)
       /\ line.mode.kind # "text" => tree[x].mode = Asked \/ Failed \/ Pending(x)
  ELSE /\ tree[x].kind = "nod" /\ tree[x].mode \subseteq S_IRWXUGO
       /\ line.mode.kind # "text" => tree[x].mode = Asked
MadeRight == \A x \in DOMAIN tree : tree[x].by = "mkdir" => SetOK /\ ModeOf(x)
ModesOK ==
  /\ ps.parent.pc = "main" => \A x \in DOMAIN tree : tree[x].by # "mkdir"
  /\ MadeRight
  /\ \A p \in Both : ps[p].pc # "none" => Ready(ps[p])

\* All that holds besides MkOK.
MoreOK ==
  /\ ModesOK /\ \A k \in 1..Len(line.ops) : hist.acted[k] <= 1
  /\ line.prog = "mkdir" => FamilyOK /\ CountOK

\* A process goes on with what it is about to set, or it has failed.
Steers(me, n) ==
  /\ tree' = tree /\ Ready(n)
  /\ Setting(me) => (Setting(n) /\ Goal(n) = Goal(me)) \/ n.status = 1 \/ n.pc = "killed"
Steps(p, n) ==
  /\ Goes(p, n) /\ Moves(ps[p], n) /\ n.pc \notin {"none", "main"} /\ (n.pc = "killed" => p = "child")

\* While the files stay the same their modes stay right.
LEMMA MadeStays ==
  ASSUME MadeRight, UNCHANGED <<tree, line>>, Failed => Failed', \A x : Pending(x) => Failed' \/ Pending(x)'
  PROVE  MadeRight'
  <1>1. SetOK => SetOK'
    BY DEF SetOK, Asked
  <1>2. Asked' = Asked
    BY DEF Asked
  <1> SUFFICES ASSUME NEW x \in DOMAIN tree, tree[x].by = "mkdir"
               PROVE  SetOK' /\ ModeOf(x)'
    BY DEF MadeRight
  <1>3. SetOK' /\ ModeOf(x) /\ (Pending(x) => Failed' \/ Pending(x)')
    BY <1>1 DEF MadeRight
  <1> HIDE DEF Failed, Pending, Asked
  <1> QED
    BY <1>2, <1>3 DEF ModeOf, Narrow

\* A step of one process that changes no file keeps all.
LEMMA SteersOK ==
  ASSUME MkOK, MoreOK, NEW p \in Both, Running(p), NEW n, Steps(p, n), Steers(ps[p], n), line' = line
  PROVE  MoreOK'
  <1> DEFINE me == ps[p]
  <1>1. line.prog = "mkdir" /\ SetOK /\ ProcsOK /\ me.pc \in Active /\ n.status \in {me.status, 1}
    BY RunningFacts DEF MkOK, Steps, Moves
  <1>2. DOMAIN ps = Both /\ DOMAIN ps' = Both /\ ps'[p] = n /\ \A q \in Both : q # p => ps'[q] = ps[q]
    BY <1>1, GoesFacts DEF ProcsOK, Steps
  <1>3. FamilyOK' /\ CountOK'
    BY <1>1, FamilyMoves, CountMoves DEF MoreOK, Steps
  <1>4. tree' = tree /\ n.pc \notin {"none", "main"} /\ me.pc \notin {"none", "main", "exit", "killed"}
    BY <1>1 DEF Steers, Steps, Active, Busy
  <1>5. Failed => Failed'
    <2>1. SUFFICES ASSUME NEW q \in Both, ps[q].pc # "none", ps[q].pc = "killed" \/ ps[q].status = 1
                   PROVE  ps'[q].pc # "none" /\ (ps'[q].pc = "killed" \/ ps'[q].status = 1)
      BY DEF Failed
    <2>2. CASE q = p
      BY <1>1, <1>2, <1>4, <2>1, <2>2
    <2> QED
      BY <1>2, <2>1, <2>2
  <1>6. ASSUME NEW x, Pending(x)
        PROVE  Failed' \/ Pending(x)'
    <2>1. PICK q \in Both : ps[q].pc # "none" /\ Setting(ps[q]) /\ x = Goal(ps[q])
      BY <1>6 DEF Pending
    <2>2. CASE q # p
      <3>1. ps'[q] = ps[q]
        BY <1>2, <2>2
      <3>2. Setting(ps[q])' /\ Goal(ps[q])' = Goal(ps[q])
        BY <1>4, <2>1, <3>1 DEF Setting, Goal, From
      <3> QED
        BY <2>1, <3>1, <3>2 DEF Pending
    <2>3. CASE q = p
      <3>1. (Setting(n) /\ Goal(n) = Goal(me)) \/ n.status = 1 \/ n.pc = "killed"
        BY <2>1, <2>3 DEF Steers
      <3>2. CASE n.status = 1 \/ n.pc = "killed"
        BY <1>2, <1>4, <3>2 DEF Failed
      <3>3. CASE Setting(n) /\ Goal(n) = Goal(me)
        <4>1. Setting(ps[p])' /\ Goal(ps[p])' = Goal(n)
          BY <1>2, <1>4, <3>3 DEF Setting, Goal, From
        <4> QED
          BY <1>2, <1>4, <2>1, <2>3, <3>3, <4>1 DEF Pending
      <3> QED
        BY <3>1, <3>2, <3>3
    <2> QED
      BY <2>2, <2>3
  <1>7. MadeRight'
    BY <1>4, <1>5, <1>6, MadeStays DEF MoreOK, ModesOK
  <1>8. \A q \in Both : (ps[q].pc # "none" => Ready(ps[q]))'
    <2>1. SUFFICES ASSUME NEW q \in Both, ps'[q].pc # "none"
                   PROVE  Ready(ps[q])'
      OBVIOUS
    <2>2. CASE q = p
      BY <1>2, <1>4, <2>2 DEF Steers, Ready, Setting, From, keep_special_mode_bits
    <2>3. CASE q # p
      <3>1. Ready(ps[q]) /\ ps'[q] = ps[q]
        BY <1>2, <2>1, <2>3 DEF MoreOK, ModesOK
      <3> QED
        BY <1>4, <3>1 DEF Ready, Setting, From, keep_special_mode_bits
    <2> QED
      BY <2>2, <2>3
  <1>9. ps'.parent.pc # "main"
    BY <1>1, <1>2, <1>4 DEF ProcsOK, Both
  <1>10. ModesOK'
    BY <1>7, <1>8, <1>9 DEF ModesOK
  <1> QED
    BY <1>1, <1>3, <1>10 DEF MoreOK, CountOK

\* The child takes over what its parent is about to set; a parent fails if its
\* child has failed.
LEMMA PairOK ==
  ASSUME MkOK, MoreOK, NEW a, NEW b, UNCHANGED <<tree, line>>, hist'.acted = hist.acted, line.prog = "mkdir", Ready(a),
         \/ /\ Forks(a, b) /\ Ready(b) /\ a.status = ps.parent.status
            /\ Setting(ps.parent) => Setting(b) /\ Goal(b) = Goal(ps.parent)
         \/ Reaps(a) /\ a.status \in {0, 1} /\ a.status >= ps.parent.status /\ a.status >= ps.child.status
         \/ Raises(a)
  PROVE  MoreOK'
  <1>1. FamilyOK' /\ CountOK'
    BY FamilyPair DEF MoreOK
  <1>2. DOMAIN ps = Both /\ ps.parent = ps["parent"] /\ ps.child = ps["child"] /\ Nobody.pc = "none" /\ ProcsOK
        /\ ps.parent.pc \notin {"none", "killed"}
    BY DEF MkOK, ProcsOK, Both, Nobody, Forks, Reaps, Raises, Running
  <1>3. PICK c : ps' = [parent |-> a, child |-> c] /\ ((c = b /\ Forks(a, b)) \/ c = Nobody)
    BY DEF Forks, Reaps, Raises
  <1>4. DOMAIN ps' = Both /\ ps'["parent"] = a /\ ps'["child"] = c /\ ps'.parent = a /\ ps'.child = c
    BY <1>3 DEF Both
  <1>5. a.pc \notin {"none", "main"}
    BY DEF Forks, Reaps, Raises
  <1>6. c.pc # "none" => Ready(c)
    BY <1>2, <1>3, <1>4 DEF Forks, Reaps, Raises, Busy
  <1>7. \A q \in Both : (ps[q].pc # "none" => Ready(ps[q]))'
    <2>1. (c.pc # "none" => Ready(c))' /\ Ready(a)'
      BY <1>2, <1>3, <1>6 DEF Ready, Setting, keep_special_mode_bits
    <2> QED
      BY <1>4, <2>1 DEF Ready, Setting, From, Both, keep_special_mode_bits
  <1>8. CASE Raises(a)
    <2>1. Failed'
      BY <1>4, <1>5, <1>8 DEF Raises, Failed, Both
    <2>2. MadeRight'
      BY <2>1, MadeStays DEF MoreOK, ModesOK
    <2> QED
      BY <1>1, <1>4, <1>5, <1>7, <2>2 DEF MoreOK, ModesOK, CountOK
  <1>9. CASE Reaps(a) /\ a.status \in {0, 1} /\ a.status >= ps.parent.status /\ a.status >= ps.child.status
    <2>1. ps.parent.status \in {0, 1} /\ ps.child.status \in {0, 1} /\ ps.parent.pc = "restore" /\ ps.child.pc = "exit"
      BY <1>2, <1>9 DEF ProcsOK, Good, Reaps, Both
    <2>2. Failed => a.status = 1
      BY <1>2, <1>9, <2>1 DEF Failed, Both
    <2>3. Failed => Failed'
      BY <1>4, <1>5, <2>2 DEF Failed, Both
    <2>4. \A x : ~Pending(x)
      BY <1>2, <2>1 DEF Pending, Setting, Both
    <2>5. MadeRight'
      BY <2>3, <2>4, MadeStays DEF MoreOK, ModesOK
    <2> QED
      BY <1>1, <1>4, <1>5, <1>7, <2>5 DEF MoreOK, ModesOK, CountOK
  <1>10. CASE /\ Forks(a, b) /\ Ready(b) /\ a.status = ps.parent.status
              /\ Setting(ps.parent) => Setting(b) /\ Goal(b) = Goal(ps.parent)
    <2>1. ps'["child"] = b /\ b.pc # "none" /\ ps.child.pc = "none"
      BY <1>10 DEF Forks, Busy
    <2>2. Failed => Failed'
      BY <1>2, <1>4, <1>5, <1>10, <2>1 DEF Failed, Both
    <2>3. ASSUME NEW x, Pending(x)
          PROVE  Pending(x)'
      <3>1. Setting(ps.parent) /\ x = Goal(ps.parent)
        BY <1>2, <2>1, <2>3 DEF Pending, Both
      <3>2. Setting(b) /\ x = Goal(b)
        BY <1>10, <3>1
      <3>3. Setting(ps["child"])' /\ Goal(ps["child"])' = Goal(b)
        BY <2>1, <3>2 DEF Setting, Goal, From
      <3> QED
        BY <2>1, <3>2, <3>3 DEF Pending, Both
    <2>4. MadeRight'
      BY <2>2, <2>3, MadeStays DEF MoreOK, ModesOK
    <2> QED
      BY <1>1, <1>4, <1>5, <1>7, <2>4 DEF MoreOK, ModesOK, CountOK
  <1> QED
    BY <1>8, <1>9, <1>10

\* The operands are looked at one after the other.
LEMMA ActingMore ==
  ASSUME MkOK, MoreOK, NEW p \in Both, savewd_finish(p) \/ ActOn(p) \/ Leaves(p)
  PROVE  MoreOK'
  <1> DEFINE me == ps[p]
             op == line.ops[me.i]
  <1>1. Running(p) /\ me.pc = "next" /\ UNCHANGED <<tree, line, budget>>
    BY DEF savewd_finish, ActOn, Leaves
  <1>2. Good(me, tree) /\ LineOK /\ Len(line.ops) \in Nat /\ HistOK(hist) /\ DOMAIN ps = Both /\ DOMAIN line.ops = 1..Len(line.ops)
    BY <1>1, RunningFacts DEF MkOK, ProcsOK, LineOK
  <1>3. ~Setting(me)
    BY <1>1 DEF Setting
  <1> HIDE DEF me
  <1>4. CASE savewd_finish(p)
    <2> DEFINE n == [me EXCEPT !.state = "FINAL", !.saved = FALSE]
    <2>1. Goes(p, n) /\ UNCHANGED hist /\ me.i >= LastRelative
      BY <1>4 DEF savewd_finish, me
    <2>2. n.pc = "next" /\ n.state = "FINAL" /\ n.i = me.i /\ n.child = me.child /\ n.status = me.status
      BY <1>1, <1>2 DEF Good, ProcessFields
    <2> HIDE DEF n
    <2>3. Finishes(me, n) /\ Ready(n)
      BY <1>1, <2>1, <2>2 DEF Finishes, Ready, Setting, Busy
    <2>4. Steps(p, n) /\ Steers(me, n)
      BY <1>1, <1>3, <2>1, <2>2, <2>3 DEF Steps, Steers, Moves, me
    <2> QED
      BY <1>1, <2>4, SteersOK DEF me
  <1>5. CASE Leaves(p)
    <2> DEFINE n == [me EXCEPT !.pc = "exit"]
    <2>1. Goes(p, n) /\ UNCHANGED hist /\ me.i \notin 1..Len(line.ops) /\ me.state = "FINAL"
      BY <1>2, <1>5 DEF Leaves, me
    <2>2. n.pc = "exit" /\ n.state = me.state /\ n.i = me.i /\ n.child = me.child /\ n.status = me.status
      BY <1>1, <1>2 DEF Good, ProcessFields
    <2> HIDE DEF n
    <2>3. Ends(me, n) /\ Ready(n)
      BY <1>1, <2>1, <2>2 DEF Ends, Alike, Ready, Setting, Busy
    <2>4. Steps(p, n) /\ Steers(me, n)
      BY <1>1, <1>3, <2>1, <2>2, <2>3 DEF Steps, Steers, Moves, me
    <2> QED
      BY <1>1, <2>4, SteersOK DEF me
  <1>6. CASE ActOn(p)
    <2> DEFINE new == [me EXCEPT !.pc = IF line.parents THEN "ancestor" ELSE "mkdir", !.names = op.names, !.root = op.abs,
                        !.made = FALSE, !.want = FALSE, !.inside = FALSE]
               d == [me EXCEPT !.pc = "restore"]
    <2>1. me.i \in 1..Len(line.ops) /\ Turn(me)
      BY <1>2, <1>6 DEF ActOn, Turn, me
    <2>2. \/ Delegating(me) /\ Goes(p, d) /\ UNCHANGED hist
          \/ ~Delegating(me) /\ Acted(p, me, FALSE)
          \/ ~Delegating(me) /\ Goes(p, new) /\ UNCHANGED hist
      BY <1>6 DEF ActOn, me
    <2>3. CASE Delegating(me) /\ Goes(p, d) /\ UNCHANGED hist
      <3>1. d.pc = "restore" /\ d.state = me.state /\ d.i = me.i /\ d.child = me.child /\ d.status = me.status
        BY <1>1, <1>2 DEF Good, ProcessFields
      <3> HIDE DEF d
      <3>2. Skips(me, d) /\ Ready(d)
        BY <1>1, <2>1, <2>3, <3>1 DEF Skips, Alike, Ready, Setting, Busy
      <3>3. Steps(p, d) /\ Steers(me, d)
        BY <1>1, <1>3, <2>3, <3>1, <3>2 DEF Steps, Steers, Moves, me
      <3> QED
        BY <1>1, <3>3, SteersOK DEF me
    <2>4. CASE ~Delegating(me) /\ Goes(p, new) /\ UNCHANGED hist
      <3> DEFINE at == IF line.parents THEN "ancestor" ELSE "mkdir"
                 names == op.names
                 root == op.abs
      <3>1. at \in {"ancestor", "mkdir"} /\ new = [me EXCEPT !.pc = at, !.names = names, !.root = root, !.made = FALSE, !.want = FALSE, !.inside = FALSE]
        OBVIOUS
      <3> HIDE DEF at, names, root, new
      <3>2. new.pc = at /\ new.state = me.state /\ new.i = me.i /\ new.child = me.child /\ new.status = me.status /\ ~new.want /\ ~new.inside
        BY <1>2, <3>1 DEF Good, ProcessFields
      <3>3. Begins(me, new) /\ Ready(new)
        BY <1>1, <2>1, <2>4, <3>1, <3>2 DEF Begins, Alike, Ready, Setting, Busy
      <3>4. Steps(p, new) /\ Steers(me, new)
        BY <1>1, <1>3, <2>4, <3>1, <3>2, <3>3 DEF Steps, Steers, Moves, me
      <3> QED
        BY <1>1, <3>4, SteersOK DEF me
    <2>5. CASE ~Delegating(me) /\ Acted(p, me, FALSE)
      <3> DEFINE ok == FALSE
                 s == IF ok THEN me.status ELSE 1
                 n == [me EXCEPT !.pc = "restore", !.status = s]
      <3>1. Goes(p, n) /\ Scored(me)
        <4>1. ok \in BOOLEAN /\ Acted(p, me, ok) /\ DOMAIN me = ProcessFields
          BY <1>2, <2>5 DEF Good
        <4> HIDE DEF ok
        <4> QED
          BY <1>2, <2>1, <4>1, ActedFacts DEF Scored
      <3>2. n.pc = "restore" /\ n.state = me.state /\ n.i = me.i /\ n.child = me.child /\ n.status = 1
        BY <1>1, <1>2 DEF Good, ProcessFields
      <3> HIDE DEF n
      <3>3. Acts(me, n) /\ Ready(n)
        BY <1>1, <2>1, <2>5, <3>2 DEF Acts, Alike, Ready, Setting, Busy
      <3>4. Steps(p, n) /\ Steers(me, n)
        BY <1>1, <1>3, <3>1, <3>2, <3>3 DEF Steps, Steers, Moves, me
      <3> QED
        BY <1>1, <3>4, SteersOK DEF me
    <2> QED
      BY <2>2, <2>3, <2>4, <2>5
  <1> QED
    BY <1>4, <1>5, <1>6

\* The operand is done with, by a process that is alike but for its descriptor.
LEMMA ActedMoves ==
  ASSUME MkOK, NEW p \in Both, Running(p), ps[p].pc \in Busy, NEW e, DOMAIN e = ProcessFields, Alike(ps[p], e), e.status = ps[p].status,
         NEW ok \in BOOLEAN, Acted(p, e, ok)
  PROVE  \E n : Steps(p, n) /\ n.pc = "restore" /\ (ok \/ n.status = 1)
  <1> DEFINE me == ps[p]
             s == IF ok THEN e.status ELSE 1
             n == [e EXCEPT !.pc = "restore", !.status = s]
  <1>1. Good(me, tree) /\ HistOK(hist) /\ DOMAIN ps = Both
    BY RunningFacts DEF MkOK, ProcsOK
  <1>2. me.i \in 1..Len(line.ops) /\ e.i = me.i
    BY <1>1 DEF Good, Alike
  <1>3. Goes(p, n) /\ Scored(me)
    <2>1. hist'.acted = [hist.acted EXCEPT ![e.i] = hist.acted[e.i] + 1] /\ Goes(p, n)
      <3>1. e.i \in 1..Len(line.ops)
        BY <1>2
      <3> QED
        BY <1>1, <3>1, ActedFacts
    <2> HIDE DEF n, me
    <2> QED
      BY <1>2, <2>1 DEF Scored
  <1>4. n.pc = "restore" /\ n.state = e.state /\ n.i = e.i /\ n.child = e.child /\ n.status = s
    BY DEF ProcessFields
  <1>5. s \in {me.status, 1} /\ (ok \/ s = 1)
    OBVIOUS
  <1> HIDE DEF n, me, s
  <1>6. Acts(me, n)
    BY <1>2, <1>4 DEF Acts, Alike, Busy, me
  <1>7. Steps(p, n)
    BY <1>3, <1>4, <1>5, <1>6 DEF Steps, Moves, me
  <1> QED
    BY <1>4, <1>5, <1>7

\* savewd_chdir() has not got there.
LEMMA NotChangedMore ==
  ASSUME MkOK, MoreOK, NEW p \in Both, Running(p), ps[p].pc \in {"open", "chdir"}, NotChanged(p, ps[p]), UNCHANGED <<tree, line>>
  PROVE  MoreOK'
  <1> DEFINE me == ps[p]
  <1>1. Good(me, tree) /\ me.pc \in Busy /\ Ready(me)
    BY RunningFacts DEF Busy, MoreOK, ModesOK, Running
  <1> HIDE DEF me
  <1>2. CASE Acted(p, CloseDir(me), FALSE)
    <2> DEFINE e == CloseDir(me)
               ok == FALSE
    <2>1. DOMAIN e = ProcessFields /\ Alike(me, e) /\ e.status = me.status /\ ok \in BOOLEAN /\ Acted(p, e, ok) /\ ~ok
      BY <1>1, <1>2 DEF Good, ProcessFields, CloseDir, Alike
    <2> HIDE DEF e, ok
    <2>2. PICK n : Steps(p, n) /\ n.pc = "restore" /\ n.status = 1
      BY <1>1, <2>1, ActedMoves DEF me
    <2>3. Steers(me, n)
      BY <2>2 DEF Steers, Ready, Setting, Busy
    <2> QED
      BY <2>2, <2>3, SteersOK DEF me
  <1>3. CASE me.want /\ SetUp(p, me, FALSE)
    <2> DEFINE n == [me EXCEPT !.pc = "chmod", !.inside = FALSE]
    <2>1. Goes(p, n) /\ UNCHANGED hist
      BY <1>3 DEF SetUp
    <2>2. n.pc = "chmod" /\ n.state = me.state /\ n.i = me.i /\ n.child = me.child /\ n.status = me.status /\ ~n.inside
          /\ n.want = me.want /\ n.cwd = me.cwd /\ n.root = me.root /\ n.names = me.names
      BY <1>1 DEF Good, ProcessFields
    <2> HIDE DEF n
    <2>3. Setting(me) /\ ~me.inside
      BY <1>1, <1>3 DEF Setting, Ready, me
    <2>4. Ready(n) /\ Setting(n) /\ Goal(n) = Goal(me)
      BY <1>1, <1>3, <2>2, <2>3 DEF Ready, Setting, Goal, From
    <2>5. Works(me, n) /\ n.pc \notin {"none", "main", "killed"}
      BY <1>1, <2>2 DEF Works, Busy
    <2>6. Steps(p, n) /\ Steers(me, n)
      BY <2>1, <2>2, <2>4, <2>5 DEF Steps, Steers, Moves, me
    <2> QED
      BY <2>6, SteersOK DEF me
  <1> QED
    BY <1>2, <1>3 DEF NotChanged, me

\* The directory is opened.
LEMMA ChdirOpenMore ==
  ASSUME MkOK, MoreOK, NEW p \in Both, ChdirOpen(p)
  PROVE  MoreOK'
  <1> DEFINE me == ps[p]
             err == OpenError(tree, From(me), Aim(me))
             found == (err = "ok")
  <1>1. Running(p) /\ me.pc = "open" /\ UNCHANGED <<tree, line>>
    BY DEF ChdirOpen
  <1>2. Good(me, tree) /\ Ready(me) /\ ~me.inside
    BY <1>1, RunningFacts DEF Busy, MoreOK, ModesOK, Running, Ready
  <1>3. \/ Goes(p, [me EXCEPT !.pc = "save"]) /\ UNCHANGED hist
        \/ NotChanged(p, me)
        \/ Goes(p, [me EXCEPT !.pc = "save", !.fd = found]) /\ UNCHANGED hist
    <2> HIDE DEF me
    <2> QED
      BY DEF ChdirOpen, me
  <1> HIDE DEF me, found
  <1>4. ASSUME NEW n, Goes(p, n), UNCHANGED hist, n.pc = "save", n.state = me.state, n.i = me.i, n.child = me.child, n.status = me.status,
               n.inside = me.inside, n.want = me.want, n.cwd = me.cwd, n.root = me.root, n.names = me.names
        PROVE  MoreOK'
    <2>1. Ready(n) /\ (Setting(me) => Setting(n) /\ Goal(n) = Goal(me))
      BY <1>1, <1>2, <1>4 DEF Ready, Setting, Goal, From
    <2>2. Works(me, n) /\ n.pc \notin {"none", "main", "killed"}
      BY <1>1, <1>4 DEF Works, Busy
    <2>3. Steps(p, n) /\ Steers(me, n)
      BY <1>1, <1>4, <2>1, <2>2 DEF Steps, Steers, Moves, me
    <2> QED
      BY <1>1, <2>3, SteersOK DEF me
  <1>5. CASE Goes(p, [me EXCEPT !.pc = "save"]) /\ UNCHANGED hist
    <2> DEFINE n == [me EXCEPT !.pc = "save"]
    <2>1. n.pc = "save" /\ n.state = me.state /\ n.i = me.i /\ n.child = me.child /\ n.status = me.status
          /\ n.inside = me.inside /\ n.want = me.want /\ n.cwd = me.cwd /\ n.root = me.root /\ n.names = me.names /\ Goes(p, n)
      BY <1>2, <1>5 DEF Good, ProcessFields
    <2> HIDE DEF n
    <2> QED
      BY <1>4, <1>5, <2>1
  <1>6. CASE NotChanged(p, me)
    BY <1>1, <1>6, NotChangedMore DEF me
  <1>7. CASE Goes(p, [me EXCEPT !.pc = "save", !.fd = found]) /\ UNCHANGED hist
    <2> DEFINE n == [me EXCEPT !.pc = "save", !.fd = found]
    <2>1. n.pc = "save" /\ n.state = me.state /\ n.i = me.i /\ n.child = me.child /\ n.status = me.status
          /\ n.inside = me.inside /\ n.want = me.want /\ n.cwd = me.cwd /\ n.root = me.root /\ n.names = me.names /\ Goes(p, n)
      BY <1>2, <1>7 DEF Good, ProcessFields
    <2> HIDE DEF n
    <2> QED
      BY <1>4, <1>7, <2>1
  <1> QED
    BY <1>3, <1>5, <1>6, <1>7

\* The working directory is saved, or a child goes on.
LEMMA SaveMore ==
  ASSUME MkOK, MoreOK, NEW p \in Both, savewd_save(p)
  PROVE  MoreOK'
  <1> DEFINE me == ps[p]
             go == [me EXCEPT !.pc = "chdir"]
  <1>1. Running(p) /\ me.pc = "save" /\ UNCHANGED <<tree, line>>
    BY DEF savewd_save
  <1>2. Good(me, tree) /\ Ready(me) /\ ~me.inside /\ HistOK(hist) /\ line.prog = "mkdir" /\ FamilyOK
    BY <1>1, RunningFacts DEF Busy, MoreOK, ModesOK, Running, Ready
  <1>3. /\ \E failed \in BOOLEAN : hist' = [hist EXCEPT !.lost = hist.lost \/ failed]
        /\ \/ /\ me.state = "INITIAL" \/ (me.state = "FORKING" /\ me.child = "none")
              /\ Goes(p, [go EXCEPT !.state = "ERROR", !.child = "none"]) \/ Fork(p, me)
           \/ me.state = "INITIAL" /\ Goes(p, [go EXCEPT !.state = "FD", !.saved = TRUE])
           \/ Goes(p, go)
    BY <1>2 DEF savewd_save, HistOK
  <1>4. hist'.acted = hist.acted
    BY <1>2, <1>3 DEF HistOK
  <1> HIDE DEF me
  <1>5. ASSUME NEW n, Goes(p, n), n.pc = "chdir", n.i = me.i, n.status = me.status,
               n.inside = me.inside, n.want = me.want, n.cwd = me.cwd, n.root = me.root, n.names = me.names,
               \/ n.child = me.child /\ n.state = me.state
               \/ n.child = me.child /\ me.state \in {"INITIAL", "FD"} /\ n.state \in {"FD", "FDPOST"}
               \/ (me.state = "INITIAL" \/ (me.state = "FORKING" /\ me.child = "none")) /\ n.state = "ERROR" /\ n.child = "none"
        PROVE  MoreOK'
    <2>1. Ready(n) /\ (Setting(me) => Setting(n) /\ Goal(n) = Goal(me))
      BY <1>1, <1>2, <1>5 DEF Ready, Setting, Goal, From
    <2>2. Works(me, n) /\ n.pc \notin {"none", "main", "killed"}
      BY <1>1, <1>5 DEF Works, Busy
    <2>3. Steps(p, n) /\ Steers(me, n)
      BY <1>1, <1>4, <1>5, <2>1, <2>2 DEF Steps, Steers, Moves, me
    <2> QED
      BY <1>1, <2>3, SteersOK DEF me
  <1>6. CASE (me.state = "INITIAL" \/ (me.state = "FORKING" /\ me.child = "none")) /\ Goes(p, [go EXCEPT !.state = "ERROR", !.child = "none"])
    <2> DEFINE n == [go EXCEPT !.state = "ERROR", !.child = "none"]
    <2>1. n.pc = "chdir" /\ n.state = "ERROR" /\ n.i = me.i /\ n.child = "none" /\ n.status = me.status
          /\ n.inside = me.inside /\ n.want = me.want /\ n.cwd = me.cwd /\ n.root = me.root /\ n.names = me.names /\ Goes(p, n)
      BY <1>2, <1>6 DEF Good, ProcessFields
    <2> HIDE DEF n
    <2> QED
      BY <1>5, <1>6, <2>1
  <1>7. CASE (me.state = "INITIAL" \/ (me.state = "FORKING" /\ me.child = "none")) /\ Fork(p, me)
    <2> DEFINE a == [me EXCEPT !.pc = "restore", !.state = "FORKING", !.child = "child", !.fd = FALSE]
               b == [me EXCEPT !.pc = "chdir", !.state = "FORKING", !.child = "self"]
    <2>1. a.pc = "restore" /\ a.i = me.i /\ a.state = "FORKING" /\ a.child = "child" /\ a.status = me.status
      BY <1>2 DEF Good, ProcessFields
    <2>2. b.pc = "chdir" /\ b.i = me.i /\ b.state = "FORKING" /\ b.child = "self" /\ b.status = me.status
          /\ b.inside = me.inside /\ b.want = me.want /\ b.cwd = me.cwd /\ b.root = me.root /\ b.names = me.names
      BY <1>2 DEF Good, ProcessFields
    <2>3. ps' = [parent |-> a, child |-> b]
      BY <1>7 DEF Fork
    <2> HIDE DEF a, b
    <2>4. p = "parent" /\ me = ps.parent /\ ps.child.pc = "none"
      <3>1. p = "child" => me = ps.child /\ ps.child.pc # "none" /\ me.state = "FORKING" /\ me.child = "self"
        BY <1>1, <1>2 DEF FamilyOK, me
      <3>2. p = "parent" /\ me = ps.parent
        BY <1>7, <3>1 DEF Both, me
      <3> QED
        BY <1>1, <1>2, <3>2 DEF FamilyOK
    <2>5. Ready(a) /\ Ready(b) /\ (Setting(me) => Setting(b) /\ Goal(b) = Goal(me))
      BY <1>1, <1>2, <2>1, <2>2 DEF Ready, Setting, Goal, From, Busy
    <2>6. Forks(a, b)
      BY <1>1, <1>7, <2>1, <2>2, <2>3, <2>4 DEF Forks, Busy
    <2> QED
      BY <1>1, <1>2, <1>4, <2>1, <2>4, <2>5, <2>6, PairOK
  <1>8. CASE me.state = "INITIAL" /\ Goes(p, [go EXCEPT !.state = "FD", !.saved = TRUE])
    <2> DEFINE n == [go EXCEPT !.state = "FD", !.saved = TRUE]
    <2>1. n.pc = "chdir" /\ n.state = "FD" /\ n.i = me.i /\ n.child = me.child /\ n.status = me.status
          /\ n.inside = me.inside /\ n.want = me.want /\ n.cwd = me.cwd /\ n.root = me.root /\ n.names = me.names /\ Goes(p, n)
      BY <1>2, <1>8 DEF Good, ProcessFields
    <2> HIDE DEF n
    <2> QED
      BY <1>5, <1>8, <2>1
  <1>9. CASE Goes(p, go)
    <2>1. go.pc = "chdir" /\ go.state = me.state /\ go.i = me.i /\ go.child = me.child /\ go.status = me.status
          /\ go.inside = me.inside /\ go.want = me.want /\ go.cwd = me.cwd /\ go.root = me.root /\ go.names = me.names
      BY <1>2 DEF Good, ProcessFields
    <2> HIDE DEF go
    <2> QED
      BY <1>5, <1>9, <2>1
  <1> QED
    BY <1>3, <1>6, <1>7, <1>8, <1>9

\* The working directory is changed.
LEMMA ChdirMore ==
  ASSUME MkOK, MoreOK, NEW p \in Both, Chdir(p)
  PROVE  MoreOK'
  <1> DEFINE me == ps[p]
             dir == Lookup(tree, From(me), Aim(me)).dir
             state == AfterChdir(me.state)
             there == [me EXCEPT !.cwd = dir, !.state = state]
  <1>1. Running(p) /\ me.pc = "chdir" /\ UNCHANGED <<tree, line>>
    BY DEF Chdir
  <1>2. Good(me, tree) /\ Ready(me) /\ ~me.inside
    BY <1>1, RunningFacts DEF Busy, MoreOK, ModesOK, Running, Ready
  <1>3. Changed(p, there) \/ NotChanged(p, me)
    <2>1. Chdir(p) => \E failed \in BOOLEAN :
                        /\ Trouble(failed) /\ Spend(failed)
                        /\ IF ChdirError(tree, From(me), Aim(me)) = "ok" /\ ~failed THEN Changed(p, there) ELSE NotChanged(p, me)
      BY <1>2 DEF Chdir, Good, ProcessFields
    <2> HIDE DEF me, there
    <2> QED
      BY <2>1
  <1>4. CASE NotChanged(p, me)
    <2> HIDE DEF me
    <2> QED
      BY <1>1, <1>4, NotChangedMore DEF me
  <1>5. CASE Changed(p, there)
    <2>1. state = me.state \/ (me.state \in {"INITIAL", "FD"} /\ state \in {"FD", "FDPOST"})
      BY DEF AfterChdir
    <2>2. me.want => dir = Goal(me)
      BY <1>2 DEF Goal, Aim
    <2> HIDE DEF me, dir, state
    <2>3. DOMAIN there = ProcessFields /\ there.pc = "chdir" /\ there.i = me.i /\ there.child = me.child /\ there.state = state
          /\ there.status = me.status /\ there.want = me.want /\ there.inside = me.inside /\ there.cwd = dir
      BY <1>1, <1>2 DEF Good, ProcessFields
    <2> HIDE DEF there
    <2>4. ASSUME NEW n, Goes(p, n), UNCHANGED hist, n.pc \in {"ancestor", "chmod"}, n.i = me.i, n.child = me.child, n.state = state,
                 n.status = me.status, n.want = me.want, n.pc = "ancestor" => ~me.want /\ ~n.inside,
                 n.pc = "chmod" => me.want /\ n.inside /\ n.cwd = dir
          PROVE  MoreOK'
      <3>1. Ready(n)
        BY <1>1, <1>2, <2>4 DEF Ready, Setting, me
      <3>2. Setting(me) => Setting(n) /\ Goal(n) = Goal(me)
        BY <2>2, <2>4 DEF Setting, Goal
      <3>3. Works(me, n) /\ n.pc \notin {"none", "main", "killed"}
        BY <1>1, <2>1, <2>4 DEF Works, Busy
      <3>4. Steps(p, n) /\ Steers(me, n)
        BY <1>1, <2>4, <3>1, <3>2, <3>3 DEF Steps, Steers, Moves, me
      <3> QED
        BY <1>1, <3>4, SteersOK DEF me
    <2>5. CASE ~there.want
      <3> DEFINE tail == Tail(there.names)
                 n == [CloseDir(there) EXCEPT !.pc = "ancestor", !.names = tail, !.root = FALSE]
      <3>1. Goes(p, n) /\ UNCHANGED hist
        BY <1>5, <2>3, <2>5 DEF Changed, CloseDir, ProcessFields
      <3> HIDE DEF tail
      <3>2. n.pc = "ancestor" /\ n.i = me.i /\ n.child = me.child /\ n.state = state /\ n.status = me.status /\ n.want = me.want /\ n.inside = me.inside
        BY <2>3 DEF ProcessFields, CloseDir
      <3> HIDE DEF n
      <3> QED
        BY <1>2, <2>3, <2>4, <2>5, <3>1, <3>2
    <2>6. CASE there.want
      <3> DEFINE n == [there EXCEPT !.pc = "chmod", !.inside = TRUE]
      <3>1. Goes(p, n) /\ UNCHANGED hist
        BY <1>5, <2>6 DEF Changed, SetUp
      <3>2. n.pc = "chmod" /\ n.i = me.i /\ n.child = me.child /\ n.state = state /\ n.status = me.status /\ n.want = me.want /\ n.inside
            /\ n.cwd = dir
        BY <2>3 DEF ProcessFields
      <3> HIDE DEF n
      <3> QED
        BY <2>3, <2>4, <2>6, <3>1, <3>2
    <2> QED
      BY <2>5, <2>6
  <1> QED
    BY <1>3, <1>4, <1>5

\* What is there already is looked at.
LEMMA ExistingMore ==
  ASSUME MkOK, MoreOK, NEW p \in Both, Existing(p)
  PROVE  MoreOK'
  <1> DEFINE me == ps[p]
             e == [me EXCEPT !.err = "ok"]
             ok == TakesExisting(me)
  <1>1. Running(p) /\ me.pc = "stat" /\ UNCHANGED <<tree, line>> /\ Acted(p, e, ok)
    BY DEF Existing
  <1>2. Good(me, tree)
    BY <1>1, RunningFacts
  <1>3. ok \in BOOLEAN
    BY DEF TakesExisting
  <1> HIDE DEF ok, me
  <1>4. DOMAIN e = ProcessFields /\ Alike(me, e) /\ e.status = me.status
    BY <1>2 DEF Good, ProcessFields, Alike
  <1> HIDE DEF e
  <1>5. me.pc \in Busy /\ ~Setting(me)
    BY <1>1 DEF Busy, Setting
  <1>6. PICK n : Steps(p, n) /\ n.pc = "restore"
    BY <1>1, <1>3, <1>4, <1>5, ActedMoves DEF me
  <1>7. Steers(me, n)
    BY <1>1, <1>5, <1>6 DEF Steers, Ready, Setting, Busy
  <1> QED
    BY <1>1, <1>6, <1>7, SteersOK DEF me

\* The process comes back, waits for its child, or exits.
LEMMA RestoreMore ==
  ASSUME MkOK, MoreOK, NEW p \in Both, savewd_restore(p)
  PROVE  MoreOK'
  <1> DEFINE me == ps[p]
             on == Onward(me)
  <1>1. Running(p) /\ me.pc = "restore" /\ UNCHANGED <<tree, line>>
    BY DEF savewd_restore
  <1>2. Good(me, tree) /\ HistOK(hist) /\ Len(line.ops) \in Nat /\ line.prog = "mkdir" /\ ProcsOK /\ FamilyOK
    BY <1>1, RunningFacts DEF MkOK, MoreOK
  <1>3. DOMAIN on = ProcessFields /\ on.pc = "next" /\ on.i = me.i + 1 /\ on.state = me.state /\ on.status = me.status /\ on.child = me.child
    BY <1>2 DEF Good, ProcessFields, Onward
  <1>4. ~Setting(me)
    BY <1>1 DEF Setting
  <1>5. \/ Goes(p, on) /\ UNCHANGED hist /\ (~Restores(me) \/ me.state # "FORKING" \/ me.child = "none")
        \/ \E failed \in BOOLEAN :
             /\ me.state = "FDPOST" /\ hist' = [hist EXCEPT !.lost = hist.lost \/ failed]
             /\ \/ Goes(p, [on EXCEPT !.state = "ERROR", !.saved = FALSE])
                \/ Goes(p, [on EXCEPT !.state = "FD", !.cwd = Home])
        \/ Goes(p, [me EXCEPT !.pc = "exit"]) /\ UNCHANGED hist /\ Restores(me) /\ me.state = "FORKING" /\ me.child = "self"
        \/ /\ ps' = [parent |-> [on EXCEPT !.child = "none", !.status = MaxOf({on.status, ps.child.status})], child |-> Nobody]
           /\ Restores(me) /\ me.state = "FORKING" /\ me.child = "child" /\ ps.child.pc = "exit" /\ UNCHANGED hist
        \/ /\ ps' = [parent |-> [me EXCEPT !.pc = "killed"], child |-> Nobody] /\ UNCHANGED hist
           /\ Restores(me) /\ me.state = "FORKING" /\ me.child = "child" /\ ps.child.pc = "killed"
    <2> HIDE DEF me
    <2>1. savewd_restore(p) => 
          \/ Goes(p, on) /\ UNCHANGED hist /\ (~Restores(me) \/ me.state # "FORKING" \/ me.child = "none")
          \/ \E failed \in BOOLEAN :
             /\ me.state = "FDPOST" /\ hist' = [hist EXCEPT !.lost = hist.lost \/ failed]
             /\ Goes(p, IF failed THEN [on EXCEPT !.state = "ERROR", !.saved = FALSE] ELSE [on EXCEPT !.state = "FD", !.cwd = Home])
          \/ Goes(p, [me EXCEPT !.pc = "exit"]) /\ UNCHANGED hist /\ Restores(me) /\ me.state = "FORKING" /\ me.child = "self"
          \/ /\ ps' = [parent |-> [on EXCEPT !.child = "none", !.status = MaxOf({on.status, ps.child.status})], child |-> Nobody]
             /\ Restores(me) /\ me.state = "FORKING" /\ me.child = "child" /\ ps.child.pc = "exit" /\ UNCHANGED hist
          \/ /\ ps' = [parent |-> [me EXCEPT !.pc = "killed"], child |-> Nobody] /\ UNCHANGED hist
             /\ Restores(me) /\ me.state = "FORKING" /\ me.child = "child" /\ ps.child.pc = "killed"
      BY <1>2, <1>3 DEF savewd_restore, me, ChildStatus, HistOK, ProcessFields
    <2> HIDE DEF on
    <2> QED
      BY <2>1
  <1> HIDE DEF on
  <1>6. ASSUME NEW n, Goes(p, n), hist'.acted = hist.acted, n.pc = "next", n.i = on.i, n.child = on.child, n.status = on.status,
               \/ n.state = on.state /\ (~Restores(me) \/ me.state # "FORKING" \/ me.child = "none")
               \/ me.state = "FDPOST" /\ n.state \in {"FD", "ERROR"}
        PROVE  MoreOK'
    <2> HIDE DEF me
    <2>1. Passes(me, n) /\ Ready(n)
      BY <1>1, <1>3, <1>6 DEF Passes, Ready, Setting, Busy
    <2>2. Steps(p, n) /\ Steers(me, n)
      BY <1>1, <1>3, <1>4, <1>6, <2>1 DEF Steps, Steers, Moves, me
    <2> QED
      BY <1>1, <2>2, SteersOK DEF me
  <1>7. CASE Goes(p, on) /\ UNCHANGED hist /\ (~Restores(me) \/ me.state # "FORKING" \/ me.child = "none")
    BY <1>3, <1>6, <1>7
  <1>8. ASSUME NEW failed \in BOOLEAN, me.state = "FDPOST", hist' = [hist EXCEPT !.lost = hist.lost \/ failed],
               \/ Goes(p, [on EXCEPT !.state = "ERROR", !.saved = FALSE])
               \/ Goes(p, [on EXCEPT !.state = "FD", !.cwd = Home])
        PROVE  MoreOK'
    <2>1. hist'.acted = hist.acted
      BY <1>2, <1>8 DEF HistOK
    <2>2. CASE Goes(p, [on EXCEPT !.state = "ERROR", !.saved = FALSE])
      <3> DEFINE n == [on EXCEPT !.state = "ERROR", !.saved = FALSE]
      <3>1. n.pc = "next" /\ n.i = on.i /\ n.child = on.child /\ n.status = on.status /\ n.state = "ERROR" /\ Goes(p, n)
        BY <1>3, <2>2 DEF ProcessFields
      <3> HIDE DEF n, me
      <3> QED
        BY <1>6, <1>8, <2>1, <3>1
    <2>3. CASE Goes(p, [on EXCEPT !.state = "FD", !.cwd = Home])
      <3> DEFINE n == [on EXCEPT !.state = "FD", !.cwd = Home]
      <3>1. n.pc = "next" /\ n.i = on.i /\ n.child = on.child /\ n.status = on.status /\ n.state = "FD" /\ Goes(p, n)
        BY <1>3, <2>3 DEF ProcessFields
      <3> HIDE DEF n, me
      <3> QED
        BY <1>6, <1>8, <2>1, <3>1
    <2> QED
      BY <1>8, <2>2, <2>3
  <1>9. CASE Goes(p, [me EXCEPT !.pc = "exit"]) /\ UNCHANGED hist /\ Restores(me) /\ me.state = "FORKING" /\ me.child = "self"
    <2> DEFINE n == [me EXCEPT !.pc = "exit"]
    <2> HIDE DEF me
    <2>1. n.pc = "exit" /\ Alike(me, n) /\ n.status = me.status /\ Goes(p, n)
      BY <1>2, <1>9 DEF Good, ProcessFields, Alike
    <2> HIDE DEF n
    <2>2. Retires(me, n) /\ Ready(n)
      BY <1>1, <1>9, <2>1 DEF Retires, Ready, Setting, Busy
    <2>3. Steps(p, n) /\ Steers(me, n)
      BY <1>1, <1>4, <1>9, <2>1, <2>2 DEF Steps, Steers, Moves, me
    <2> QED
      BY <1>1, <2>3, SteersOK DEF me
  <1>10. me.child = "child" => p = "parent" /\ me = ps.parent
    <2>1. p = "child" => me = ps.child /\ ps.child.pc # "none"
      BY <1>1
    <2>2. p = "child" => me.child = "self"
      BY <1>2, <2>1 DEF FamilyOK
    <2> QED
      BY <2>2 DEF Both
  <1>11. CASE /\ ps' = [parent |-> [on EXCEPT !.child = "none", !.status = MaxOf({on.status, ps.child.status})], child |-> Nobody]
              /\ Restores(me) /\ me.state = "FORKING" /\ me.child = "child" /\ ps.child.pc = "exit" /\ UNCHANGED hist
    <2> DEFINE s == MaxOf({on.status, ps.child.status})
               n == [on EXCEPT !.child = "none", !.status = s]
    <2>1. ps.child.status \in {0, 1} /\ on.status \in {0, 1}
      BY <1>2, <1>3, <1>11 DEF ProcsOK, Both, Good
    <2>2. s \in {0, 1} /\ s >= on.status /\ s >= ps.child.status
      <3> DEFINE a == on.status
                 b == ps.child.status
      <3>1. a \in {0, 1} /\ b \in {0, 1} /\ a \in Int /\ b \in Int
        BY <2>1
      <3> HIDE DEF a, b, on, n, me, s
      <3>2. MaxOf({a, b}) \in {a, b} /\ MaxOf({a, b}) >= a /\ MaxOf({a, b}) >= b
        BY <3>1, MaxOfFacts
      <3> QED
        BY <3>1, <3>2 DEF a, b, s
    <2>3. ps' = [parent |-> n, child |-> Nobody]
      BY <1>11
    <2> HIDE DEF s
    <2>4. n.pc = "next" /\ n.i = on.i /\ n.child = "none" /\ n.status = s
      BY <1>3 DEF ProcessFields
    <2> HIDE DEF n
    <2>5. Running("parent") /\ ps.parent.pc = "restore" /\ Restores(ps.parent) /\ on.i = ps.parent.i + 1 /\ on.status = ps.parent.status
      BY <1>1, <1>3, <1>10, <1>11
    <2> HIDE DEF me
    <2>6. Reaps(n)
      BY <1>11, <2>3, <2>4, <2>5 DEF Reaps
    <2>7. Ready(n)
      BY <2>4 DEF Ready, Setting, Busy
    <2> QED
      BY <1>1, <1>2, <1>11, <2>2, <2>4, <2>5, <2>6, <2>7, PairOK
  <1>12. CASE /\ ps' = [parent |-> [me EXCEPT !.pc = "killed"], child |-> Nobody] /\ UNCHANGED hist
              /\ Restores(me) /\ me.state = "FORKING" /\ me.child = "child" /\ ps.child.pc = "killed"
    <2> DEFINE n == [me EXCEPT !.pc = "killed"]
    <2>1. Running("parent")
      BY <1>1, <1>10, <1>12
    <2> HIDE DEF me
    <2>2. n.pc = "killed" /\ n.child = "child"
      BY <1>2, <1>12 DEF Good, ProcessFields
    <2>3. ps' = [parent |-> n, child |-> Nobody]
      BY <1>12
    <2> HIDE DEF n
    <2>4. Raises(n) /\ Ready(n)
      BY <1>12, <2>1, <2>2, <2>3 DEF Raises, Ready, Setting, Busy
    <2> QED
      BY <1>1, <1>2, <1>12, <2>4, PairOK
  <1> QED
    BY <1>5, <1>7, <1>8, <1>9, <1>11, <1>12

\* A signal kills the child.
LEMMA KillMore ==
  ASSUME MkOK, MoreOK, KillChild
  PROVE  MoreOK'
  <1> DEFINE p == "child"
             me == ps[p]
             n == [me EXCEPT !.pc = "killed"]
  <1>1. Running(p) /\ Goes(p, n) /\ UNCHANGED <<tree, line, hist>> /\ p \in Both
    BY DEF KillChild, Both
  <1>2. p = "child"
    OBVIOUS
  <1> HIDE DEF p
  <1>3. Good(me, tree)
    BY <1>1, RunningFacts
  <1> HIDE DEF me
  <1>4. n.pc = "killed" /\ Alike(me, n) /\ n.status = me.status
    BY <1>3 DEF Good, ProcessFields, Alike
  <1> HIDE DEF n
  <1>5. Dies(me, n) /\ Ready(n)
    BY <1>4 DEF Dies, Ready, Setting, Busy
  <1>6. Steps(p, n) /\ Steers(me, n)
    BY <1>1, <1>2, <1>4, <1>5 DEF Steps, Steers, Moves, me
  <1> QED
    BY <1>1, <1>6, SteersOK DEF me

\* A tree that has grown: the files that were there are as they were.
Grown(t, u) == DOMAIN t \subseteq DOMAIN u /\ \A x \in DOMAIN t : u[x] = t[x]

\* What a name leads to is not changed by files that appear.
LEMMA LookupGrows ==
  ASSUME NEW t, NEW u, Grown(t, u), NEW dir \in Paths, NEW names \in Paths, Lookup(t, dir, names).err = "ok"
  PROVE  Lookup(u, dir, names) = Lookup(t, dir, names)
  <1> DEFINE n == Len(names)
  <1>1. PICK a : IsLookup(a, t, dir, names) /\ Lookup(t, dir, names) = a[n]
    BY LookupRun
  <1>2. PICK b : IsLookup(b, u, dir, names) /\ Lookup(u, dir, names) = b[n]
    BY LookupRun
  <1>3. n \in Nat
    BY DEF Paths
  <1>4. a = [k \in 0..n |-> IF k = 0 THEN [err |-> "ok", dir |-> dir] ELSE Resolve(t, a[k - 1], names[k])] /\ a[n].err = "ok"
    BY <1>1 DEF IsLookup
  <1>5. b = [k \in 0..n |-> IF k = 0 THEN [err |-> "ok", dir |-> dir] ELSE Resolve(u, b[k - 1], names[k])]
    BY <1>2 DEF IsLookup
  <1> DEFINE S == {k \in 0..n : a[k].err = "ok" => b[k] = a[k]}
  <1> HIDE DEF n
  <1>6. 0 \in S
    BY <1>3, <1>4, <1>5
  <1>7. ASSUME NEW k \in 1..n, k - 1 \in S
        PROVE  k \in S
    <2> DEFINE at == a[k - 1]
               name == names[k]
    <2>1. a[k] = Resolve(t, at, name) /\ b[k] = Resolve(u, b[k - 1], name) /\ (at.err = "ok" => b[k - 1] = at)
      BY <1>3, <1>4, <1>5, <1>7
    <2> HIDE DEF at, name
    <2>2. ASSUME Resolve(t, at, name).err = "ok"
          PROVE  at.err = "ok" /\ Resolve(u, at, name) = Resolve(t, at, name)
      <3> DEFINE err == IF at.err = "ok" THEN Search(t, at.dir) ELSE at.err
                 next == Entry(at.dir, name)
      <3>1. Resolve(t, at, name) = CASE err # "ok" -> [at EXCEPT !.err = err]
                                     [] err = "ok" /\ next \notin DOMAIN t -> [err |-> "ENOENT", dir |-> next]
                                     [] OTHER -> [err |-> "ok", dir |-> next]
        BY DEF Resolve
      <3>2. err = "ok" /\ next \in DOMAIN t /\ Resolve(t, at, name) = [err |-> "ok", dir |-> next]
        <4>1. ASSUME err # "ok"
              PROVE  FALSE
          <5>1. Resolve(t, at, name) = [at EXCEPT !.err = err]
            BY <3>1, <4>1
          <5>2. at \in Places
            BY <1>1, <1>3, <1>7 DEF IsLookup, at, n
          <5> HIDE DEF err
          <5>3. [at EXCEPT !.err = err].err = err
            BY <5>2 DEF Places
          <5> QED
            BY <2>2, <4>1, <5>1, <5>3
        <4>2. next \in DOMAIN t
          <5> HIDE DEF err, next
          <5> QED
            BY <2>2, <3>1, <4>1
        <4> HIDE DEF next, err
        <4> QED
          BY <3>1, <4>1, <4>2
      <3>3. at.err = "ok" /\ Search(t, at.dir) = "ok"
        BY <3>2
      <3>4. Search(u, at.dir) = "ok"
        BY <3>3 DEF Search, Grown
      <3>5. next \in DOMAIN u
        BY <3>2 DEF Grown
      <3>6. Resolve(u, at, name) = [err |-> "ok", dir |-> next]
        BY <3>3, <3>4, <3>5 DEF Resolve
      <3> QED
        BY <3>2, <3>3, <3>6
    <2>3. a[k].err = "ok" => b[k] = a[k]
      BY <2>1, <2>2
    <2> QED
      BY <1>3, <2>3
  <1>8. \A k \in 0..n : k \in S
    <2> HIDE DEF S
    <2> QED
      BY <1>3, <1>6, <1>7, Induction
  <1>9. b[n] = a[n]
    BY <1>3, <1>4, <1>8
  <1> QED
    BY <1>1, <1>2, <1>9 DEF n

\* So a process that is about to set a mode still means the same directory.
LEMMA GrownReady ==
  ASSUME MkOK, NEW me, Good(me, tree), Ready(me), Grown(tree, tree'), line' = line
  PROVE  Ready(me)' /\ (Setting(me) => Goal(me)' = Goal(me))
  <1>1. From(me) \in Paths /\ me.names \in Paths
    <2>1. Slash \in Paths
      BY DEF MkOK, TreeOK
    <2> QED
      BY <2>1 DEF Good, From
  <1>2. From(me)' = From(me)
    BY DEF From
  <1>3. (Setting(me) /\ ~me.inside) => Lookup(tree', From(me), me.names) = Lookup(tree, From(me), me.names)
    BY <1>1, LookupGrows DEF Ready
  <1>4. Setting(me)' = Setting(me) /\ keep_special_mode_bits' = keep_special_mode_bits
    BY DEF Setting, keep_special_mode_bits
  <1> QED
    BY <1>2, <1>3, <1>4 DEF Ready, Goal

\* A step of one process that makes a directory.
LEMMA GrowsOK ==
  ASSUME MkOK, MoreOK, NEW p \in Both, Running(p), NEW n, Steps(p, n), line' = line, Grown(tree, tree'), ~Setting(ps[p]), Ready(n)',
         \A x \in DOMAIN tree' : x \notin DOMAIN tree => (tree[x].by = "mkdir" => ModeOf(x))'
  PROVE  MoreOK'
  <1> DEFINE me == ps[p]
  <1>1. line.prog = "mkdir" /\ SetOK /\ ProcsOK /\ me.pc \in Active /\ n.status \in {me.status, 1}
    BY RunningFacts DEF MkOK, Steps, Moves
  <1>2. DOMAIN ps = Both /\ DOMAIN ps' = Both /\ ps'[p] = n /\ \A q \in Both : q # p => ps'[q] = ps[q]
    BY <1>1, GoesFacts DEF ProcsOK, Steps
  <1>3. FamilyOK' /\ CountOK'
    BY <1>1, FamilyMoves, CountMoves DEF MoreOK, Steps
  <1>4. n.pc \notin {"none", "main"} /\ me.pc \notin {"none", "main", "exit", "killed"}
    BY <1>1 DEF Steps, Active, Busy
  <1>5. Failed => Failed'
    <2>1. SUFFICES ASSUME NEW q \in Both, ps[q].pc # "none", ps[q].pc = "killed" \/ ps[q].status = 1
                   PROVE  ps'[q].pc # "none" /\ (ps'[q].pc = "killed" \/ ps'[q].status = 1)
      BY DEF Failed
    <2>2. CASE q = p
      BY <1>1, <1>2, <1>4, <2>1, <2>2
    <2> QED
      BY <1>2, <2>1, <2>2
  <1>6. ASSUME NEW q \in Both, q # p, ps[q].pc # "none"
        PROVE  ps'[q] = ps[q] /\ Ready(ps[q])' /\ (Setting(ps[q]) => Setting(ps[q])' /\ Goal(ps[q])' = Goal(ps[q]))
    <2>1. PICK other : other = ps[q]
      OBVIOUS
    <2>2. ps'[q] = other /\ Good(other, tree) /\ Ready(other)
      BY <1>1, <1>2, <1>6, <2>1 DEF ProcsOK, MoreOK, ModesOK
    <2>3. Ready(other)' /\ (Setting(other) => Goal(other)' = Goal(other))
      BY <2>2, GrownReady
    <2> QED
      BY <2>1, <2>2, <2>3 DEF Ready, Setting, Goal, From
  <1>7. ASSUME NEW x, Pending(x)
        PROVE  Pending(x)'
    <2>1. PICK q \in Both : ps[q].pc # "none" /\ Setting(ps[q]) /\ x = Goal(ps[q])
      BY <1>7 DEF Pending
    <2>2. q # p
      BY <2>1
    <2> QED
      BY <1>6, <2>1, <2>2 DEF Pending
  <1>8. MadeRight'
    <2>1. SetOK' /\ Asked' = Asked
      BY <1>1 DEF SetOK, Asked
    <2>2. SUFFICES ASSUME NEW x \in DOMAIN tree', tree'[x].by = "mkdir"
                   PROVE  ModeOf(x)'
      BY <2>1 DEF MadeRight
    <2>3. CASE x \in DOMAIN tree
      <3>1. tree'[x] = tree[x] /\ ModeOf(x)
        BY <2>2, <2>3 DEF Grown, MoreOK, ModesOK, MadeRight
      <3> HIDE DEF Failed, Pending, Asked
      <3> QED
        BY <1>1, <1>5, <1>7, <2>1, <3>1 DEF ModeOf, Narrow
    <2> QED
      BY <2>2, <2>3
  <1>9. \A q \in Both : (ps[q].pc # "none" => Ready(ps[q]))'
    <2>1. SUFFICES ASSUME NEW q \in Both, ps'[q].pc # "none"
                   PROVE  Ready(ps[q])'
      OBVIOUS
    <2>2. CASE q = p
      BY <1>2, <2>2 DEF Ready, Setting, From
    <2>3. CASE q # p
      BY <1>2, <1>6, <2>1, <2>3
    <2> QED
      BY <2>2, <2>3
  <1>10. ps'.parent.pc # "main"
    BY <1>1, <1>2, <1>4 DEF ProcsOK, Both
  <1>11. ModesOK'
    BY <1>8, <1>9, <1>10 DEF ModesOK
  <1> QED
    BY <1>1, <1>3, <1>11 DEF MoreOK, CountOK

\* What has been made is found under its name.
LEMMA MadeLookup ==
  ASSUME NEW t, TreeOK(t), NEW u, Grown(t, u), NEW dir \in Paths, NEW names \in Paths, names # <<>>, MakeError(t, dir, names) = "ok",
         NewName(t, dir, names) \in DOMAIN u
  PROVE  Lookup(u, dir, names).err = "ok" /\ Lookup(u, dir, names).dir = NewName(t, dir, names)
  <1> DEFINE up == Lookup(t, dir, Front(names))
             last == Last(names)
             new == NewName(t, dir, names)
  <1>1. Front(names) \in Paths /\ last \in STRING
    BY FrontFacts DEF Paths
  <1>2. up.err = "ok" /\ Search(t, up.dir) = "ok" /\ new = Entry(up.dir, last)
    BY MakeFacts
  <1>3. Lookup(u, dir, Front(names)) = up
    BY <1>1, <1>2, LookupGrows
  <1>4. Lookup(u, dir, names) = Resolve(u, up, last)
    BY <1>3, LookupFacts
  <1> HIDE DEF up, last, new
  <1>5. Search(u, up.dir) = "ok"
    BY <1>2 DEF Search, Grown
  <1>6. Resolve(u, up, last) = [err |-> "ok", dir |-> new]
    BY <1>2, <1>5 DEF Resolve, new
  <1> QED
    BY <1>4, <1>6 DEF new

\* An ancestor is made, or passed.
LEMMA AncestorMore ==
  ASSUME MkOK, MoreOK, NEW p \in Both, mkancesdirs(p)
  PROVE  MoreOK'
  <1> DEFINE me == ps[p]
             name == Head(me.names)
             err == MakeError(tree, From(me), <<name>>)
             makes == name # ".." /\ err = "ok"
             made == CASE name = ".." -> FALSE [] name # ".." /\ err = "ok" -> TRUE [] OTHER -> me.made
             readable == name # ".." /\ err = "ok" /\ "ur" \in ancestor_mode
             tail == Tail(me.names)
  <1>1. Running(p) /\ me.pc = "ancestor" /\ UNCHANGED <<line, budget, hist>>
    BY DEF mkancesdirs
  <1>2. Good(me, tree) /\ TreeOK(tree) /\ Ready(me) /\ ~me.inside /\ ~me.want /\ ~Setting(me)
    BY <1>1, RunningFacts DEF Busy, MoreOK, ModesOK, Running, Ready, Setting
  <1>3. From(me) \in Paths /\ <<name>> \in Paths /\ <<name>> # <<>>
    BY <1>1, <1>2, AimFacts DEF Busy
  <1>4. \/ Goes(p, [me EXCEPT !.pc = "mkdir"]) /\ UNCHANGED tree
        \/ Goes(p, [me EXCEPT !.names = tail]) /\ UNCHANGED tree
        \/ /\ tree' = IF makes THEN Made(tree, From(me), <<name>>, "dir", ancestor_mode, "ancestor") ELSE tree
           /\ Goes(p, [me EXCEPT !.pc = "open", !.made = made, !.nofollow = made, !.readable = readable])
    BY <1>2 DEF mkancesdirs, Good, ProcessFields
  <1>5. ASSUME NEW n, Goes(p, n), n.pc \in {"ancestor", "mkdir", "open"}, Alike(me, n), n.status = me.status, n.inside = me.inside, n.want = me.want,
               Grown(tree, tree'), \A x \in DOMAIN tree' : x \notin DOMAIN tree => tree'[x].by = "ancestor"
        PROVE  MoreOK'
    <2> HIDE DEF me
    <2>1. Works(me, n) /\ n.pc \notin {"none", "main", "killed"}
      BY <1>1, <1>5 DEF Works, Busy, Alike
    <2>2. Steps(p, n)
      BY <1>1, <1>5, <2>1 DEF Steps, Moves, me
    <2>3. Ready(n)'
      BY <1>2, <1>5 DEF Ready, Setting
    <2>4. \A x \in DOMAIN tree' : x \notin DOMAIN tree => (tree[x].by = "mkdir" => ModeOf(x))'
      BY <1>5
    <2> QED
      BY <1>1, <1>2, <1>5, <2>2, <2>3, <2>4, GrowsOK DEF me
  <1>6. UNCHANGED tree => Grown(tree, tree')
    BY DEF Grown
  <1>7. CASE Goes(p, [me EXCEPT !.pc = "mkdir"]) /\ UNCHANGED tree
    <2> DEFINE n == [me EXCEPT !.pc = "mkdir"]
    <2> HIDE DEF me
    <2>1. n.pc = "mkdir" /\ Alike(me, n) /\ n.status = me.status /\ n.inside = me.inside /\ n.want = me.want /\ Goes(p, n)
      BY <1>2, <1>7 DEF Good, ProcessFields, Alike
    <2> HIDE DEF n
    <2> QED
      BY <1>5, <1>6, <1>7, <2>1
  <1>8. CASE Goes(p, [me EXCEPT !.names = tail]) /\ UNCHANGED tree
    <2> DEFINE n == [me EXCEPT !.names = tail]
    <2> HIDE DEF me, tail
    <2>1. n.pc = "ancestor" /\ Alike(me, n) /\ n.status = me.status /\ n.inside = me.inside /\ n.want = me.want /\ Goes(p, n)
      BY <1>1, <1>2, <1>8 DEF Good, ProcessFields, Alike
    <2> HIDE DEF n
    <2> QED
      BY <1>5, <1>6, <1>8, <2>1
  <1>9. CASE /\ tree' = IF makes THEN Made(tree, From(me), <<name>>, "dir", ancestor_mode, "ancestor") ELSE tree
             /\ Goes(p, [me EXCEPT !.pc = "open", !.made = made, !.nofollow = made, !.readable = readable])
    <2> DEFINE n == [me EXCEPT !.pc = "open", !.made = made, !.nofollow = made, !.readable = readable]
               k == "dir"
               by == "ancestor"
    <2>1. Grown(tree, tree') /\ \A x \in DOMAIN tree' : x \notin DOMAIN tree => tree'[x].by = by
      <3>1. CASE makes
        <4>1. ancestor_mode \in SUBSET CHMOD_MODE_BITS /\ k \in {"dir", "reg", "nod"} /\ by \in {"before", "other", "ancestor", "mkdir"}
          BY RunningFacts, <1>1 DEF ancestor_mode, CHMOD_MODE_BITS, S_IRWXUGO, S_IWUGO, S_IXUGO
        <4> DEFINE one == <<name>>
                   from == From(me)
        <4>2. one \in Paths /\ one # <<>> /\ from \in Paths /\ MakeError(tree, from, one) = "ok"
          BY <1>3, <3>1
        <4>3. tree' = Made(tree, from, one, k, ancestor_mode, by)
          BY <1>9, <3>1
        <4> DEFINE new == NewName(tree, from, one)
                   file == [kind |-> k, mode |-> ancestor_mode, by |-> by]
        <4> HIDE DEF me, name, k, by, one, from
        <4>4. Adds(Made(tree, from, one, k, ancestor_mode, by), tree, new, file)
          BY <1>2, <4>1, <4>2, MadeFacts
        <4>5. file.by = by
          OBVIOUS
        <4> HIDE DEF new, file
        <4> QED
          BY <4>3, <4>4, <4>5 DEF Adds, Grown
      <3>2. CASE ~makes
        BY <1>6, <1>9, <3>2
      <3> QED
        BY <3>1, <3>2
    <2>2. Goes(p, n)
      BY <1>9
    <2> HIDE DEF me, made, readable
    <2>3. n.pc = "open" /\ Alike(me, n) /\ n.status = me.status /\ n.inside = me.inside /\ n.want = me.want
      BY <1>2 DEF Good, ProcessFields, Alike
    <2> HIDE DEF n
    <2> QED
      BY <1>5, <2>1, <2>2, <2>3
  <1> QED
    BY <1>4, <1>7, <1>8, <1>9

\* A step of one process that makes the directory it was told to.
LEMMA NewDirMore ==
  ASSUME MkOK, MoreOK, NEW p \in Both, Running(p), NEW n, Steps(p, n), line' = line, ~Setting(ps[p]), Ready(n)', Grown(tree, tree'),
         NEW new, DOMAIN tree' = DOMAIN tree \cup {new}, tree'[new].kind = "dir", Narrow(tree'[new].mode), tree'[new].mode \cap SetIds = {},
         line.mode.kind # "text" => tree'[new].mode = Asked \/ (Setting(n)' /\ Goal(n)' = new)
  PROVE  MoreOK'
  <1>1. ps'[p] = n /\ line.prog = "mkdir" /\ n.pc # "none"
    BY RunningFacts, GoesFacts DEF MkOK, ProcsOK, Steps
  <1>2. Asked' = Asked
    BY DEF Asked
  <1>3. (Setting(n)' /\ Goal(n)' = new) => Pending(new)'
    BY <1>1 DEF Pending, Setting, Goal, From
  <1>4. ModeOf(new)'
    <2> HIDE DEF Asked, Pending, Failed
    <2> QED
      BY <1>1, <1>2, <1>3 DEF ModeOf, Narrow
  <1>5. \A x \in DOMAIN tree' : x \notin DOMAIN tree => (tree[x].by = "mkdir" => ModeOf(x))'
    BY <1>4
  <1> QED
    BY <1>5, GrowsOK

\* The directory itself is made: with its mode, or to be given it.
LEMMA MakeDirMore ==
  ASSUME MkOK, MoreOK, NEW p \in Both, MakeDir(p)
  PROVE  MoreOK'
  <1>0. PICK me : me = ps[p]
    OBVIOUS
  <1> DEFINE err == MakeError(tree, From(me), me.names)
             m == mkdir_mode \ (line.set.umask \cup SetIds)
             readable == "ur" \in line.set.mode
  <1>1. Running(p) /\ me.pc = "mkdir" /\ UNCHANGED <<line, budget>>
    BY <1>0 DEF MakeDir
  <1>2. Good(me, tree) /\ TreeOK(tree) /\ SetOK /\ line.prog = "mkdir" /\ Ready(me) /\ ~me.inside /\ ~me.want /\ ~Setting(me) /\ DOMAIN ps = Both
    BY <1>0, <1>1, RunningFacts DEF Busy, MoreOK, ModesOK, Running, Ready, Setting, MkOK, ProcsOK
  <1>3. From(me) \in Paths /\ me.names \in Paths /\ me.names # <<>>
    BY <1>1, <1>2, AimFacts DEF Busy, Good
  <1>4. \/ Goes(p, [me EXCEPT !.pc = "stat", !.err = err]) /\ UNCHANGED <<tree, hist>>
        \/ /\ err = "ok" /\ tree' = Made(tree, From(me), me.names, "dir", m, "mkdir")
           /\ \/ keep_special_mode_bits /\ Acted(p, me, TRUE)
              \/ /\ ~keep_special_mode_bits
                 /\ Goes(p, [me EXCEPT !.pc = "open", !.want = TRUE, !.nofollow = TRUE, !.readable = readable]) /\ UNCHANGED hist
    BY <1>0 DEF MakeDir
  <1>5. CASE Goes(p, [me EXCEPT !.pc = "stat", !.err = err]) /\ UNCHANGED <<tree, hist>>
    <2> DEFINE n == [me EXCEPT !.pc = "stat", !.err = err]
    <2> HIDE DEF err
    <2>1. n.pc = "stat" /\ Alike(me, n) /\ n.status = me.status /\ n.inside = me.inside /\ n.want = me.want /\ Goes(p, n)
      BY <1>2, <1>5 DEF Good, ProcessFields, Alike
    <2> HIDE DEF n
    <2>2. Works(me, n) /\ n.pc \notin {"none", "main", "killed"}
      BY <1>1, <2>1 DEF Works, Busy, Alike
    <2>3. Ready(n)
      BY <1>2, <2>1 DEF Ready, Setting
    <2>4. Steps(p, n) /\ Steers(me, n)
      BY <1>0, <1>2, <1>5, <2>1, <2>2, <2>3 DEF Steps, Moves, Steers
    <2> QED
      BY <1>0, <1>1, <2>4, SteersOK
  <1>6. CASE /\ err = "ok" /\ tree' = Made(tree, From(me), me.names, "dir", m, "mkdir")
             /\ \/ keep_special_mode_bits /\ Acted(p, me, TRUE)
                \/ /\ ~keep_special_mode_bits
                   /\ Goes(p, [me EXCEPT !.pc = "open", !.want = TRUE, !.nofollow = TRUE, !.readable = readable]) /\ UNCHANGED hist
    <2> DEFINE k == "dir"
               by == "mkdir"
               names == me.names
    <2>1. PICK from \in Paths : from = From(me)
      BY <1>3
    <2>2. PICK new : new = NewName(tree, from, names)
      OBVIOUS
    <2>3. PICK mode : mode = m
      OBVIOUS
    <2>4. mode \in SUBSET CHMOD_MODE_BITS /\ k \in {"dir", "reg", "nod"} /\ by \in {"before", "other", "ancestor", "mkdir"}
      BY <1>2, <2>3 DEF mkdir_mode, SetOK
    <2>5. tree' = Made(tree, from, names, k, mode, by) /\ names \in Paths /\ names # <<>> /\ MakeError(tree, from, names) = "ok"
      BY <1>3, <1>6, <2>1, <2>3
    <2>6. DOMAIN tree' = DOMAIN tree \cup {new} /\ tree'[new] = [kind |-> k, mode |-> mode, by |-> by] /\ Grown(tree, tree')
      <3> DEFINE file == [kind |-> k, mode |-> mode, by |-> by]
      <3> HIDE DEF k, by, names
      <3>1. Adds(Made(tree, from, names, k, mode, by), tree, new, file)
        BY <1>2, <2>1, <2>2, <2>4, <2>5, MadeFacts
      <3> HIDE DEF file
      <3>2. DOMAIN tree' = DOMAIN tree \cup {new} /\ tree'[new] = file /\ Grown(tree, tree')
        BY <2>5, <3>1 DEF Adds, Grown
      <3> QED
        BY <3>2 DEF file
    <2>7. tree'[new].kind = "dir" /\ tree'[new].mode = mode
      BY <2>6
    <2>8. mode \cap SetIds = {} /\ (~keep_special_mode_bits => mode \cap {"gw", "ow"} = {})
      BY <2>3 DEF mkdir_mode
    <2>9. keep_special_mode_bits => line.set.mode \cap (SetIds \cup {"t"}) = {}
      BY <1>2 DEF keep_special_mode_bits, SetOK
    <2>10. keep_special_mode_bits /\ line.mode.kind # "text" => mode = Asked
      BY <1>2, <2>3, <2>9 DEF mkdir_mode, SetOK
    <2>11. Narrow(mode)
      BY <2>8, <2>9 DEF Narrow
    <2> HIDE DEF m
    <2>12. CASE keep_special_mode_bits /\ Acted(p, me, TRUE)
      <3> DEFINE ok == TRUE
      <3>1. ok \in BOOLEAN /\ Acted(p, me, ok) /\ DOMAIN me = ProcessFields /\ Alike(me, me) /\ me.pc \in Busy
        BY <1>1, <1>2, <2>12 DEF Good, Alike, Busy
      <3> HIDE DEF ok
      <3>2. PICK n : Steps(p, n) /\ n.pc = "restore"
        BY <1>0, <1>1, <3>1, ActedMoves
      <3>3. Ready(n)'
        BY <3>2 DEF Ready, Setting, Busy
      <3> QED
        BY <1>0, <1>1, <1>2, <2>6, <2>7, <2>8, <2>10, <2>11, <2>12, <3>2, <3>3, NewDirMore
    <2>13. CASE /\ ~keep_special_mode_bits
                /\ Goes(p, [me EXCEPT !.pc = "open", !.want = TRUE, !.nofollow = TRUE, !.readable = readable]) /\ UNCHANGED hist
      <3>1. PICK n : n = [me EXCEPT !.pc = "open", !.want = TRUE, !.nofollow = TRUE, !.readable = readable]
        OBVIOUS
      <3> HIDE DEF readable
      <3>2. n.pc = "open" /\ Alike(me, n) /\ n.status = me.status /\ n.inside = me.inside /\ n.want = TRUE /\ Goes(p, n)
            /\ n.root = me.root /\ n.cwd = me.cwd /\ n.names = names
        BY <1>2, <2>13, <3>1 DEF Good, ProcessFields, Alike
      <3>3. Works(me, n) /\ n.pc \notin {"none", "main", "killed"}
        BY <1>1, <3>2 DEF Works, Busy, Alike
      <3>4. Steps(p, n)
        BY <1>0, <2>13, <3>2, <3>3 DEF Steps, Moves
      <3>5. Lookup(tree', from, names).err = "ok" /\ Lookup(tree', from, names).dir = new
        <4>1. new \in DOMAIN tree'
          BY <2>6
        <4> HIDE DEF names
        <4> QED
          BY <1>2, <2>2, <2>5, <2>6, <4>1, MadeLookup
      <3>6. From(n)' = from /\ keep_special_mode_bits' = keep_special_mode_bits
        BY <1>1, <2>1, <3>2 DEF From, keep_special_mode_bits
      <3>7. Ready(n)' /\ Setting(n)' /\ Goal(n)' = new
        BY <1>2, <2>13, <3>2, <3>5, <3>6 DEF Ready, Setting, Goal, Busy
      <3> QED
        BY <1>0, <1>1, <1>2, <2>6, <2>7, <2>8, <2>11, <3>4, <3>7, NewDirMore
    <2> QED
      BY <1>6, <2>12, <2>13
  <1> QED
    BY <1>4, <1>5, <1>6

\* A step of one process that is done with the mode of what it has made.
LEMMA SetsOK ==
  ASSUME MkOK, MoreOK, NEW p \in Both, Running(p), ps[p].pc = "chmod", NEW n, Steps(p, n), n.pc = "restore", line' = line, NEW dir, dir = Goal(ps[p]),
         DOMAIN tree' = DOMAIN tree,
         \A x \in DOMAIN tree : tree'[x].kind = tree[x].kind /\ tree'[x].by = tree[x].by /\ (x # dir => tree'[x].mode = tree[x].mode),
         dir \in DOMAIN tree /\ tree[dir].by = "mkdir" =>
           \/ n.status = 1 /\ tree'[dir].mode = tree[dir].mode
           \/ /\ Narrow(tree'[dir].mode) /\ tree'[dir].mode \cap SetIds \subseteq line.set.mode
              /\ line.mode.kind # "text" => tree'[dir].mode = Asked
  PROVE  MoreOK'
  <1> DEFINE me == ps[p]
  <1>1. line.prog = "mkdir" /\ SetOK /\ ProcsOK /\ me.pc \in Active /\ n.status \in {me.status, 1}
    BY RunningFacts DEF MkOK, Steps, Moves
  <1>2. DOMAIN ps = Both /\ DOMAIN ps' = Both /\ ps'[p] = n /\ \A q \in Both : q # p => ps'[q] = ps[q]
    BY <1>1, GoesFacts DEF ProcsOK, Steps
  <1>3. FamilyOK' /\ CountOK'
    BY <1>1, FamilyMoves, CountMoves DEF MoreOK, Steps
  <1>4. Failed => Failed'
    <2>1. SUFFICES ASSUME NEW q \in Both, ps[q].pc # "none", ps[q].pc = "killed" \/ ps[q].status = 1
                   PROVE  ps'[q].pc # "none" /\ (ps'[q].pc = "killed" \/ ps'[q].status = 1)
      BY DEF Failed
    <2>2. CASE q = p
      BY <1>1, <1>2, <2>1, <2>2
    <2> QED
      BY <1>2, <2>1, <2>2
  <1>5. n.status = 1 => Failed'
    BY <1>2 DEF Failed
  <1>6. \A q \in Both : q # p => ps[q].pc = "none" \/ ps[q].pc \notin Busy
    <2>1. FamilyOK
      BY <1>1 DEF MoreOK
    <2>2. p = "child" => ps.parent.pc \in {"next", "restore"}
      BY <2>1 DEF FamilyOK
    <2>3. p = "parent" => ps.child.pc = "none"
      BY <2>1 DEF FamilyOK
    <2> QED
      BY <2>2, <2>3 DEF Both, Busy
  <1>7. ASSUME NEW x, Pending(x)
        PROVE  x = dir
    BY <1>6, <1>7 DEF Pending, Setting, Busy
  <1>8. MadeRight'
    <2>1. SetOK' /\ Asked' = Asked
      BY <1>1 DEF SetOK, Asked
    <2>2. SUFFICES ASSUME NEW x \in DOMAIN tree', tree'[x].by = "mkdir"
                   PROVE  ModeOf(x)'
      BY <2>1 DEF MadeRight
    <2>3. ModeOf(x) /\ tree[x].by = "mkdir"
      BY <2>2 DEF MoreOK, ModesOK, MadeRight
    <2> HIDE DEF Failed, Pending, Asked
    <2>4. CASE x = dir
      BY <1>1, <1>5, <2>1, <2>3, <2>4 DEF ModeOf, Narrow
    <2>5. CASE x # dir
      BY <1>1, <1>4, <1>7, <2>1, <2>2, <2>3, <2>5 DEF ModeOf, Narrow
    <2> QED
      BY <2>4, <2>5
  <1>9. \A q \in Both : (ps[q].pc # "none" => Ready(ps[q]))'
    <2>1. SUFFICES ASSUME NEW q \in Both, ps'[q].pc # "none"
                   PROVE  Ready(ps[q])'
      OBVIOUS
    <2>2. ps'[q].pc \notin Busy
      BY <1>2, <1>6, <2>1 DEF Busy
    <2> QED
      BY <2>2 DEF Ready, Setting, Busy
  <1>10. ps'.parent.pc # "main"
    BY <1>1, <1>2 DEF ProcsOK, Both
  <1>11. ModesOK'
    BY <1>8, <1>9, <1>10 DEF ModesOK
  <1> QED
    BY <1>1, <1>3, <1>11 DEF MoreOK, CountOK

\* The mode is set.
LEMMA DirchownmodMore ==
  ASSUME MkOK, MoreOK, NEW p \in Both, dirchownmod(p)
  PROVE  MoreOK'
  <1>0. PICK me : me = ps[p]
    OBVIOUS
  <1>1. PICK dir : dir = Goal(me)
    OBVIOUS
  <1>2. Running(p) /\ me.pc = "chmod" /\ line' = line
    BY <1>0 DEF dirchownmod
  <1>3. Good(me, tree) /\ TreeOK(tree) /\ SetOK /\ line.prog = "mkdir" /\ Ready(me) /\ Setting(me) /\ ~keep_special_mode_bits
    BY <1>0, <1>2, RunningFacts DEF Busy, MoreOK, ModesOK, Running, Ready, Setting
  <1> DEFINE old == tree[dir].mode
             new == line.set.mode \cup (old \ line.set.bits)
             changes == ((old \ line.set.mode) \cup (line.set.mode \ old)) \cap line.set.bits # {}
             e == CloseDir(me)
  <1>4. PICK failed \in BOOLEAN :
          /\ tree' = IF changes /\ ~failed THEN [tree EXCEPT ![dir].mode = new] ELSE tree
          /\ Acted(p, e, ~failed)
    BY <1>0, <1>1 DEF dirchownmod, Goal
  <1>5. DOMAIN e = ProcessFields /\ Alike(me, e) /\ e.status = me.status
    BY <1>3 DEF Good, ProcessFields, CloseDir, Alike
  <1> DEFINE ok == ~failed
  <1>6. PICK n : Steps(p, n) /\ n.pc = "restore" /\ (ok \/ n.status = 1)
    <2>1. ok \in BOOLEAN /\ Acted(p, e, ok) /\ me.pc \in Busy
      BY <1>2, <1>4 DEF Busy
    <2> HIDE DEF ok, e
    <2> QED
      BY <1>0, <1>2, <1>5, <2>1, ActedMoves
  <1>7. ASSUME dir \in DOMAIN tree, tree[dir].by = "mkdir"
        PROVE  /\ Narrow(new) /\ new \cap SetIds \subseteq line.set.mode
               /\ line.mode.kind # "text" => new = Asked /\ (~changes => old = Asked)
               /\ Narrow(old) /\ old \cap SetIds \subseteq line.set.mode
    <2>1. ModeOf(dir) /\ old \subseteq CHMOD_MODE_BITS
      BY <1>3, <1>7 DEF MoreOK, ModesOK, MadeRight, TreeOK, FileTypes
    <2>2. Narrow(old) /\ old \cap SetIds \subseteq line.set.mode
      BY <1>3, <2>1 DEF ModeOf
    <2>3. Narrow(new) /\ new \cap SetIds \subseteq line.set.mode
      BY <2>2 DEF Narrow
    <2>4. ASSUME line.mode.kind # "text"
          PROVE  new = Asked /\ (~changes => old = Asked)
      <3>1. line.set.mode \ line.set.umask = Asked /\ line.set.umask = {} /\ line.set.bits = CHMOD_MODE_BITS \ (SetIds \ Asked)
        BY <1>3, <2>4, UsualBits DEF SetOK, keep_special_mode_bits
      <3>2. line.set.mode = Asked /\ Asked \subseteq CHMOD_MODE_BITS
        BY <1>3, <3>1 DEF SetOK
      <3> HIDE DEF Asked
      <3> QED
        BY <2>1, <2>2, <3>1, <3>2
    <2> QED
      BY <2>2, <2>3, <2>4
  <1>8. DOMAIN tree' = DOMAIN tree
    BY <1>4
  <1>9. \A x \in DOMAIN tree : tree'[x].kind = tree[x].kind /\ tree'[x].by = tree[x].by /\ (x # dir => tree'[x].mode = tree[x].mode)
    <2>1. CASE tree' = tree
      BY <2>1
    <2>2. CASE tree' = [tree EXCEPT ![dir].mode = new] /\ dir \in DOMAIN tree
      <3>1. new \in SUBSET CHMOD_MODE_BITS
        BY <1>3, <2>2 DEF SetOK, TreeOK, FileTypes
      <3> HIDE DEF new
      <3> QED
        BY <1>3, <2>2, <3>1, ModeFacts
    <2>3. CASE tree' = [tree EXCEPT ![dir].mode = new] /\ dir \notin DOMAIN tree
      <3> HIDE DEF new
      <3> QED
        BY <2>3
    <2> QED
      BY <1>4, <2>1, <2>2, <2>3
  <1>10. ASSUME dir \in DOMAIN tree, tree[dir].by = "mkdir"
         PROVE  \/ n.status = 1 /\ tree'[dir].mode = tree[dir].mode
                \/ /\ Narrow(tree'[dir].mode) /\ tree'[dir].mode \cap SetIds \subseteq line.set.mode
                   /\ line.mode.kind # "text" => tree'[dir].mode = Asked
    <2>1. CASE failed
      BY <1>4, <1>6, <2>1
    <2>2. CASE ~failed /\ changes
      <3>1. new \in SUBSET CHMOD_MODE_BITS
        BY <1>3, <1>10 DEF SetOK, TreeOK, FileTypes
      <3>2. tree' = [tree EXCEPT ![dir].mode = new]
        BY <1>4, <2>2
      <3>3. tree'[dir].mode = new
        <4>1. tree[dir] \in FileTypes
          BY <1>3, <1>10 DEF TreeOK
        <4> DEFINE f == [tree[dir] EXCEPT !.mode = new]
        <4>2. tree' = [tree EXCEPT ![dir] = f]
          BY <3>2
        <4> HIDE DEF new
        <4>3. f.mode = new
          BY <4>1 DEF FileTypes
        <4> HIDE DEF f
        <4> QED
          BY <1>10, <4>2, <4>3
      <3> HIDE DEF new
      <3> QED
        BY <1>7, <1>10, <3>3
    <2>3. CASE ~failed /\ ~changes
      <3>1. tree' = tree
        BY <1>4, <2>3
      <3> QED
        BY <1>7, <1>10, <2>3, <3>1
    <2> QED
      BY <2>1, <2>2, <2>3
  <1> QED
    BY <1>0, <1>1, <1>2, <1>6, <1>8, <1>9, <1>10, SetsOK

\* Another process makes a directory.
LEMMA OtherMore ==
  ASSUME MkOK, MoreOK, Other
  PROVE  MoreOK'
  <1>1. PICK path \in OtherPaths : path \notin DOMAIN tree /\ tree' = With(tree, path, [kind |-> "dir", mode |-> S_IRWXUGO, by |-> "other"])
    BY DEF Other
  <1>2. UNCHANGED <<ps, line, hist>> /\ ProcsOK
    BY DEF Other, MkOK
  <1>3. Grown(tree, tree') /\ \A x \in DOMAIN tree' : x \notin DOMAIN tree => tree'[x].by = "other"
    BY <1>1 DEF With, Grown
  <1>4. ASSUME NEW q \in Both, ps[q].pc # "none"
        PROVE  Ready(ps[q])' /\ (Setting(ps[q]) => Setting(ps[q])' /\ Goal(ps[q])' = Goal(ps[q]))
    <2>1. PICK me : me = ps[q]
      OBVIOUS
    <2>2. ps'[q] = me /\ Good(me, tree) /\ Ready(me)
      BY <1>2, <1>4, <2>1 DEF ProcsOK, MoreOK, ModesOK
    <2>3. Ready(me)' /\ (Setting(me) => Goal(me)' = Goal(me))
      BY <1>2, <1>3, <2>2, GrownReady
    <2> QED
      BY <2>1, <2>2, <2>3 DEF Ready, Setting, Goal, From
  <1>5. Failed' = Failed
    BY <1>2 DEF Failed
  <1>6. ASSUME NEW x, Pending(x)
        PROVE  Pending(x)'
    <2>1. PICK q \in Both : ps[q].pc # "none" /\ Setting(ps[q]) /\ x = Goal(ps[q])
      BY <1>6 DEF Pending
    <2> QED
      BY <1>2, <1>4, <2>1 DEF Pending
  <1>7. MadeRight'
    <2>1. (SetOK => SetOK') /\ Asked' = Asked
      BY <1>2 DEF SetOK, Asked
    <2>2. SUFFICES ASSUME NEW x \in DOMAIN tree', tree'[x].by = "mkdir"
                   PROVE  SetOK' /\ ModeOf(x)'
      BY DEF MadeRight
    <2>3. x \in DOMAIN tree /\ tree'[x] = tree[x]
      BY <1>3, <2>2 DEF Grown
    <2>4. SetOK' /\ ModeOf(x)
      BY <2>1, <2>2, <2>3 DEF MoreOK, ModesOK, MadeRight
    <2> HIDE DEF Failed, Pending, Asked
    <2> QED
      BY <1>2, <1>5, <1>6, <2>1, <2>3, <2>4 DEF ModeOf, Narrow
  <1>8. ModesOK'
    <2>1. ps'.parent.pc = "main" => \A x \in DOMAIN tree' : tree'[x].by # "mkdir"
      BY <1>2, <1>3 DEF MoreOK, ModesOK, Grown
    <2>2. \A q \in Both : (ps[q].pc # "none" => Ready(ps[q]))'
      BY <1>2, <1>4
    <2> QED
      BY <1>7, <2>1, <2>2 DEF ModesOK
  <1>9. (FamilyOK <=> FamilyOK') /\ (CountOK <=> CountOK')
    <2>1. LastRelative' = LastRelative /\ \A i : Later(i)' = Later(i) /\ Upto(i)' = Upto(i)
      BY <1>2 DEF LastRelative, Later, Upto
    <2>2. FamilyOK <=> FamilyOK'
      BY <1>2, <2>1 DEF FamilyOK, Turn, Restores
    <2>3. Worker' = Worker /\ (Tallied(Worker)' <=> Tallied(Worker))
      BY <1>2, <2>1 DEF Worker, Tallied, Progress
    <2> QED
      BY <1>2, <2>1, <2>2, <2>3 DEF CountOK
  <1> QED
    BY <1>2, <1>8, <1>9 DEF MoreOK

\* main() makes nothing yet.
LEMMA MainMore ==
  ASSUME MkOK, MoreOK, ps.parent.pc = "main", UNCHANGED <<tree, hist>>, NEW n, Goes("parent", n), n.pc \in {"next", "exit"},
         n.i = ps.parent.i, n.child = ps.parent.child, n.pc = "exit" => line' = line, line'.prog = line.prog, line'.ops = line.ops
  PROVE  MoreOK'
  <1>1. DOMAIN ps = Both /\ "parent" \in Both /\ ps.child.pc = "none" /\ line.set = Unset /\ Len(line.ops) \in Nat
    BY DEF MkOK, ProcsOK, Both, LineOK
  <1>2. ps'.parent = n /\ ps'.child = ps.child /\ ps'["parent"] = n /\ ps'["child"] = ps.child
    BY <1>1 DEF Goes
  <1>3. ModesOK'
    <2>1. \A x \in DOMAIN tree' : tree'[x].by # "mkdir"
      BY DEF MoreOK, ModesOK
    <2>2. \A q \in Both : (ps[q].pc # "none" => Ready(ps[q]))'
      BY <1>1, <1>2 DEF Both, Ready, Setting, Busy
    <2> QED
      BY <2>1, <2>2 DEF ModesOK, MadeRight
  <1>4. \A k \in 1..Len(line'.ops) : hist'.acted[k] <= 1
    BY DEF MoreOK
  <1>5. ASSUME line.prog = "mkdir"
        PROVE  FamilyOK' /\ CountOK'
    <2>1. hist.acted = Upto(1) /\ ps.parent.i = 1 /\ ps.parent.child \notin {"child", "self"}
      BY <1>1, <1>5 DEF MoreOK, CountOK, FamilyOK
    <2>2. FamilyOK'
      BY <1>1, <1>2, <2>1 DEF FamilyOK, Busy
    <2>3. Upto(1)' = Upto(1)
      BY DEF Upto
    <2>4. Worker' = n
      BY <1>1, <1>2 DEF Worker
    <2> HIDE DEF Worker
    <2>5. n.pc = "next" => Tallied(Worker)'
      BY <2>1, <2>3, <2>4 DEF Tallied, Progress
    <2>6. CountOK'
      BY <1>1, <1>2, <1>4, <2>5 DEF CountOK
    <2> QED
      BY <2>2, <2>6
  <1> QED
    BY <1>3, <1>4, <1>5 DEF MoreOK

\* main() of the four programs.
LEMMA MainsMore ==
  ASSUME MkOK, MoreOK, MainFails \/ mkdir_main \/ rmdir_main \/ nod_main
  PROVE  MoreOK'
  <1>1. ps.parent.pc = "main" /\ UNCHANGED <<tree, hist>>
    BY DEF MainFails, mkdir_main, rmdir_main, nod_main
  <1>2. Good(ps.parent, tree) /\ DOMAIN line = LineFields
    BY <1>1, AloneFacts DEF LineOK
  <1>3. \/ Exits(1) /\ UNCHANGED line
        \/ \E set : line' = [line EXCEPT !.set = set] /\ Goes("parent", [ps.parent EXCEPT !.pc = "next"])
    BY Zenon DEF MainFails, mkdir_main, rmdir_main, nod_main, Starts
  <1>4. CASE Exits(1) /\ UNCHANGED line
    <2> DEFINE n == [ps.parent EXCEPT !.pc = "exit", !.status = 1]
    <2>1. Goes("parent", n)
      BY <1>4 DEF Exits
    <2>2. n.pc = "exit" /\ n.i = ps.parent.i /\ n.child = ps.parent.child
      BY <1>2 DEF Good, ProcessFields
    <2> HIDE DEF n
    <2> QED
      BY <1>1, <1>4, <2>1, <2>2, MainMore
  <1>5. CASE \E set : line' = [line EXCEPT !.set = set] /\ Goes("parent", [ps.parent EXCEPT !.pc = "next"])
    <2> DEFINE n == [ps.parent EXCEPT !.pc = "next"]
    <2>1. Goes("parent", n)
      BY <1>5
    <2>2. n.pc = "next" /\ n.i = ps.parent.i /\ n.child = ps.parent.child
      BY <1>2 DEF Good, ProcessFields
    <2> HIDE DEF n
    <2>3. line'.prog = line.prog /\ line'.ops = line.ops
      BY <1>2, <1>5 DEF LineFields
    <2> QED
      BY <1>1, <2>1, <2>2, <2>3, MainMore
  <1> QED
    BY <1>3, <1>4, <1>5

\* A step of a program without a child, in its loop over the operands.
LEMMA LoopMore ==
  ASSUME MkOK, MoreOK, line.prog # "mkdir", UNCHANGED <<line, hist>>, NEW n, Goes("parent", n), n.pc \in {"next", "judge", "exit"},
         \A x \in DOMAIN tree' : tree'[x].by = "mkdir" =>
           \/ x \in DOMAIN tree /\ tree'[x] = tree[x]
           \/ SetOK /\ tree'[x].kind = "nod" /\ tree'[x].mode \subseteq S_IRWXUGO /\ (line.mode.kind # "text" => tree'[x].mode = Asked)
  PROVE  MoreOK'
  <1>1. DOMAIN ps = Both /\ ps.child.pc = "none"
    BY DEF MkOK, ProcsOK
  <1>2. ps'.parent = n /\ ps'["parent"] = n /\ ps'["child"] = ps.child
    BY <1>1 DEF Goes, Both
  <1>3. MadeRight'
    <2>1. (SetOK => SetOK') /\ Asked' = Asked
      BY DEF SetOK, Asked
    <2>2. SUFFICES ASSUME NEW x \in DOMAIN tree', tree'[x].by = "mkdir"
                   PROVE  SetOK' /\ ModeOf(x)'
      BY DEF MadeRight
    <2>3. CASE x \in DOMAIN tree /\ tree'[x] = tree[x]
      <3>1. SetOK' /\ ModeOf(x)
        BY <2>1, <2>2, <2>3 DEF MoreOK, ModesOK, MadeRight
      <3> HIDE DEF Asked
      <3> QED
        BY <2>1, <2>3, <3>1 DEF ModeOf
    <2>4. CASE SetOK /\ tree'[x].kind = "nod" /\ tree'[x].mode \subseteq S_IRWXUGO /\ (line.mode.kind # "text" => tree'[x].mode = Asked)
      <3> HIDE DEF Asked
      <3> QED
        BY <2>1, <2>4 DEF ModeOf
    <2> QED
      BY <2>2, <2>3, <2>4
  <1>4. ModesOK'
    <2>1. \A q \in Both : (ps[q].pc # "none" => Ready(ps[q]))'
      BY <1>1, <1>2 DEF Both, Ready, Setting, Busy
    <2> QED
      BY <1>2, <1>3, <2>1 DEF ModesOK
  <1> QED
    BY <1>4 DEF MoreOK

\* The loops of rmdir, mkfifo and mknod.
LEMMA LoopsMore ==
  ASSUME MkOK, MoreOK, make_nods \/ Removal \/ Judge \/ LoopEnds
  PROVE  MoreOK'
  <1> DEFINE me == ps.parent
  <1>1. line.prog # "mkdir" /\ UNCHANGED <<line, hist>> /\ me.pc \in {"next", "judge"}
    BY DEF make_nods, Removal, Judge, LoopEnds, Parent
  <1>2. Good(me, tree) /\ TreeOK(tree) /\ LineOK /\ SetOK /\ Len(line.ops) \in Nat
    BY <1>1, AloneFacts DEF Active
  <1>3. CASE make_nods
    <2> DEFINE from == Start(Operand)
               names == Operand.names
               k == "nod"
               by == "mkdir"
               mode == line.set.mode \ line.set.umask
               made == Made(tree, from, names, k, mode, by)
    <2>1. line.prog \in {"mkfifo", "mknod"} /\ me.pc = "next" /\ me.i \in 1..Len(line.ops)
      BY <1>2, <1>3 DEF make_nods, Parent, LineOK
    <2>2. PICK who \in {me, [me EXCEPT !.status = 1]} :
            Goes("parent", Onward(who)) /\ ((MakeError(tree, from, names) = "ok" /\ tree' = made) \/ tree' = tree)
      BY <1>3 DEF make_nods, Parent, Fails
    <2> DEFINE n == Onward(who)
    <2>3. n.pc = "next" /\ Goes("parent", n)
      <3>1. Good(who, tree) /\ who.pc = "next" /\ who.i \in 1..Len(line.ops)
        BY <1>2, <2>1, <2>2, OnwardFacts
      <3> QED
        BY <1>2, <2>2, <3>1, OnwardFacts
    <2> HIDE DEF n
    <2>4. \A x \in DOMAIN tree' : \/ x \in DOMAIN tree /\ tree'[x] = tree[x]
                                  \/ tree'[x].kind = "nod" /\ tree'[x].mode = mode
      <3>1. CASE tree' = tree
        BY <3>1
      <3>2. CASE MakeError(tree, from, names) = "ok" /\ tree' = made
        <4>1. from \in Paths /\ names \in Paths /\ names # <<>>
          BY <1>2, <2>1, StartFacts
        <4>2. k \in {"dir", "reg", "nod"} /\ by \in {"before", "other", "ancestor", "mkdir"} /\ mode \in SUBSET CHMOD_MODE_BITS
          BY <1>2 DEF SetOK
        <4> DEFINE new == NewName(tree, from, names)
                   file == [kind |-> k, mode |-> mode, by |-> by]
        <4>3. file.kind = "nod" /\ file.mode = mode
          OBVIOUS
        <4> HIDE DEF from, names, k, by, mode
        <4>4. Adds(Made(tree, from, names, k, mode, by), tree, new, file)
          BY <1>2, <3>2, <4>1, <4>2, MadeFacts
        <4> HIDE DEF file, new
        <4> QED
          BY <3>2, <4>3, <4>4 DEF Adds
      <3> QED
        BY <2>2, <3>1, <3>2
    <2>5. mode \subseteq S_IRWXUGO /\ (line.mode.kind # "text" => mode = Asked)
      BY <1>2, <2>1 DEF SetOK
    <2> HIDE DEF mode
    <2> QED
      BY <1>1, <1>2, <2>3, <2>4, <2>5, LoopMore
  <1>4. ASSUME NEW n, Goes("parent", n), n.pc \in {"next", "judge", "exit"}, \A x \in DOMAIN tree' : x \in DOMAIN tree /\ tree'[x] = tree[x]
        PROVE  MoreOK'
    BY <1>1, <1>4, LoopMore
  <1>5. CASE Removal
    <2> DEFINE names == IF me.want THEN me.names ELSE Operand.names
               err == RmdirError(tree, Start(Operand), names)
               d == Lookup(tree, Start(Operand), names).dir
               front == Front(names)
               judged == [me EXCEPT !.pc = "judge", !.err = err, !.names = names]
               up == [me EXCEPT !.want = TRUE, !.names = front]
               on == [Onward(me) EXCEPT !.want = FALSE]
    <2>1. /\ tree' = tree \/ tree' = [x \in DOMAIN tree \ {d} |-> tree[x]]
          /\ Goes("parent", judged) \/ Goes("parent", on) \/ Goes("parent", up)
      BY <1>5 DEF Removal, Parent
    <2>2. me.pc = "next" /\ me.i \in 1..Len(line.ops)
      BY <1>2, <1>5 DEF Removal, Parent, LineOK
    <2>3. \A x \in DOMAIN tree' : x \in DOMAIN tree /\ tree'[x] = tree[x]
      <3> HIDE DEF d
      <3> QED
        BY <2>1
    <2> HIDE DEF names, err, front
    <2>4. judged.pc = "judge" /\ up.pc = "next"
      <3> HIDE DEF me
      <3> QED
        BY <1>2, <2>2 DEF Good, ProcessFields
    <2>5. on.pc = "next"
      BY <1>2, <2>2, OnwardFacts
    <2> HIDE DEF judged, up, on
    <2> QED
      BY <1>4, <2>1, <2>3, <2>4, <2>5
  <1>6. CASE Judge
    <2>1. PICK who \in {me, [me EXCEPT !.status = 1]} : Goes("parent", [Onward(who) EXCEPT !.want = FALSE, !.err = "ok"]) /\ tree' = tree
      BY <1>6 DEF Judge, Parent, Fails
    <2> DEFINE n == [Onward(who) EXCEPT !.want = FALSE, !.err = "ok"]
    <2>2. n.pc = "next" /\ Goes("parent", n)
      <3>1. me.pc = "judge" /\ me.i \in 1..Len(line.ops)
        BY <1>2, <1>6 DEF Judge, Parent, Good
      <3>2. Good(who, tree) /\ who.pc = "judge" /\ who.i \in 1..Len(line.ops)
        BY <1>2, <2>1, <3>1, OnwardFacts
      <3> QED
        BY <1>2, <2>1, <3>2, OnwardFacts
    <2> HIDE DEF n
    <2> QED
      BY <1>4, <2>1, <2>2
  <1>7. CASE LoopEnds
    <2> DEFINE s == me.status
               n == [me EXCEPT !.pc = "exit", !.status = s]
    <2>1. Goes("parent", n) /\ tree' = tree
      BY <1>7 DEF LoopEnds, Exits, Parent
    <2> HIDE DEF s
    <2>2. n.pc = "exit"
      BY <1>2 DEF Good, ProcessFields
    <2> HIDE DEF n
    <2> QED
      BY <1>4, <2>1, <2>2
  <1> QED
    BY <1>3, <1>5, <1>6, <1>7

\* It all holds when a program starts.
LEMMA MoreInit ==
  ASSUME MkInit
  PROVE  MoreOK
  <1>1. /\ tree \in Trees /\ ps = [parent |-> Process, child |-> Nobody] /\ line \in Lines
        /\ hist = [acted |-> [i \in DOMAIN line.ops |-> 0], lost |-> FALSE]
    BY DEF MkInit
  <1>2. line.set = Unset /\ line.ops \in Seq([abs : BOOLEAN, names : Seq(STRING) \ {<<>>}])
    BY <1>1, LinesAssumption
  <1>3. hist.acted = Upto(1)
    <2>1. DOMAIN line.ops = 1..Len(line.ops) /\ Len(line.ops) \in Nat
      BY <1>2
    <2>2. \A k \in 1..Len(line.ops) : ~(k < 1)
      BY <2>1
    <2> QED
      BY <1>1, <2>1, <2>2 DEF Upto
  <1>4. ps.parent = Process /\ ps["parent"] = Process /\ ps["child"] = Nobody /\ ps.child = Nobody
    BY <1>1
  <1>5. Process.pc = "main" /\ Process.i = 1 /\ Process.child = "none" /\ Nobody.pc = "none"
    BY DEF Process, Nobody
  <1> DEFINE me == Process
             none == Nobody
  <1> HIDE DEF me, none
  <1>6. \A x \in DOMAIN tree : tree[x].by # "mkdir"
    BY <1>1, TreesAssumption
  <1>7. ModesOK
    <2>1. Ready(me)
      BY <1>5 DEF Ready, Setting, Busy, me
    <2> QED
      BY <1>4, <1>5, <1>6, <2>1 DEF ModesOK, MadeRight, Both, me
  <1>8. FamilyOK
    BY <1>4, <1>5 DEF FamilyOK, Busy
  <1>9. \A k \in 1..Len(line.ops) : hist.acted[k] <= 1
    BY <1>3 DEF Upto
  <1>10. CountOK
    BY <1>2, <1>3, <1>4, <1>5, <1>9 DEF CountOK
  <1> QED
    BY <1>7, <1>8, <1>9, <1>10 DEF MoreOK

\* Nothing has changed.
LEMMA MoreStays ==
  ASSUME MoreOK, UNCHANGED mkvars
  PROVE  MoreOK'
  <1>1. tree' = tree /\ ps' = ps /\ line' = line /\ hist' = hist
    BY DEF mkvars
  <1>2. (FamilyOK => FamilyOK') /\ (CountOK => CountOK')
    <2>1. LastRelative' = LastRelative /\ \A i : Later(i)' = Later(i) /\ Upto(i)' = Upto(i)
      BY <1>1 DEF LastRelative, Later, Upto
    <2>2. FamilyOK => FamilyOK'
      BY <1>1, <2>1 DEF FamilyOK, Turn, Restores
    <2>3. Worker' = Worker /\ (Tallied(Worker) => Tallied(Worker)')
      BY <1>1, <2>1 DEF Worker, Tallied, Progress
    <2> QED
      BY <1>1, <2>1, <2>2, <2>3 DEF CountOK
  <1>3. ModesOK'
    <2>1. Failed' = Failed /\ \A x : Pending(x)' = Pending(x)
      BY <1>1 DEF Failed, Pending, Setting, Goal, From
    <2>2. MadeRight'
      BY <1>1, <2>1, MadeStays DEF MoreOK, ModesOK
    <2>3. \A q \in Both : (ps[q].pc # "none" => Ready(ps[q]))'
      BY <1>1 DEF MoreOK, ModesOK, Ready, Setting, From, keep_special_mode_bits
    <2> QED
      BY <1>1, <2>2, <2>3 DEF MoreOK, ModesOK
  <1> QED
    BY <1>1, <1>2, <1>3 DEF MoreOK

\* Every step of the four programs.
LEMMA MoreNext ==
  ASSUME MkOK, MoreOK, MkNext
  PROVE  MoreOK'
  <1>1. ASSUME NEW p \in Both, MkdirStep(p)
        PROVE  MoreOK'
    BY <1>1, ActingMore, RestoreMore, ChdirOpenMore, SaveMore, ChdirMore, AncestorMore, MakeDirMore, ExistingMore, DirchownmodMore DEF MkdirStep
  <1> QED
    BY <1>1, OtherMore, KillMore, MainsMore, LoopsMore DEF MkNext, Both

\* Either one of the four programs runs, and all is as it should be, or none does.
ModesInv == MkIdle \/ (MkOK /\ MoreOK)

\* It holds at first, whichever program is run.
LEMMA ModesInit ==
  ASSUME CoreInit
  PROVE  ModesInv
  BY MkInitOK, MoreInit DEF CoreInit, ModesInv

\* Every step keeps it.
LEMMA ModesNext ==
  ASSUME ModesInv, [CoreNext]_<<vars, mkvars>>
  PROVE  ModesInv'
  <1>1. CASE UNCHANGED mkvars
    <2>1. MkIdle => MkIdle'
      BY <1>1 DEF MkIdle, mkvars
    <2> QED
      BY <1>1, <2>1, MkStaysOK, MoreStays DEF ModesInv
  <1>2. CASE MkNext
    BY <1>2, MkIdleStays, MkNextOK, MoreNext DEF ModesInv
  <1> QED
    BY <1>1, <1>2 DEF CoreNext

\* When mkdir has succeeded nothing has failed, and no mode is still to be set.
LEMMA SucceedsFacts ==
  ASSUME MkOK, MoreOK, Succeeds, line.prog = "mkdir"
  PROVE  ~Failed /\ \A x : ~Pending(x)
  <1>1. ps.parent.pc = "exit" /\ ps.parent.status = 0 /\ ps["parent"] = ps.parent /\ ps["child"] = ps.child
    BY DEF Succeeds, Parent
  <1>2. ps.child.pc = "none"
    BY <1>1 DEF MoreOK, FamilyOK
  <1>3. ~Failed
    BY <1>1, <1>2 DEF Failed, Both
  <1>4. \A x : ~Pending(x)
    BY <1>1, <1>2 DEF Pending, Both, Setting
  <1> QED
    BY <1>3, <1>4

\* While a directory is being made it is not open to others with bits that are
\* still to be set, and the modes are those that were asked for once the program
\* has succeeded: what mkdir leaves out when it makes the directory, because of
\* the umask or until the special bits are set, it adds before it goes on, or it
\* fails.
THEOREM ModesCorrect == CoreSpec => []ModesRight
  <1>1. ModesInv => ModesRight
    <2>1. ASSUME MkIdle
          PROVE  ModesRight
      <3>1. DOMAIN tree = {}
        BY <2>1, MkIdleFacts
      <3> QED
        BY <3>1 DEF ModesRight, NarrowUntilReady, ModeAsAsked
    <2>2. ASSUME MkOK, MoreOK
          PROVE  ModesRight
      <3>1. ASSUME NEW x \in DOMAIN tree, tree[x].by = "mkdir"
            PROVE  /\ tree[x].kind = "dir" => Narrow(tree[x].mode)
                   /\ tree[x].kind = "nod" => tree[x].mode \subseteq S_IRWXUGO
                   /\ Succeeds /\ line.mode.kind # "text" => tree[x].mode = Asked
        <4>1. ModeOf(x)
          BY <2>2, <3>1 DEF MoreOK, ModesOK, MadeRight
        <4>2. CASE line.prog = "mkdir"
          <5>1. Succeeds => ~Failed /\ ~Pending(x)
            BY <2>2, <4>2, SucceedsFacts
          <5> HIDE DEF Failed, Pending, Asked, Succeeds, Narrow
          <5> QED
            BY <4>1, <4>2, <5>1 DEF ModeOf
        <4>3. CASE line.prog # "mkdir"
          <5> HIDE DEF Asked, Succeeds, Narrow
          <5> QED
            BY <4>1, <4>3 DEF ModeOf
        <4> QED
          BY <4>2, <4>3
      <3>2. NarrowUntilReady
        BY <3>1 DEF NarrowUntilReady, Narrow
      <3>3. ModeAsAsked
        <4> HIDE DEF Asked, Succeeds
        <4> QED
          BY <3>1 DEF ModeAsAsked
      <3> QED
        BY <3>2, <3>3 DEF ModesRight
    <2> QED
      BY <2>1, <2>2 DEF ModesInv
  <1> QED
    BY <1>1, ModesInit, ModesNext, PTL DEF CoreSpec

\* Every operand of mkdir is dealt with once, by the parent or by one of its
\* children; when the parent comes to the last relative operand its child is
\* gone, and neither assertion of savewd.c fails.
LEMMA MkdirOperands ==
  ASSUME ModesInv
  PROVE  OperandOnce
  <1>1. ASSUME MkIdle
        PROVE  OperandOnce
    <2>1. line.prog # "mkdir" /\ DOMAIN hist.acted = {}
      BY <1>1, MkIdleFacts
    <2> QED
      BY <2>1 DEF OperandOnce, Running
  <1>2. ASSUME MkOK, MoreOK
        PROVE  OperandOnce
    <2>1. DOMAIN hist.acted = 1..Len(line.ops) /\ Len(line.ops) \in Nat /\ LastRelative \in Nat
      BY <1>2, LastFacts DEF MkOK, HistOK, LineOK
    <2>2. \A k \in DOMAIN hist.acted : hist.acted[k] <= 1
      BY <1>2, <2>1 DEF MoreOK
    <2>3. ASSUME Running("parent"), Parent.pc = "next", Parent.i >= LastRelative
          PROVE  Parent.child = "none" /\ ps.child.pc = "none"
      <3>1. Good(ps.parent, tree) /\ FamilyOK
        <4>1. "parent" \in Both /\ ps["parent"] = ps.parent /\ ps.parent.pc # "none"
          BY <2>3 DEF Both, Parent
        <4> QED
          BY <1>2, <2>3, <4>1 DEF MoreOK, MkOK, ProcsOK, Running
      <3>2. ps.parent.i \in Nat /\ ps.parent.child \in {"none", "child", "self"}
        BY <2>1, <3>1 DEF Good
      <3>3. ~(ps.parent.i < LastRelative)
        BY <2>1, <2>3, <3>2 DEF Parent
      <3> QED
        BY <2>3, <3>1, <3>2, <3>3 DEF FamilyOK, Parent
    <2>4. ASSUME line.prog = "mkdir", Parent.pc = "exit", Started
          PROVE  \A k \in DOMAIN hist.acted : hist.acted[k] = 1
      <3>1. FamilyOK /\ CountOK /\ ps.parent.pc = "exit" /\ line.set # Unset
        BY <1>2, <2>4 DEF MoreOK, Parent, Started
      <3>2. ps.child.pc = "none"
        BY <3>1 DEF FamilyOK
      <3>3. hist.acted = Upto(ps.parent.i + 1) /\ ps.parent.i = Len(line.ops) + 1
        BY <3>1, <3>2 DEF CountOK, Tallied, Worker
      <3>4. \A k \in 1..Len(line.ops) : k < ps.parent.i + 1
        BY <2>1, <3>3
      <3> QED
        BY <2>1, <3>3, <3>4 DEF Upto
    <2> QED
      BY <2>2, <2>3, <2>4 DEF OperandOnce
  <1> QED
    BY <1>1, <1>2 DEF ModesInv

\* The walk takes one operand after the other.
FlatInv == FtsIdle \/ (FtsOK /\ OwnInv /\ FlatOK)

\* The programs start with it.
LEMMA FlatInvInit ==
  ASSUME CoreInit
  PROVE  FlatInv
  BY FtsInitOK, OwnInit, FlatInit DEF CoreInit, FlatInv

\* Every step keeps it.
LEMMA FlatInvNext ==
  ASSUME FlatInv, [CoreNext]_<<vars, mkvars>>
  PROVE  FlatInv'
  <1>1. WalkInv /\ WalkInv'
    BY WalkNext DEF FlatInv, WalkInv
  <1>2. CASE UNCHANGED vars
    <2>1. FtsIdle => FtsIdle'
      BY <1>2 DEF FtsIdle, vars
    <2>2. FlatOK => FlatOK'
      BY <1>2, FlatStays DEF vars
    <2>3. FtsIdle' \/ FlatOK'
      BY <2>1, <2>2 DEF FlatInv
    <2> QED
      BY <1>1, <2>3 DEF FlatInv, WalkInv
  <1>3. CASE FtsNext
    <2>1. FtsOK /\ OwnInv /\ FlatOK
      BY <1>3, IdleStays DEF FlatInv
    <2>2. FlatOK'
      BY <1>3, <2>1, FlatNext
    <2> QED
      BY <1>1, <2>2 DEF FlatInv, WalkInv
  <1> QED
    BY <1>2, <1>3 DEF CoreNext

\* When rm, or chown or chgrp without -R, has come to the end of its walk it has
\* reported on every operand, once and in order, whatever failed and whatever
\* other processes did; and mkdir and its children deal with every operand once.
THEOREM OperandsCorrect == CoreSpec => []OperandsOnce
  <1>1. CoreInit => FlatInv /\ ModesInv
    BY FlatInvInit, ModesInit
  <1>2. FlatInv /\ ModesInv /\ [CoreNext]_<<vars, mkvars>> => (FlatInv /\ ModesInv)'
    BY FlatInvNext, ModesNext
  <1>3. FlatInv /\ ModesInv => OperandsOnce
    <2>1. FtsIdle => EachOperandOnce
      BY DEF FtsIdle, EachOperandOnce, NoStream
    <2> QED
      BY <2>1, FlatTells, MkdirOperands DEF FlatInv, OperandsOnce
  <1> QED
    BY <1>1, <1>2, <1>3, PTL DEF CoreSpec

-----------------------------------------------------------------------------
(* What the exit status of rm and chown says.                               *)

\* No walk, or one whose status tells of what it has reported.
StatusInv == FtsIdle \/ (FtsOK /\ OwnInv /\ StatusOK)

\* The programs start with it.
LEMMA StatusInvInit ==
  ASSUME CoreInit
  PROVE  StatusInv
  BY FtsInitOK, OwnInit, StatusInit DEF CoreInit, StatusInv

\* Every step keeps it.
LEMMA StatusInvNext ==
  ASSUME StatusInv, [CoreNext]_<<vars, mkvars>>
  PROVE  StatusInv'
  <1>1. WalkInv /\ WalkInv'
    BY WalkNext DEF StatusInv, WalkInv
  <1>2. CASE UNCHANGED vars
    <2>1. FtsIdle => FtsIdle'
      BY <1>2 DEF FtsIdle, vars
    <2>2. StatusOK => StatusOK'
      BY <1>2, StatusStays DEF vars, Clean, IsRm, IsChown
    <2>3. FtsIdle' \/ StatusOK'
      BY <2>1, <2>2 DEF StatusInv
    <2> QED
      BY <1>1, <2>3 DEF StatusInv, WalkInv
  <1>3. CASE FtsNext
    <2>1. FtsOK /\ OwnInv /\ StatusOK
      BY <1>3, IdleStays DEF StatusInv
    <2>2. StatusOK'
      BY <1>3, <2>1, StatusNext
    <2> QED
      BY <1>1, <2>2 DEF StatusInv, WalkInv
  <1> QED
    BY <1>2, <1>3 DEF CoreNext

\* rm, chown and chgrp exit with 0 only if nothing they reported was a failure:
\* every file rm met was removed, declined or, with -f, missing, and no change of
\* an owner failed.
THEOREM WalkStatusCorrect == CoreSpec => [](RmStatusTells /\ ChownStatusTells)
  <1>1. CoreInit => StatusInv
    BY StatusInvInit
  <1>2. StatusInv /\ [CoreNext]_<<vars, mkvars>> => StatusInv'
    BY StatusInvNext
  <1>3. StatusInv => RmStatusTells /\ ChownStatusTells
    <2>1. FtsIdle => RmStatusTells /\ ChownStatusTells
      BY DEF FtsIdle, RmStatusTells, ChownStatusTells, IsRm, IsChown
    <2> QED
      BY <2>1, StatusHolds DEF StatusInv
  <1> QED
    BY <1>1, <1>2, <1>3, PTL DEF CoreSpec

-----------------------------------------------------------------------------
(* Where mkdir makes what it makes.                                         *)

IsPath(g, op, k) ==
  /\ g = [j \in 0..k |-> IF j = 0 THEN Start(op) ELSE Entry(g[j - 1], op.names[j])]
  /\ g \in [0..k -> Paths]

\* A part of a name.
LEMMA PartFacts ==
  ASSUME NEW names \in Paths, NEW k \in 0..Len(names), NEW d \in 0..(Len(names) - k)
  PROVE  /\ SubSeq(names, k + 1, k + d) \in Paths /\ Len(SubSeq(names, k + 1, k + d)) = d
         /\ \A j \in 1..d : SubSeq(names, k + 1, k + d)[j] = names[k + j]
  <1> DEFINE a == k + 1
             b == k + d
             s == SubSeq(names, a, b)
  <1>1. names \in Seq(STRING) /\ Len(names) \in Nat
    BY DEF Paths
  <1>2. /\ a \in Int /\ b \in Int /\ k \in Nat /\ d \in Nat /\ b - a + 1 = d /\ (IF a <= b THEN b - a + 1 ELSE 0) = d
        /\ (\A j \in a..b : j \in 1..Len(names)) /\ (\A j \in 1..d : a + j - 1 = k + j)
    BY <1>1
  <1>3. \A j \in a..b : names[j] \in STRING
    BY <1>1, <1>2
  <1> HIDE DEF a, b
  <1>4. s \in Seq(STRING) /\ Len(s) = (IF a <= b THEN b - a + 1 ELSE 0) /\ \A j \in 1..(b - a + 1) : s[j] = names[a + j - 1]
    BY <1>2, <1>3, SubSeqProperties
  <1>5. s \in Seq(STRING) /\ Len(s) = d /\ \A j \in 1..d : s[j] = names[k + j]
    <2> HIDE DEF s
    <2> QED
      BY <1>2, <1>4
  <1> QED
    BY <1>5 DEF Paths, a, b

\* The places that the prefixes of an operand name.
LEMMA PathRuns ==
  ASSUME NEW op, op.names \in Paths, Home \in Paths, NEW k \in 0..Len(op.names)
  PROVE  \E g : IsPath(g, op, k)
  <1> DEFINE start == Start(op)
             names == op.names
             F == [j \in 1..k |-> [d \in Paths |-> Entry(d, names[j])]]
  <1>1. k \in Nat /\ start \in Paths /\ Len(names) \in Nat
    <2>1. Slash \in Paths
      BY DEF Paths, Slash
    <2>2. start \in Paths
      BY <2>1 DEF Start
    <2>3. Len(names) \in Nat
      BY DEF Paths
    <2> QED
      BY <2>2, <2>3
  <1>2. \A j \in 1..k : \A d \in Paths : Entry(d, names[j]) \in Paths
    <2>1. \A j \in 1..k : names[j] \in STRING
      BY <1>1 DEF Paths
    <2> QED
      BY <2>1, EntryFacts
  <1> HIDE DEF start, names
  <1>3. F \in [1..k -> [Paths -> Paths]]
    BY <1>2
  <1>4. PICK g : IsRun(g, k, Paths, start, F)
    <2> HIDE DEF F
    <2> QED
      BY <1>1, <1>3, RunExists
  <1>5. g \in [0..k -> Paths] /\ g[0] = start /\ \A j \in 1..k : g[j] = F[j][g[j - 1]]
    BY <1>4 DEF IsRun
  <1>6. \A j \in 1..k : g[j - 1] \in Paths
    BY <1>1, <1>5
  <1>7. \A j \in 1..k : g[j] = Entry(g[j - 1], names[j])
    BY <1>5, <1>6
  <1>8. g = [j \in 0..k |-> IF j = 0 THEN start ELSE Entry(g[j - 1], names[j])]
    <2>1. \A j \in 0..k : g[j] = IF j = 0 THEN start ELSE Entry(g[j - 1], names[j])
      BY <1>1, <1>5, <1>7
    <2>2. g = [j \in 0..k |-> g[j]]
      BY <1>5
    <2> QED
      BY <2>1, <2>2
  <1> QED
    BY <1>5, <1>8 DEF IsPath, start, names

\* Lexical is the last of them.
LEMMA PathRun ==
  ASSUME NEW op, op.names \in Paths, Home \in Paths, NEW k \in 0..Len(op.names)
  PROVE  \E g : IsPath(g, op, k) /\ Lexical(op, k) = g[k]
  <1> DEFINE g == CHOOSE g : g = [j \in 0..k |-> IF j = 0 THEN Start(op) ELSE Entry(g[j - 1], op.names[j])]
  <1>1. Lexical(op, k) = g[k]
    BY DEF Lexical
  <1>2. PICK h : IsPath(h, op, k)
    BY PathRuns
  <1>3. g = [j \in 0..k |-> IF j = 0 THEN Start(op) ELSE Entry(g[j - 1], op.names[j])]
    BY <1>2 DEF IsPath
  <1> HIDE DEF g
  <1>4. g = h
    <2> DEFINE S == {j \in 0..k : g[j] = h[j]}
    <2>1. k \in Nat /\ h = [j \in 0..k |-> IF j = 0 THEN Start(op) ELSE Entry(h[j - 1], op.names[j])]
      BY <1>2 DEF IsPath
    <2>2. 0 \in S
      BY <1>3, <2>1
    <2>3. \A j \in 1..k : j - 1 \in S => j \in S
      BY <1>3, <2>1
    <2>4. \A j \in 0..k : j \in S
      <3> HIDE DEF S
      <3> QED
        BY <2>1, <2>2, <2>3, Induction
    <2>5. \A j \in 0..k : g[j] = h[j]
      BY <2>4
    <2>6. g = [j \in 0..k |-> g[j]] /\ h = [j \in 0..k |-> h[j]]
      BY <1>3, <2>1
    <2> QED
      BY <2>5, <2>6
  <1> QED
    BY <1>1, <1>2, <1>4

\* An operand names its places one after the other.
LEMMA LexicalFacts ==
  ASSUME NEW op, op.names \in Paths, Home \in Paths, NEW k \in 0..Len(op.names)
  PROVE  /\ Lexical(op, k) \in Paths
         /\ k = 0 => Lexical(op, k) = Start(op)
         /\ k > 0 => Lexical(op, k) = Entry(Lexical(op, k - 1), op.names[k])
  <1>1. PICK g : IsPath(g, op, k) /\ Lexical(op, k) = g[k]
    BY PathRun
  <1>2. k \in Nat /\ g[k] \in Paths /\ g = [j \in 0..k |-> IF j = 0 THEN Start(op) ELSE Entry(g[j - 1], op.names[j])]
    BY <1>1 DEF IsPath
  <1>3. k = 0 => g[k] = Start(op)
    BY <1>2
  <1>4. ASSUME k > 0
        PROVE  Lexical(op, k) = Entry(Lexical(op, k - 1), op.names[k])
    <2> DEFINE m == k - 1
    <2>1. m \in Nat /\ m \in 0..Len(op.names) /\ m + 1 = k
      BY <1>2, <1>4
    <2> HIDE DEF m
    <2>2. PICK h : IsPath(h, op, m) /\ Lexical(op, m) = h[m]
      BY <2>1, PathRun
    <2>3. h = [j \in 0..m |-> IF j = 0 THEN Start(op) ELSE Entry(h[j - 1], op.names[j])]
      BY <2>2 DEF IsPath
    <2>4. g[0] = h[0]
      BY <1>2, <2>1, <2>3
    <2>5. \A j \in 1..m : g[j - 1] = h[j - 1] => g[j] = h[j]
      BY <1>2, <2>1, <2>3
    <2>6. g[m] = h[m]
      BY <2>1, <2>4, <2>5, RunsAgree
    <2>7. g[k] = Entry(g[m], op.names[k])
      BY <1>2, <2>1
    <2> QED
      BY <1>1, <2>2, <2>6, <2>7 DEF m
  <1> QED
    BY <1>1, <1>2, <1>3, <1>4

\* A component is found where it is looked for.
LEMMA ResolveEntry ==
  ASSUME NEW t, NEW at \in Places, NEW name, Resolve(t, at, name).err = "ok"
  PROVE  at.err = "ok" /\ Resolve(t, at, name).dir = Entry(at.dir, name)
  <1> DEFINE err == IF at.err = "ok" THEN Search(t, at.dir) ELSE at.err
             next == Entry(at.dir, name)
  <1>1. Resolve(t, at, name) = CASE err # "ok" -> [at EXCEPT !.err = err]
        [] err = "ok" /\ next \notin DOMAIN t -> [err |-> "ENOENT", dir |-> next]
        [] OTHER -> [err |-> "ok", dir |-> next]
    BY DEF Resolve
  <1> HIDE DEF err, next
  <1>2. err = "ok"
    BY <1>1 DEF Places
  <1>3. Resolve(t, at, name).dir = next
    BY <1>1, <1>2
  <1> QED
    BY <1>2, <1>3 DEF err, next

\* What is looked up is what the operand says, wherever on its way the process is.
LEMMA LookupLexical ==
  ASSUME NEW t, NEW op, op.names \in Paths, Home \in Paths, NEW k \in 0..Len(op.names), NEW m \in k..Len(op.names),
         Lookup(t, Lexical(op, k), SubSeq(op.names, k + 1, m)).err = "ok"
  PROVE  Lookup(t, Lexical(op, k), SubSeq(op.names, k + 1, m)).dir = Lexical(op, m)
  <1> DEFINE names == op.names
             n == Len(names) - k
             part(d) == SubSeq(names, k + 1, k + d)
             from == Lexical(op, k)
             S == {d \in 0..n : Lookup(t, from, part(d)).err = "ok" => Lookup(t, from, part(d)).dir = Lexical(op, k + d)}
  <1>1. n \in Nat /\ k \in Nat /\ m - k \in 0..n /\ k + (m - k) = m /\ names \in Seq(STRING)
    BY DEF Paths
  <1>2. from \in Paths
    BY LexicalFacts
  <1>3. \A d \in 0..n : part(d) \in Paths /\ Len(part(d)) = d /\ \A j \in 1..d : part(d)[j] = names[k + j]
    BY PartFacts
  <1>4. 0 \in S
    <2>1. part(0) = <<>> /\ part(0) \in Paths
      <3>1. part(0) \in Paths /\ Len(part(0)) = 0
        BY <1>1, <1>3
      <3> HIDE DEF part
      <3> QED
        BY <3>1 DEF Paths
    <2>2. Lookup(t, from, part(0)).dir = from
      BY <1>2, <2>1, LookupFacts
    <2>3. from = Lexical(op, k + 0)
      BY <1>1
    <2> QED
      BY <1>1, <2>2, <2>3
  <1>5. ASSUME NEW d \in 1..n, d - 1 \in S
        PROVE  d \in S
    <2>1. d \in 0..n /\ d - 1 \in 0..n /\ k + d \in 0..Len(names) /\ k + d > 0 /\ k + (d - 1) = (k + d) - 1
      BY <1>1
    <2> DEFINE a == part(d)
               e == d - 1
               b == part(e)
    <2>2. a \in Paths /\ Len(a) = d /\ \A j \in 1..d : a[j] = names[k + j]
      <3> HIDE DEF part, n
      <3> QED
        BY <1>3, <2>1
    <2>3. b \in Paths /\ Len(b) = e /\ \A j \in 1..e : b[j] = names[k + j]
      <3>1. e \in 0..n
        BY <2>1
      <3> HIDE DEF part, n, e
      <3> QED
        BY <1>3, <3>1
    <2>4. Front(a) = b /\ Last(a) = names[k + d] /\ a # <<>>
      <3> HIDE DEF a, b, n, names
      <3>1. a # <<>> /\ d \in 1..d /\ a \in Seq(STRING) /\ b \in Seq(STRING) /\ d \in Nat
        BY <1>1, <2>2, <2>3 DEF Paths
      <3>2. Front(a) \in Seq(STRING) /\ Len(Front(a)) = Len(a) - 1 /\ Last(a) = a[Len(a)] /\ \A j \in 1..(Len(a) - 1) : Front(a)[j] = a[j]
        BY <3>1, FrontFacts
      <3>5. Len(a) - 1 = e /\ Len(b) = e /\ \A j \in 1..e : j \in 1..d
        BY <2>2, <2>3, <3>1
      <3>3. Len(Front(a)) = Len(b) /\ \A j \in 1..Len(Front(a)) : Front(a)[j] = b[j]
        <4> HIDE DEF e
        <4> QED
          BY <2>2, <2>3, <3>2, <3>5
      <3>4. Front(a) = b
        BY <3>1, <3>2, <3>3, SeqEqual
      <3> QED
        BY <2>2, <3>1, <3>2, <3>4
    <2>5. Lookup(t, from, a) = Resolve(t, Lookup(t, from, b), names[k + d]) /\ Lookup(t, from, b) \in Places
      <3> HIDE DEF a, b, names, from
      <3> QED
        BY <1>2, <2>2, <2>3, <2>4, LookupFacts
    <2>6. e \in S
      BY <1>5
    <2>7. SUFFICES ASSUME Lookup(t, from, a).err = "ok"
                   PROVE  Lookup(t, from, a).dir = Lexical(op, k + d)
      BY <2>1
    <2>8. Lookup(t, from, b).err = "ok" /\ Lookup(t, from, a).dir = Entry(Lookup(t, from, b).dir, names[k + d])
      <3> HIDE DEF a, b, names, from
      <3> QED
        BY <2>5, <2>7, ResolveEntry
    <2>9. Lookup(t, from, b).dir = Lexical(op, k + e)
      BY <2>6, <2>8
    <2>10. Lexical(op, k + d) = Entry(Lexical(op, k + e), names[k + d])
      <3> DEFINE l == k + d
      <3>1. l \in 0..Len(op.names) /\ l > 0 /\ k + e = l - 1
        BY <2>1
      <3> HIDE DEF l, e
      <3>2. Lexical(op, l) = Entry(Lexical(op, l - 1), op.names[l])
        BY <3>1, LexicalFacts
      <3> QED
        BY <3>1, <3>2 DEF l
    <2> QED
      BY <2>8, <2>9, <2>10
  <1>6. \A d \in 0..n : d \in S
    <2> HIDE DEF S
    <2> QED
      BY <1>1, <1>4, <1>5, Induction
  <1>7. m - k \in S
    BY <1>1, <1>6
  <1> QED
    BY <1>1, <1>7

-----------------------------------------------------------------------------
\* The places mkdir was told to go to; a directory in a tree.
OnTheWay(x) == \E i \in 1..Len(line.ops) : \E k \in 1..Len(line.ops[i].names) : x = Lexical(line.ops[i], k)
AllOnTheWay == \A x \in DOMAIN tree : tree[x].by \in {"mkdir", "ancestor"} => OnTheWay(x)
Stands(t, x) == x \in DOMAIN t /\ t[x].kind = "dir"

\* A process is in the directory it was started in whenever savewd.c thinks it
\* is, and before a relative operand.  In the midst of an operand it has come as
\* far as the names it has dealt with say, and a directory whose mode it is to
\* set is the operand.
HasHome(me) == me.state \in {"INITIAL", "FD"} \/ (me.state = "FORKING" /\ me.child # "self")
Relative(i) == i \in 1..Len(line.ops) /\ ~line.ops[i].abs
Along(me) ==
  LET op == line.ops[me.i]
  IN  \E k \in 0..Len(op.names) : me.names = SubSeq(op.names, k + 1, Len(op.names)) /\ From(me) = Lexical(op, k)
Sits(me, t) ==
  /\ me.state # "ERROR" /\ (me.state = "FINAL" => me.i >= LastRelative) /\ (me.pc = "main" => HasHome(me))
  /\ HasHome(me) \/ (me.pc = "next" /\ Relative(me.i)) => me.cwd = Home
  /\ me.pc = "chdir" => ~HasHome(me) \/ me.state = "FD"
  /\ me.pc \in Busy \ {"chmod"} => Along(me)
  /\ Setting(me) => Stands(t, Target(line.ops[me.i]))
Gone == {"none", "exit", "killed"}
Reached == Failed \/ \A i \in 1..Len(line.ops) : hist.acted[i] >= 1 => Stands(tree, Target(line.ops[i]))

\* All this as long as savewd.c has not failed.
PlaceOK ==
  ~hist.lost =>
    /\ AllOnTheWay
    /\ line.prog = "mkdir" => Reached /\ \A p \in Both : ps[p].pc \notin Gone => Sits(ps[p], tree)

\* The files that were there remain, and new ones are on the way.
Expands ==
  /\ \A x \in DOMAIN tree : x \in DOMAIN tree' /\ tree'[x].kind = tree[x].kind /\ tree'[x].by = tree[x].by
  /\ \A x \in DOMAIN tree' : x \notin DOMAIN tree /\ tree'[x].by \in {"mkdir", "ancestor"} => OnTheWay(x)

\* Nothing is made elsewhere when the files remain.
LEMMA ExpandsWay ==
  ASSUME AllOnTheWay, Expands, line'.ops = line.ops
  PROVE  AllOnTheWay'
  <1>1. \A x : OnTheWay(x)' <=> OnTheWay(x)
    BY DEF OnTheWay
  <1>2. \A x \in DOMAIN tree' : tree'[x].by \in {"mkdir", "ancestor"} => OnTheWay(x)
    BY DEF AllOnTheWay, Expands
  <1> QED
    BY <1>1, <1>2 DEF AllOnTheWay

\* A process stays where it is when the files remain.
LEMMA SitsStays ==
  ASSUME NEW me, Sits(me, tree), Expands, line'.ops = line.ops
  PROVE  Sits(me, tree') /\ Sits(me, tree)'
  <1>1. \A x : Stands(tree, x) => Stands(tree', x)
    BY DEF Stands, Expands
  <1>2. Sits(me, tree')
    BY <1>1 DEF Sits
  <1>3. LastRelative' = LastRelative
    BY DEF LastRelative
  <1>4. Along(me) => Along(me)'
    BY DEF Along, From
  <1> HIDE DEF LastRelative
  <1>5. Sits(me, tree)'
    BY <1>2, <1>3, <1>4 DEF Sits, HasHome, Relative, Setting
  <1> QED
    BY <1>2, <1>5

\* A step of one process keeps all, if it does.
LEMMA PlacedStep ==
  ASSUME MkOK, PlaceOK, NEW p \in Both, Running(p), NEW n, Goes(p, n), n.pc \notin {"none", "main"}, line' = line, Expands,
         hist.lost => hist'.lost, n.status \in {ps[p].status, 1}, HistOK(hist),
         ~hist'.lost /\ n.pc \notin Gone => Sits(n, tree'),
         \/ hist'.acted = hist.acted
         \/ /\ hist'.acted = [hist.acted EXCEPT ![ps[p].i] = hist.acted[ps[p].i] + 1]
            /\ n.status = 1 \/ hist'.lost \/ Stands(tree', Target(line.ops[ps[p].i]))
  PROVE  PlaceOK'
  <1> DEFINE me == ps[p]
  <1>1. line.prog = "mkdir" /\ ProcsOK /\ me.pc \in Active
    BY RunningFacts DEF MkOK
  <1>2. DOMAIN ps = Both /\ DOMAIN ps' = Both /\ ps'[p] = n /\ \A q \in Both : q # p => ps'[q] = ps[q]
    BY <1>1, GoesFacts DEF ProcsOK
  <1>3. SUFFICES ASSUME ~hist'.lost
                 PROVE  AllOnTheWay' /\ Reached' /\ \A q \in Both : (ps[q].pc \notin Gone => Sits(ps[q], tree))'
    BY DEF PlaceOK
  <1>4. AllOnTheWay /\ Reached /\ \A q \in Both : ps[q].pc \notin Gone => Sits(ps[q], tree)
    BY <1>1, <1>3 DEF PlaceOK
  <1>5. AllOnTheWay'
    BY <1>4, ExpandsWay
  <1>6. Failed => Failed'
    <2>1. SUFFICES ASSUME NEW q \in Both, ps[q].pc # "none", ps[q].pc = "killed" \/ ps[q].status = 1
                   PROVE  ps'[q].pc # "none" /\ (ps'[q].pc = "killed" \/ ps'[q].status = 1)
      BY DEF Failed
    <2>2. CASE q = p
      BY <1>1, <1>2, <2>1, <2>2 DEF Active, Busy
    <2> QED
      BY <1>2, <2>1, <2>2
  <1>7. n.status = 1 => Failed'
    BY <1>2 DEF Failed
  <1>8. Reached'
    <2>1. \A x : Stands(tree, x) => Stands(tree', x)
      BY DEF Stands, Expands
    <2>2. CASE Failed'
      BY <2>2 DEF Reached
    <2>3. CASE ~Failed'
      <3>1. \A i \in 1..Len(line.ops) : hist.acted[i] >= 1 => Stands(tree', Target(line.ops[i]))
        BY <1>4, <1>6, <2>1, <2>3 DEF Reached
      <3>2. ASSUME NEW i \in 1..Len(line.ops), hist'.acted[i] >= 1
            PROVE  Stands(tree', Target(line.ops[i]))
        <4>1. CASE hist'.acted[i] = hist.acted[i]
          BY <3>1, <3>2, <4>1
        <4>2. CASE hist'.acted[i] # hist.acted[i]
          <5>1. i = me.i
            BY <4>2 DEF HistOK
          <5> QED
            BY <1>3, <1>7, <2>3, <4>2, <5>1
        <4> QED
          BY <4>1, <4>2
      <3> QED
        BY <3>2 DEF Reached
    <2> QED
      BY <2>2, <2>3
  <1>9. ASSUME NEW q \in Both, ps'[q].pc \notin Gone
        PROVE  Sits(ps'[q], tree')
    <2>1. CASE q = p
      BY <1>2, <1>3, <1>9, <2>1
    <2>2. CASE q # p
      <3> DEFINE you == ps[q]
      <3>1. ps'[q] = you /\ Sits(you, tree)
        BY <1>2, <1>4, <1>9, <2>2
      <3> HIDE DEF you
      <3>2. Sits(you, tree')
        BY <3>1, SitsStays
      <3> QED
        BY <3>1, <3>2
    <2> QED
      BY <2>1, <2>2
  <1>10. ASSUME NEW me1, Sits(me1, tree')
         PROVE  Sits(me1, tree)'
    <2>1. LastRelative' = LastRelative
      BY DEF LastRelative
    <2>2. Along(me1) => Along(me1)'
      BY DEF Along, From
    <2> HIDE DEF LastRelative
    <2> QED
      BY <1>10, <2>1, <2>2 DEF Sits, HasHome, Relative, Setting
  <1>11. \A q \in Both : (ps[q].pc \notin Gone => Sits(ps[q], tree))'
    <2>1. SUFFICES ASSUME NEW q \in Both, ps'[q].pc \notin Gone
                   PROVE  Sits(ps[q], tree)'
      BY DEF Gone
    <2>2. PICK you : you = ps'[q]
      OBVIOUS
    <2>3. Sits(you, tree)'
      BY <1>9, <1>10, <2>1, <2>2
    <2> QED
      BY <2>2, <2>3 DEF Sits, HasHome, Relative, Setting, Along, From
  <1> QED
    BY <1>5, <1>8, <1>11

\* A step of both keeps all, if they do.
LEMMA PlacedPair ==
  ASSUME MkOK, PlaceOK, line.prog = "mkdir", NEW a, NEW b, ps' = [parent |-> a, child |-> b], UNCHANGED <<tree, line>>,
         hist'.acted = hist.acted, hist.lost => hist'.lost, a.pc # "none",
         ~hist'.lost => /\ a.pc \notin Gone => Sits(a, tree)
                        /\ b.pc \notin Gone => Sits(b, tree),
         Failed => a.pc = "killed" \/ a.status = 1
  PROVE  PlaceOK'
  <1>1. DOMAIN ps' = Both /\ ps'["parent"] = a /\ ps'["child"] = b
    BY DEF Both
  <1>2. SUFFICES ASSUME ~hist'.lost
                 PROVE  AllOnTheWay' /\ Reached' /\ \A q \in Both : (ps[q].pc \notin Gone => Sits(ps[q], tree))'
    BY DEF PlaceOK
  <1>3. AllOnTheWay /\ Reached /\ Expands
    BY <1>2 DEF PlaceOK, Expands
  <1>4. AllOnTheWay'
    BY <1>3, ExpandsWay
  <1>5. Failed => Failed'
    BY <1>1 DEF Failed, Both
  <1>6. Reached'
    BY <1>3, <1>5 DEF Reached
  <1>7. \A q \in Both : (ps[q].pc \notin Gone => Sits(ps[q], tree))'
    <2>1. SUFFICES ASSUME NEW q \in Both, ps'[q].pc \notin Gone
                   PROVE  Sits(ps[q], tree)'
      BY DEF Gone
    <2>2. PICK you : you = ps'[q]
      OBVIOUS
    <2>3. Sits(you, tree)
      BY <1>1, <1>2, <2>1, <2>2 DEF Both
    <2>4. Sits(you, tree)'
      BY <1>3, <2>3, SitsStays
    <2> QED
      BY <2>2, <2>4 DEF Sits, HasHome, Relative, Setting, Along, From
  <1> QED
    BY <1>4, <1>6, <1>7

\* The operands are looked at one after the other.
LEMMA ActingPlace ==
  ASSUME MkOK, PlaceOK, NEW p \in Both, savewd_finish(p) \/ ActOn(p) \/ Leaves(p)
  PROVE  PlaceOK'
  <1> DEFINE me == ps[p]
             op == line.ops[me.i]
  <1>1. Running(p) /\ me.pc = "next" /\ UNCHANGED <<tree, line, budget>>
    BY DEF savewd_finish, ActOn, Leaves
  <1>2. Good(me, tree) /\ LineOK /\ Len(line.ops) \in Nat /\ HistOK(hist) /\ line.prog = "mkdir" /\ DOMAIN line.ops = 1..Len(line.ops)
    BY <1>1, RunningFacts DEF LineOK
  <1>3. ~hist.lost => Sits(me, tree)
    BY <1>1, <1>2 DEF PlaceOK, Gone
  <1>4. Expands
    BY <1>1 DEF Expands
  <1> HIDE DEF me
  <1>5. CASE savewd_finish(p)
    <2> DEFINE n == [me EXCEPT !.state = "FINAL", !.saved = FALSE]
    <2>1. Goes(p, n) /\ UNCHANGED hist /\ me.i >= LastRelative
      BY <1>5 DEF savewd_finish, me
    <2>2. n.pc = "next" /\ n.state = "FINAL" /\ n.i = me.i /\ n.child = me.child /\ n.status = me.status /\ n.cwd = me.cwd
      BY <1>1, <1>2 DEF Good, ProcessFields
    <2> HIDE DEF n
    <2>3. ~hist.lost => Sits(n, tree')
      BY <1>1, <1>3, <2>1, <2>2 DEF Sits, HasHome, Setting, Busy
    <2> QED
      BY <1>1, <1>2, <1>4, <2>1, <2>2, <2>3, PlacedStep DEF me
  <1>6. CASE Leaves(p)
    <2> DEFINE n == [me EXCEPT !.pc = "exit"]
    <2>1. Goes(p, n) /\ UNCHANGED hist
      BY <1>6 DEF Leaves, me
    <2>2. n.pc = "exit" /\ n.status = me.status
      BY <1>1, <1>2 DEF Good, ProcessFields
    <2> HIDE DEF n
    <2> QED
      BY <1>1, <1>2, <1>4, <2>1, <2>2, PlacedStep DEF me, Gone
  <1>7. CASE ActOn(p)
    <2> DEFINE new == [me EXCEPT !.pc = IF line.parents THEN "ancestor" ELSE "mkdir", !.names = op.names, !.root = op.abs,
                        !.made = FALSE, !.want = FALSE, !.inside = FALSE]
               d == [me EXCEPT !.pc = "restore"]
    <2>1. me.i \in 1..Len(line.ops)
      BY <1>2, <1>7 DEF ActOn, me
    <2>2. \/ Goes(p, d) /\ UNCHANGED hist
          \/ Acted(p, me, FALSE)
          \/ Goes(p, new) /\ UNCHANGED hist
      BY <1>7 DEF ActOn, me
    <2>3. CASE Goes(p, d) /\ UNCHANGED hist
      <3>1. d.pc = "restore" /\ d.state = me.state /\ d.i = me.i /\ d.child = me.child /\ d.status = me.status /\ d.cwd = me.cwd
        BY <1>1, <1>2 DEF Good, ProcessFields
      <3> HIDE DEF d
      <3>2. ~hist.lost => Sits(d, tree')
        BY <1>1, <1>3, <3>1 DEF Sits, HasHome, Setting, Busy
      <3> QED
        BY <1>1, <1>2, <1>4, <2>3, <3>1, <3>2, PlacedStep DEF me
    <2>4. CASE Goes(p, new) /\ UNCHANGED hist
      <3> DEFINE at == IF line.parents THEN "ancestor" ELSE "mkdir"
                 names == op.names
                 root == op.abs
      <3>1. at \in {"ancestor", "mkdir"} /\ new = [me EXCEPT !.pc = at, !.names = names, !.root = root, !.made = FALSE, !.want = FALSE, !.inside = FALSE]
        OBVIOUS
      <3>2. names \in Paths /\ Home \in Paths /\ root \in BOOLEAN
        BY <1>2, <2>1, OperandFacts DEF LineOK
      <3> HIDE DEF at, names, root, new
      <3>3. new.pc = at /\ new.state = me.state /\ new.i = me.i /\ new.child = me.child /\ new.status = me.status /\ ~new.want
            /\ new.cwd = me.cwd /\ new.names = names /\ new.root = root
        BY <1>2, <3>1 DEF Good, ProcessFields
      <3>4. ~hist.lost => Along(new)
        <4>1. SUFFICES ASSUME ~hist.lost
                       PROVE  Along(new)
          OBVIOUS
        <4>2. ~op.abs => me.cwd = Home
          BY <1>1, <1>3, <2>1, <4>1 DEF Sits, Relative
        <4>3. From(new) = Start(op)
          BY <3>3, <4>2 DEF From, Start, root
        <4>4. 0 \in 0..Len(names) /\ names = SubSeq(names, 0 + 1, Len(names))
          BY <3>2 DEF Paths
        <4>5. Start(op) = Lexical(op, 0)
          BY <3>2, <4>4, LexicalFacts DEF names
        <4> QED
          BY <3>3, <4>3, <4>4, <4>5 DEF Along, names
      <3>5. ~hist.lost => Sits(new, tree')
        BY <1>1, <1>3, <3>1, <3>3, <3>4 DEF Sits, HasHome, Setting, Busy
      <3> QED
        BY <1>1, <1>2, <1>4, <2>4, <3>1, <3>3, <3>5, PlacedStep DEF me
    <2>5. CASE Acted(p, me, FALSE)
      <3> DEFINE ok == FALSE
                 s == IF ok THEN me.status ELSE 1
                 n == [me EXCEPT !.pc = "restore", !.status = s]
      <3>1. Goes(p, n) /\ hist'.acted = [hist.acted EXCEPT ![me.i] = hist.acted[me.i] + 1] /\ hist'.lost = hist.lost
        <4>1. ok \in BOOLEAN /\ Acted(p, me, ok) /\ DOMAIN me = ProcessFields /\ DOMAIN ps = Both
          BY <1>2, <2>5 DEF Good, MkOK, ProcsOK
        <4> HIDE DEF ok
        <4> QED
          BY <1>2, <2>1, <4>1, ActedFacts
      <3>2. n.pc = "restore" /\ n.state = me.state /\ n.i = me.i /\ n.child = me.child /\ n.status = 1 /\ n.cwd = me.cwd
        BY <1>1, <1>2 DEF Good, ProcessFields
      <3> HIDE DEF n
      <3>3. ~hist.lost => Sits(n, tree')
        BY <1>1, <1>3, <3>2 DEF Sits, HasHome, Setting, Busy
      <3> QED
        BY <1>1, <1>2, <1>4, <3>1, <3>2, <3>3, PlacedStep DEF me
    <2> QED
      BY <2>2, <2>3, <2>4, <2>5
  <1> QED
    BY <1>5, <1>6, <1>7

\* A name, from one of its components on.
LEMMA RestFacts ==
  ASSUME NEW names \in Paths, NEW k \in 0..Len(names), SubSeq(names, k + 1, Len(names)) # <<>>
  PROVE  LET rest == SubSeq(names, k + 1, Len(names))
         IN  /\ k + 1 \in 1..Len(names) /\ Head(rest) = names[k + 1] /\ Tail(rest) = SubSeq(names, k + 2, Len(names))
             /\ <<Head(rest)>> = SubSeq(names, k + 1, k + 1)
             /\ Front(rest) = SubSeq(names, k + 1, Len(names) - 1) /\ Last(rest) = names[Len(names)]
  <1> DEFINE N == Len(names)
             d == N - k
             rest == SubSeq(names, k + 1, N)
  <1>1. names \in Seq(STRING) /\ N \in Nat /\ k \in Nat /\ d \in Nat /\ k + d = N /\ d = N - k /\ d \in 0..(N - k) /\ k \in 0..N
    BY DEF Paths
  <1>2. rest \in Seq(STRING) /\ Len(rest) = d /\ \A j \in 1..d : rest[j] = names[k + j]
    <2>1. SubSeq(names, k + 1, k + d) \in Paths /\ Len(SubSeq(names, k + 1, k + d)) = d
          /\ \A j \in 1..d : SubSeq(names, k + 1, k + d)[j] = names[k + j]
      BY <1>1, PartFacts
    <2>2. rest = SubSeq(names, k + 1, k + d)
      BY <1>1
    <2> HIDE DEF rest, d, N
    <2> QED
      BY <2>1, <2>2 DEF Paths
  <1>3. rest # <<>>
    OBVIOUS
  <1> HIDE DEF rest, d, N
  <1>9. d # 0
    BY <1>2, <1>3
  <1>4. d # 0 /\ 1 \in 1..d /\ d \in 1..d /\ k + 1 \in 1..N
    BY <1>1, <1>9
  <1>5. Head(rest) = names[k + 1] /\ Head(rest) \in STRING
    BY <1>1, <1>2, <1>3, <1>4
  <1>6. Tail(rest) = SubSeq(names, k + 2, N)
    <2> DEFINE K == k + 1
               e == d - 1
               s == SubSeq(names, K + 1, K + e)
               r == Tail(rest)
    <2>1. K \in 0..N /\ e \in 0..(N - K) /\ K + e = N /\ K + 1 = k + 2 /\ e \in Nat
      BY <1>1, <1>4
    <2>2. r \in Seq(STRING) /\ Len(r) = Len(rest) - 1 /\ \A j \in 1..Len(r) : r[j] = rest[j + 1]
      BY <1>2, <1>3, HeadTailProperties
    <2>3. s \in Seq(STRING) /\ Len(s) = e /\ \A j \in 1..e : s[j] = names[K + j]
      <3> HIDE DEF K, e
      <3> QED
        BY <2>1, PartFacts DEF Paths, N
    <2> HIDE DEF r, s
    <2>4. Len(r) = e /\ \A j \in 1..e : j + 1 \in 1..d /\ k + (j + 1) = K + j
      <3>1. Len(r) = e
        BY <1>2, <2>2
      <3>2. d \in Nat /\ k \in Nat
        BY <1>1
      <3>3. \A j \in 1..e : j + 1 \in 1..d /\ k + (j + 1) = K + j
        BY <3>2
      <3> QED
        BY <3>1, <3>3
    <2>5. \A j \in 1..e : r[j] = s[j]
      BY <1>2, <2>2, <2>3, <2>4
    <2>6. r = s
      BY <2>2, <2>3, <2>4, <2>5, SeqEqual
    <2> QED
      BY <2>1, <2>6 DEF r, s
  <1>7. <<Head(rest)>> = SubSeq(names, k + 1, k + 1)
    <2> DEFINE one == 1
               s == SubSeq(names, k + 1, k + one)
               h == Head(rest)
    <2>1. one \in 0..(N - k) /\ one \in 1..one
      BY <1>1, <1>4
    <2>2. s \in Seq(STRING) /\ Len(s) = one /\ s[one] = names[k + one]
      <3> HIDE DEF one
      <3> QED
        BY <2>1, PartFacts DEF Paths, N
    <2> HIDE DEF s, h
    <2>3. s = <<h>>
      BY <1>5, <2>2 DEF h
    <2> QED
      BY <2>3 DEF s, h
  <1>8. Front(rest) = SubSeq(names, k + 1, N - 1) /\ Last(rest) = names[N]
    <2> DEFINE e == d - 1
               s == SubSeq(names, k + 1, k + e)
               f == Front(rest)
    <2>1. e \in 0..(N - k) /\ k + e = N - 1 /\ e \in Nat /\ \A j \in 1..e : j \in 1..d
      BY <1>1, <1>4
    <2>2. f \in Seq(STRING) /\ Len(f) = Len(rest) - 1 /\ Last(rest) = rest[Len(rest)] /\ \A j \in 1..(Len(rest) - 1) : f[j] = rest[j]
      BY <1>2, <1>3, FrontFacts
    <2>3. s \in Seq(STRING) /\ Len(s) = e /\ \A j \in 1..e : s[j] = names[k + j]
      <3> HIDE DEF e
      <3> QED
        BY <2>1, PartFacts DEF Paths, N
    <2> HIDE DEF f, s
    <2>4. Len(f) = e /\ \A j \in 1..e : f[j] = s[j]
      BY <1>2, <2>1, <2>2, <2>3
    <2>5. f = s
      BY <2>2, <2>3, <2>4, SeqEqual
    <2>6. Last(rest) = names[N]
      BY <1>1, <1>2, <1>4, <2>2
    <2> QED
      BY <2>1, <2>5, <2>6 DEF f, s
  <1> QED
    BY <1>4, <1>5, <1>6, <1>7, <1>8 DEF rest, N

\* What a process finds and makes is on its way, and at the end of it the operand.
LEMMA AlongFacts ==
  ASSUME LineOK, TreeOK(tree), NEW me, Good(me, tree), me.pc \in Busy, Along(me)
  PROVE  LET op == line.ops[me.i]
             from == From(me)
             head == Head(me.names)
         IN  /\ \E k \in 1..Len(op.names) :
                  /\ from = Lexical(op, k - 1) /\ Entry(from, head) = Lexical(op, k)
                  /\ Tail(me.names) = SubSeq(op.names, k + 1, Len(op.names))
                  /\ Lookup(tree, from, <<head>>).err = "ok" => Lookup(tree, from, <<head>>).dir = Lexical(op, k)
                  /\ MakeError(tree, from, <<head>>) = "ok" => NewName(tree, from, <<head>>) = Lexical(op, k)
             /\ Lookup(tree, from, me.names).err = "ok" => Lookup(tree, from, me.names).dir = Target(op)
             /\ MakeError(tree, from, me.names) = "ok" => NewName(tree, from, me.names) = Target(op)
  <1> DEFINE op == line.ops[me.i]
             names == op.names
             N == Len(names)
             from == From(me)
             head == Head(me.names)
  <1>1. me.i \in 1..Len(line.ops) /\ me.names # <<>> /\ me.names \in Paths /\ Home \in Paths
    BY DEF Good, LineOK
  <1>2. names \in Paths /\ N \in Nat
    BY <1>1, OperandFacts DEF Paths
  <1>3. PICK k \in 0..N : me.names = SubSeq(names, k + 1, N) /\ from = Lexical(op, k)
    BY DEF Along
  <1>4. from \in Paths /\ head \in STRING /\ <<head>> \in Paths /\ <<head>> # <<>>
    BY AimFacts
  <1> HIDE DEF op, from, head
  <1>5. /\ k + 1 \in 1..N /\ head = names[k + 1] /\ Tail(me.names) = SubSeq(names, k + 2, N)
        /\ <<head>> = SubSeq(names, k + 1, k + 1)
        /\ Front(me.names) = SubSeq(names, k + 1, N - 1) /\ Last(me.names) = names[N]
    <2> HIDE DEF N, names
    <2> QED
      BY <1>1, <1>2, <1>3, RestFacts DEF N, head
  <1> DEFINE K == k + 1
  <1>6. K \in 1..N /\ K \in 0..N /\ K > 0 /\ K - 1 = k /\ K \in k..N /\ N \in k..N /\ N - 1 \in k..N /\ N \in 0..N /\ N > 0 /\ k + 2 = K + 1
    <2>1. k \in 0..N /\ N \in Nat /\ k + 1 \in 1..N
      BY <1>2, <1>5
    <2> HIDE DEF N
    <2> QED
      BY <2>1
  <1> HIDE DEF K, N
  <1>7. Lexical(op, K) = Entry(from, head) /\ Lexical(op, N) = Entry(Lexical(op, N - 1), Last(me.names))
    BY <1>1, <1>2, <1>3, <1>5, <1>6, LexicalFacts DEF N, K
  <1>14. ASSUME NEW m \in k..N, NEW part, part = SubSeq(names, k + 1, m), Lookup(tree, from, part).err = "ok"
         PROVE  Lookup(tree, from, part).dir = Lexical(op, m)
    <2>1. k \in 0..Len(op.names) /\ m \in k..Len(op.names) /\ op.names \in Paths
      BY <1>2 DEF N
    <2>2. Lookup(tree, Lexical(op, k), SubSeq(op.names, k + 1, m)).err = "ok"
      BY <1>3, <1>14
    <2>3. Lookup(tree, Lexical(op, k), SubSeq(op.names, k + 1, m)).dir = Lexical(op, m)
      BY <1>1, <2>1, <2>2, LookupLexical
    <2> QED
      BY <1>3, <1>14, <2>3
  <1>8. Lookup(tree, from, <<head>>).err = "ok" => Lookup(tree, from, <<head>>).dir = Lexical(op, K)
    BY <1>5, <1>6, <1>14 DEF K
  <1>9. Lookup(tree, from, me.names).err = "ok" => Lookup(tree, from, me.names).dir = Lexical(op, N)
    BY <1>3, <1>6, <1>14
  <1>10. ASSUME MakeError(tree, from, <<head>>) = "ok"
         PROVE  NewName(tree, from, <<head>>) = Lexical(op, K)
    <2> DEFINE one == <<head>>
    <2>1. Front(one) = <<>> /\ Last(one) = head
      <3> DEFINE none == <<>>
      <3>1. none \in Seq(STRING) /\ head \in STRING /\ Append(none, head) = one
        BY <1>4
      <3> HIDE DEF none, one
      <3>2. Front(one) = none /\ Last(one) = head
        BY <3>1, AppendFront
      <3> QED
        BY <3>2 DEF none
    <2>2. <<>> \in Paths
      BY DEF Paths
    <2>3. Lookup(tree, from, <<>>).dir = from
      BY <1>4, <2>2, LookupFacts
    <2>4. NewName(tree, from, one) = Entry(Lookup(tree, from, Front(one)).dir, Last(one))
      BY <1>4, <1>10, MakeFacts
    <2> HIDE DEF one
    <2> QED
      BY <1>7, <2>1, <2>3, <2>4 DEF one
  <1>11. ASSUME MakeError(tree, from, me.names) = "ok"
         PROVE  NewName(tree, from, me.names) = Lexical(op, N)
    <2> DEFINE front == Front(me.names)
               l == Last(me.names)
    <2>1. NewName(tree, from, me.names) = Entry(Lookup(tree, from, front).dir, l) /\ Lookup(tree, from, front).err = "ok"
      BY <1>1, <1>4, <1>11, MakeFacts
    <2>2. Lookup(tree, from, front).dir = Lexical(op, N - 1)
      BY <1>5, <1>6, <1>14, <2>1
    <2> QED
      BY <1>7, <2>1, <2>2
  <1>12. Target(op) = Lexical(op, N)
    BY DEF Target, N
  <1>13. \E j \in 1..N :
           /\ from = Lexical(op, j - 1) /\ Entry(from, head) = Lexical(op, j)
           /\ Tail(me.names) = SubSeq(names, j + 1, N)
           /\ Lookup(tree, from, <<head>>).err = "ok" => Lookup(tree, from, <<head>>).dir = Lexical(op, j)
           /\ MakeError(tree, from, <<head>>) = "ok" => NewName(tree, from, <<head>>) = Lexical(op, j)
    <2>1. Tail(me.names) = SubSeq(names, K + 1, N) /\ from = Lexical(op, K - 1)
      BY <1>3, <1>5, <1>6
    <2> QED
      BY <1>6, <1>7, <1>8, <1>10, <2>1
  <1> QED
    BY <1>9, <1>11, <1>12, <1>13 DEF op, from, head, N

\* The operand is done with; if it is done well it is there.
LEMMA ActedPlace ==
  ASSUME MkOK, PlaceOK, NEW p \in Both, Running(p), ps[p].pc \in Busy, NEW e, DOMAIN e = ProcessFields, Alike(ps[p], e),
         e.status = ps[p].status, e.cwd = ps[p].cwd, NEW ok \in BOOLEAN, Acted(p, e, ok), line' = line, Expands,
         ok /\ ~hist.lost => Stands(tree', Target(line.ops[ps[p].i]))
  PROVE  PlaceOK'
  <1> DEFINE me == ps[p]
             s == IF ok THEN e.status ELSE 1
             n == [e EXCEPT !.pc = "restore", !.status = s]
  <1>1. Good(me, tree) /\ HistOK(hist) /\ DOMAIN ps = Both /\ line.prog = "mkdir"
    BY RunningFacts DEF MkOK, ProcsOK
  <1>2. me.i \in 1..Len(line.ops) /\ e.i = me.i
    BY <1>1 DEF Good, Alike
  <1>3. Goes(p, n) /\ hist'.acted = [hist.acted EXCEPT ![me.i] = hist.acted[me.i] + 1] /\ hist'.lost = hist.lost
    <2>1. e.i \in 1..Len(line.ops)
      BY <1>2
    <2>2. hist'.acted = [hist.acted EXCEPT ![e.i] = hist.acted[e.i] + 1] /\ Goes(p, n) /\ hist'.lost = hist.lost
      BY <1>1, <2>1, ActedFacts
    <2> HIDE DEF n, me
    <2> QED
      BY <1>2, <2>2
  <1>4. n.pc = "restore" /\ n.state = e.state /\ n.i = e.i /\ n.child = e.child /\ n.status = s /\ n.cwd = e.cwd
    BY DEF ProcessFields
  <1>5. s \in {me.status, 1} /\ (ok \/ s = 1)
    OBVIOUS
  <1>6. ~hist.lost => Sits(me, tree)
    BY <1>1 DEF PlaceOK, Gone, Busy
  <1> HIDE DEF n, me, s
  <1>7. ~hist.lost => Sits(n, tree')
    BY <1>4, <1>6 DEF Sits, HasHome, Setting, Busy, Alike, me
  <1> QED
    BY <1>1, <1>3, <1>4, <1>5, <1>7, PlacedStep DEF me

\* A process that goes on with an operand sits where it was.
LEMMA SitsOn ==
  ASSUME NEW me, NEW n, NEW t, Sits(me, t), me.pc \in Busy, Along(me), n.pc \in Busy, n.pc # "chdir", n.state = me.state, n.i = me.i, n.child = me.child,
         n.want = me.want, n.cwd = me.cwd, n.root = me.root, n.names = me.names, n.want => Setting(me)
  PROVE  Sits(n, t)
  <1>1. Along(n)
    BY DEF Along, From
  <1> QED
    BY <1>1 DEF Sits, HasHome, Setting, Busy

\* savewd_chdir() has not got there.
LEMMA NotChangedPlace ==
  ASSUME MkOK, MoreOK, PlaceOK, NEW p \in Both, Running(p), ps[p].pc \in {"open", "chdir"}, NotChanged(p, ps[p]), UNCHANGED <<tree, line>>
  PROVE  PlaceOK'
  <1> DEFINE me == ps[p]
  <1>1. Good(me, tree) /\ me.pc \in Busy /\ line.prog = "mkdir" /\ HistOK(hist) /\ Expands
    BY RunningFacts DEF Busy, MkOK, Expands
  <1>2. ~hist.lost => Sits(me, tree)
    BY <1>1 DEF PlaceOK, Gone, Busy
  <1> HIDE DEF me
  <1>3. CASE Acted(p, CloseDir(me), FALSE)
    <2> DEFINE e == CloseDir(me)
               ok == FALSE
    <2>1. DOMAIN e = ProcessFields /\ Alike(me, e) /\ e.status = me.status /\ e.cwd = me.cwd /\ ok \in BOOLEAN /\ Acted(p, e, ok) /\ ~ok
      BY <1>1, <1>3 DEF Good, ProcessFields, CloseDir, Alike
    <2> HIDE DEF e, ok
    <2> QED
      BY <1>1, <2>1, ActedPlace DEF me
  <1>4. CASE me.want /\ SetUp(p, me, FALSE)
    <2> DEFINE n == [me EXCEPT !.pc = "chmod", !.inside = FALSE]
    <2>1. Goes(p, n) /\ UNCHANGED hist
      BY <1>4 DEF SetUp
    <2>2. n.pc = "chmod" /\ n.state = me.state /\ n.i = me.i /\ n.child = me.child /\ n.status = me.status
          /\ n.want = me.want /\ n.cwd = me.cwd
      BY <1>1 DEF Good, ProcessFields
    <2> HIDE DEF n
    <2>3. Setting(me)
      BY <1>4 DEF Setting, me
    <2>4. ~hist.lost => Sits(n, tree')
      BY <1>2, <2>2, <2>3 DEF Sits, HasHome, Setting, Busy
    <2> QED
      BY <1>1, <2>1, <2>2, <2>4, PlacedStep DEF me
  <1> QED
    BY <1>3, <1>4 DEF NotChanged, me

\* The directory is opened.
LEMMA ChdirOpenPlace ==
  ASSUME MkOK, MoreOK, PlaceOK, NEW p \in Both, ChdirOpen(p)
  PROVE  PlaceOK'
  <1> DEFINE me == ps[p]
             err == OpenError(tree, From(me), Aim(me))
             found == (err = "ok")
  <1>1. Running(p) /\ me.pc = "open" /\ UNCHANGED <<tree, line>>
    BY DEF ChdirOpen
  <1>2. Good(me, tree) /\ line.prog = "mkdir" /\ HistOK(hist) /\ Expands
    BY <1>1, RunningFacts DEF MkOK, Expands
  <1>3. \/ Goes(p, [me EXCEPT !.pc = "save"]) /\ UNCHANGED hist
        \/ NotChanged(p, me)
        \/ Goes(p, [me EXCEPT !.pc = "save", !.fd = found]) /\ UNCHANGED hist
    <2> HIDE DEF me
    <2> QED
      BY DEF ChdirOpen, me
  <1>4. ~hist.lost => Sits(me, tree)
    BY <1>1, <1>2 DEF PlaceOK, Gone
  <1> HIDE DEF me, found
  <1>5. ASSUME NEW n, Goes(p, n), UNCHANGED hist, n.pc = "save", n.state = me.state, n.i = me.i, n.child = me.child, n.status = me.status,
               n.want = me.want, n.cwd = me.cwd, n.root = me.root, n.names = me.names
        PROVE  PlaceOK'
    <2>1. ~hist.lost => Along(me)
      BY <1>1, <1>4 DEF Sits, Busy
    <2>2. ~hist.lost => Sits(n, tree')
      BY <1>1, <1>4, <1>5, <2>1, SitsOn DEF Busy, Setting
    <2> QED
      BY <1>1, <1>2, <1>5, <2>2, PlacedStep DEF me
  <1>6. CASE Goes(p, [me EXCEPT !.pc = "save"]) /\ UNCHANGED hist
    <2> DEFINE n == [me EXCEPT !.pc = "save"]
    <2>1. n.pc = "save" /\ n.state = me.state /\ n.i = me.i /\ n.child = me.child /\ n.status = me.status
          /\ n.want = me.want /\ n.cwd = me.cwd /\ n.root = me.root /\ n.names = me.names /\ Goes(p, n)
      BY <1>2, <1>6 DEF Good, ProcessFields
    <2> HIDE DEF n
    <2> QED
      BY <1>5, <1>6, <2>1
  <1>7. CASE NotChanged(p, me)
    BY <1>1, <1>7, NotChangedPlace DEF me
  <1>8. CASE Goes(p, [me EXCEPT !.pc = "save", !.fd = found]) /\ UNCHANGED hist
    <2> DEFINE n == [me EXCEPT !.pc = "save", !.fd = found]
    <2>1. n.pc = "save" /\ n.state = me.state /\ n.i = me.i /\ n.child = me.child /\ n.status = me.status
          /\ n.want = me.want /\ n.cwd = me.cwd /\ n.root = me.root /\ n.names = me.names /\ Goes(p, n)
      BY <1>2, <1>8 DEF Good, ProcessFields
    <2> HIDE DEF n
    <2> QED
      BY <1>5, <1>8, <2>1
  <1> QED
    BY <1>3, <1>6, <1>7, <1>8

\* The working directory is saved, or a child goes on.
LEMMA SavePlace ==
  ASSUME MkOK, MoreOK, PlaceOK, NEW p \in Both, savewd_save(p)
  PROVE  PlaceOK'
  <1> DEFINE me == ps[p]
             go == [me EXCEPT !.pc = "chdir"]
  <1>1. Running(p) /\ me.pc = "save" /\ UNCHANGED <<tree, line>>
    BY DEF savewd_save
  <1>2. Good(me, tree) /\ HistOK(hist) /\ line.prog = "mkdir" /\ FamilyOK /\ Expands
    BY <1>1, RunningFacts DEF MkOK, MoreOK, Expands
  <1>3. /\ \E failed \in BOOLEAN : hist' = [hist EXCEPT !.lost = hist.lost \/ failed] /\ (Goes(p, [go EXCEPT !.state = "ERROR", !.child = "none"]) \/ ~failed)
        /\ \/ hist'.lost = TRUE /\ Goes(p, [go EXCEPT !.state = "ERROR", !.child = "none"])
           \/ (me.state = "INITIAL" \/ (me.state = "FORKING" /\ me.child = "none")) /\ Fork(p, me)
           \/ me.state = "INITIAL" /\ Goes(p, [go EXCEPT !.state = "FD", !.saved = TRUE])
           \/ me.state # "INITIAL" /\ ~(me.state = "FORKING" /\ me.child = "none") /\ Goes(p, go)
    BY <1>2 DEF savewd_save, HistOK
  <1>4. hist'.acted = hist.acted /\ (hist.lost => hist'.lost)
    BY <1>2, <1>3 DEF HistOK
  <1>5. ~hist'.lost => Sits(me, tree) /\ Along(me)
    BY <1>1, <1>2, <1>4 DEF PlaceOK, Gone, Sits, Busy
  <1> HIDE DEF me
  <1>6. CASE hist'.lost = TRUE /\ Goes(p, [go EXCEPT !.state = "ERROR", !.child = "none"])
    <2> DEFINE n == [go EXCEPT !.state = "ERROR", !.child = "none"]
    <2>1. n.pc = "chdir" /\ n.status = me.status /\ Goes(p, n)
      BY <1>2, <1>6 DEF Good, ProcessFields
    <2> HIDE DEF n
    <2> QED
      BY <1>1, <1>2, <1>4, <1>6, <2>1, PlacedStep DEF me
  <1>7. CASE (me.state = "INITIAL" \/ (me.state = "FORKING" /\ me.child = "none")) /\ Fork(p, me)
    <2> DEFINE a == [me EXCEPT !.pc = "restore", !.state = "FORKING", !.child = "child", !.fd = FALSE]
               b == [me EXCEPT !.pc = "chdir", !.state = "FORKING", !.child = "self"]
    <2>1. a.pc = "restore" /\ a.i = me.i /\ a.state = "FORKING" /\ a.child = "child" /\ a.status = me.status /\ a.cwd = me.cwd
      BY <1>2 DEF Good, ProcessFields
    <2>2. b.pc = "chdir" /\ b.i = me.i /\ b.state = "FORKING" /\ b.child = "self" /\ b.status = me.status
          /\ b.want = me.want /\ b.cwd = me.cwd /\ b.root = me.root /\ b.names = me.names
      BY <1>2 DEF Good, ProcessFields
    <2>3. ps' = [parent |-> a, child |-> b]
      BY <1>7 DEF Fork
    <2> HIDE DEF a, b
    <2>4. p = "parent" /\ me = ps.parent /\ ps.child.pc = "none"
      <3>1. p = "child" => me = ps.child /\ ps.child.pc # "none" /\ me.state = "FORKING" /\ me.child = "self"
        BY <1>1, <1>2 DEF FamilyOK, me
      <3>2. p = "parent" /\ me = ps.parent
        BY <1>7, <3>1 DEF Both, me
      <3> QED
        BY <1>1, <1>2, <3>2 DEF FamilyOK
    <2>5. Failed => a.status = 1
      <3>1. me.pc = "save"
        BY <1>1 DEF me
      <3> QED
        BY <2>1, <2>4, <3>1 DEF Failed, Both
    <2>6. ~hist'.lost => Sits(a, tree)
      BY <1>5, <1>7, <2>1 DEF Sits, HasHome, Setting, Busy
    <2>7. ~hist'.lost => Along(b)
      BY <1>5, <2>2 DEF Along, From
    <2>8. ~hist'.lost => Sits(b, tree)
      BY <1>1, <1>5, <2>2, <2>7 DEF Sits, HasHome, Setting, Busy, me
    <2> QED
      BY <1>1, <1>2, <1>4, <2>1, <2>3, <2>5, <2>6, <2>8, PlacedPair
  <1>8. ASSUME NEW n, Goes(p, n), n.pc = "chdir", n.i = me.i, n.status = me.status, n.child = me.child,
               n.want = me.want, n.cwd = me.cwd, n.root = me.root, n.names = me.names,
               \/ n.state = "FD" /\ me.state = "INITIAL"
               \/ n.state = me.state /\ me.state # "INITIAL" /\ ~(me.state = "FORKING" /\ me.child = "none")
        PROVE  PlaceOK'
    <2>1. ~hist'.lost => Along(n)
      BY <1>5, <1>8 DEF Along, From
    <2>2. me.child = "child" => me.state # "FORKING"
      <3>1. ps.parent.pc \in Busy => ps.child.pc = "none"
        BY <1>2 DEF FamilyOK, Busy
      <3>2. p = "parent" => me.child # "child"
        BY <1>1, <1>2, <3>1 DEF FamilyOK, me, Busy
      <3>3. p = "child" => me.child = "self"
        BY <1>1, <1>2 DEF FamilyOK, me
      <3> QED
        BY <3>2, <3>3 DEF Both
    <2>3. n.state = "FD" \/ ~HasHome(n)
      BY <1>2, <1>8, <2>2 DEF HasHome, Good
    <2>4. HasHome(n) => HasHome(me)
      BY <1>8 DEF HasHome
    <2>5. ~hist'.lost => Sits(n, tree')
      BY <1>1, <1>5, <1>8, <2>1, <2>3, <2>4 DEF Sits, Setting, Busy, me, HasHome
    <2> QED
      BY <1>1, <1>2, <1>4, <1>8, <2>5, PlacedStep DEF me
  <1>9. CASE me.state = "INITIAL" /\ Goes(p, [go EXCEPT !.state = "FD", !.saved = TRUE])
    <2> DEFINE n == [go EXCEPT !.state = "FD", !.saved = TRUE]
    <2>1. n.pc = "chdir" /\ n.state = "FD" /\ n.i = me.i /\ n.child = me.child /\ n.status = me.status
          /\ n.want = me.want /\ n.cwd = me.cwd /\ n.root = me.root /\ n.names = me.names /\ Goes(p, n)
      BY <1>2, <1>9 DEF Good, ProcessFields
    <2> HIDE DEF n
    <2> QED
      BY <1>8, <1>9, <2>1
  <1>10. CASE me.state # "INITIAL" /\ ~(me.state = "FORKING" /\ me.child = "none") /\ Goes(p, go)
    <2>1. go.pc = "chdir" /\ go.state = me.state /\ go.i = me.i /\ go.child = me.child /\ go.status = me.status
          /\ go.want = me.want /\ go.cwd = me.cwd /\ go.root = me.root /\ go.names = me.names
      BY <1>2 DEF Good, ProcessFields
    <2> HIDE DEF go
    <2> QED
      BY <1>8, <1>10, <2>1
  <1> QED
    BY <1>3, <1>6, <1>7, <1>9, <1>10

\* The working directory is changed.
LEMMA ChdirPlace ==
  ASSUME MkOK, MoreOK, PlaceOK, NEW p \in Both, Chdir(p)
  PROVE  PlaceOK'
  <1> DEFINE me == ps[p]
             dir == Lookup(tree, From(me), Aim(me)).dir
             state == AfterChdir(me.state)
             there == [me EXCEPT !.cwd = dir, !.state = state]
  <1>1. Running(p) /\ me.pc = "chdir" /\ UNCHANGED <<tree, line>>
    BY DEF Chdir
  <1>2. Good(me, tree) /\ TreeOK(tree) /\ LineOK /\ line.prog = "mkdir" /\ HistOK(hist) /\ Expands
    BY <1>1, RunningFacts DEF MkOK, Expands
  <1>3. (ChdirError(tree, From(me), Aim(me)) = "ok" /\ Changed(p, there)) \/ NotChanged(p, me)
    <2>1. Chdir(p) => \E failed \in BOOLEAN :
                        /\ Trouble(failed) /\ Spend(failed)
                        /\ IF ChdirError(tree, From(me), Aim(me)) = "ok" /\ ~failed THEN Changed(p, there) ELSE NotChanged(p, me)
      BY <1>2 DEF Chdir, Good, ProcessFields
    <2> HIDE DEF me, there
    <2> QED
      BY <2>1
  <1>4. CASE NotChanged(p, me)
    <2> HIDE DEF me
    <2> QED
      BY <1>1, <1>4, NotChangedPlace DEF me
  <1>5. CASE ChdirError(tree, From(me), Aim(me)) = "ok" /\ Changed(p, there)
    <2>1. ~hist.lost => Sits(me, tree) /\ Along(me)
      BY <1>1, <1>2 DEF PlaceOK, Gone, Sits, Busy
    <2>2. state = IF me.state = "FD" THEN "FDPOST" ELSE me.state
      BY DEF AfterChdir
    <2>3. me.pc \in Busy
      BY <1>1 DEF Busy
    <2>4. ~hist.lost /\ ~me.want =>
            \E k \in 1..Len(line.ops[me.i].names) :
              dir = Lexical(line.ops[me.i], k) /\ Tail(me.names) = SubSeq(line.ops[me.i].names, k + 1, Len(line.ops[me.i].names))
      <3> DEFINE one == <<Head(me.names)>>
                 l == Lookup(tree, From(me), one)
      <3>1. SUFFICES ASSUME ~hist.lost, ~me.want
                     PROVE  \E k \in 1..Len(line.ops[me.i].names) :
                              dir = Lexical(line.ops[me.i], k) /\ Tail(me.names) = SubSeq(line.ops[me.i].names, k + 1, Len(line.ops[me.i].names))
        OBVIOUS
      <3>2. dir = l.dir /\ l.err = "ok"
        BY <1>5, <3>1 DEF Aim, ChdirError
      <3>3. Along(me)
        BY <2>1, <3>1
      <3>4. \E k \in 1..Len(line.ops[me.i].names) :
               /\ Tail(me.names) = SubSeq(line.ops[me.i].names, k + 1, Len(line.ops[me.i].names))
               /\ l.err = "ok" => l.dir = Lexical(line.ops[me.i], k)
        <4> HIDE DEF me
        <4> QED
          BY <1>2, <2>3, <3>3, AlongFacts
      <3> HIDE DEF l, dir, me
      <3> QED
        BY <3>2, <3>4
    <2> HIDE DEF me, dir, state
    <2>5. DOMAIN there = ProcessFields /\ there.pc = "chdir" /\ there.i = me.i /\ there.child = me.child /\ there.state = state
          /\ there.status = me.status /\ there.want = me.want /\ there.cwd = dir /\ there.names = me.names
      BY <1>1, <1>2 DEF Good, ProcessFields
    <2> HIDE DEF there
    <2>6. ASSUME NEW n, Goes(p, n), UNCHANGED hist, n.pc \in {"ancestor", "chmod"}, n.i = me.i, n.child = me.child, n.state = state,
                 n.status = me.status, n.want = me.want, n.pc = "ancestor" => ~me.want /\ ~n.root /\ n.cwd = dir /\ n.names = Tail(me.names)
          PROVE  PlaceOK'
      <3>1. SUFFICES ASSUME ~hist.lost
                     PROVE  Sits(n, tree')
        BY <1>1, <1>2, <2>6, PlacedStep DEF me
      <3>2. ~HasHome(me) \/ me.state = "FD"
        BY <1>1, <2>1, <3>1 DEF Sits
      <3>3. ~HasHome(n)
        BY <2>2, <2>6, <3>2 DEF HasHome
      <3>4. n.pc = "ancestor" => Along(n)
        <4>1. SUFFICES ASSUME n.pc = "ancestor"
                       PROVE  Along(n)
          OBVIOUS
        <4>2. PICK k \in 1..Len(line.ops[me.i].names) :
                dir = Lexical(line.ops[me.i], k) /\ Tail(me.names) = SubSeq(line.ops[me.i].names, k + 1, Len(line.ops[me.i].names))
          BY <2>4, <2>6, <3>1, <4>1
        <4>3. From(n) = dir /\ k \in 0..Len(line.ops[me.i].names)
          BY <2>6, <4>1 DEF From
        <4> QED
          BY <2>6, <4>1, <4>2, <4>3 DEF Along
      <3>5. n.state # "ERROR" /\ (n.state = "FINAL" => n.i >= LastRelative)
        BY <2>1, <2>2, <2>6, <3>1 DEF Sits
      <3>6. Setting(n) => Stands(tree', Target(line.ops[n.i]))
        BY <1>1, <2>1, <2>6, <3>1 DEF Sits, Setting
      <3> QED
        BY <2>6, <3>3, <3>4, <3>5, <3>6 DEF Sits, Busy
    <2>7. CASE ~there.want
      <3> DEFINE tail == Tail(there.names)
                 n == [CloseDir(there) EXCEPT !.pc = "ancestor", !.names = tail, !.root = FALSE]
      <3>1. Goes(p, n) /\ UNCHANGED hist
        BY <1>5, <2>5, <2>7 DEF Changed, CloseDir, ProcessFields
      <3>2. tail = Tail(me.names)
        BY <2>5
      <3> HIDE DEF tail
      <3>3. n.pc = "ancestor" /\ n.i = me.i /\ n.child = me.child /\ n.state = state /\ n.status = me.status /\ n.want = me.want
            /\ ~n.root /\ n.cwd = dir /\ n.names = tail
        BY <2>5 DEF ProcessFields, CloseDir
      <3> HIDE DEF n
      <3> QED
        BY <2>5, <2>6, <2>7, <3>1, <3>2, <3>3
    <2>8. CASE there.want
      <3> DEFINE n == [there EXCEPT !.pc = "chmod", !.inside = TRUE]
      <3>1. Goes(p, n) /\ UNCHANGED hist
        BY <1>5, <2>8 DEF Changed, SetUp
      <3>2. n.pc = "chmod" /\ n.i = me.i /\ n.child = me.child /\ n.state = state /\ n.status = me.status /\ n.want = me.want
        BY <2>5 DEF ProcessFields
      <3> HIDE DEF n
      <3> QED
        BY <2>6, <3>1, <3>2
    <2> QED
      BY <2>7, <2>8
  <1> QED
    BY <1>3, <1>4, <1>5

\* A name that leads somewhere leads to a file.
LEMMA FoundThere ==
  ASSUME NEW t, NEW dir \in Paths, NEW names \in Paths, names # <<>>, Lookup(t, dir, names).err = "ok"
  PROVE  Lookup(t, dir, names).dir \in DOMAIN t
  <1> DEFINE at == Lookup(t, dir, Front(names))
             last == Last(names)
  <1>1. Front(names) \in Paths
    BY FrontFacts DEF Paths
  <1>2. Lookup(t, dir, names) = Resolve(t, at, last) /\ at \in Places
    BY <1>1, LookupFacts
  <1> HIDE DEF at, last
  <1>3. Resolve(t, at, last).err = "ok" => Resolve(t, at, last).dir \in DOMAIN t
    <2> DEFINE err == IF at.err = "ok" THEN Search(t, at.dir) ELSE at.err
               next == Entry(at.dir, last)
    <2>1. Resolve(t, at, last) = CASE err # "ok" -> [at EXCEPT !.err = err]
          [] err = "ok" /\ next \notin DOMAIN t -> [err |-> "ENOENT", dir |-> next]
          [] OTHER -> [err |-> "ok", dir |-> next]
      BY DEF Resolve
    <2> HIDE DEF err, next
    <2> QED
      BY <1>2, <2>1 DEF Places
  <1> QED
    BY <1>2, <1>3

\* What is there already is looked at.
LEMMA ExistingPlace ==
  ASSUME MkOK, MoreOK, PlaceOK, NEW p \in Both, Existing(p)
  PROVE  PlaceOK'
  <1> DEFINE me == ps[p]
             e == [me EXCEPT !.err = "ok"]
             ok == TakesExisting(me)
  <1>1. Running(p) /\ me.pc = "stat" /\ UNCHANGED <<tree, line>> /\ Acted(p, e, ok)
    BY DEF Existing
  <1>2. Good(me, tree) /\ TreeOK(tree) /\ LineOK /\ line.prog = "mkdir" /\ Expands
    BY <1>1, RunningFacts DEF MkOK, Expands
  <1>3. ok \in BOOLEAN
    BY DEF TakesExisting
  <1>4. me.pc \in Busy
    BY <1>1 DEF Busy
  <1>5. ok /\ ~hist.lost => Stands(tree', Target(line.ops[me.i]))
    <2> DEFINE from == From(me)
               l == Lookup(tree, from, me.names)
    <2>1. SUFFICES ASSUME ok, ~hist.lost
                   PROVE  Stands(tree', Target(line.ops[me.i]))
      OBVIOUS
    <2>2. l.err = "ok" /\ tree[l.dir].kind = "dir"
      BY <2>1 DEF TakesExisting
    <2>3. Along(me)
      BY <1>1, <1>2, <2>1 DEF PlaceOK, Gone, Sits, Busy
    <2>4. l.err = "ok" => l.dir = Target(line.ops[me.i])
      <3> HIDE DEF me
      <3> QED
        BY <1>2, <1>4, <2>3, AlongFacts
    <2>5. l.dir \in DOMAIN tree
      <3>1. from \in Paths /\ me.names \in Paths /\ me.names # <<>>
        BY <1>2, <1>4, AimFacts DEF Good
      <3> HIDE DEF me, from
      <3> QED
        BY <2>2, <3>1, FoundThere
    <2> HIDE DEF l, me
    <2> QED
      BY <1>1, <2>2, <2>4, <2>5 DEF Stands
  <1> HIDE DEF ok, me
  <1>6. DOMAIN e = ProcessFields /\ Alike(me, e) /\ e.status = me.status /\ e.cwd = me.cwd
    BY <1>2 DEF Good, ProcessFields, Alike
  <1> HIDE DEF e
  <1> QED
    BY <1>1, <1>2, <1>3, <1>4, <1>5, <1>6, ActedPlace DEF me

\* A directory on the way is made.
LEMMA OneMore ==
  ASSUME NEW new, NEW file, Adds(tree', tree, new, file), OnTheWay(new)
  PROVE  Expands
  BY DEF Adds, Expands

\* An ancestor is made, or passed.
LEMMA AncestorPlace ==
  ASSUME MkOK, MoreOK, PlaceOK, NEW p \in Both, mkancesdirs(p)
  PROVE  PlaceOK'
  <1> DEFINE me == ps[p]
             op == line.ops[me.i]
             from == From(me)
             name == Head(me.names)
             err == MakeError(tree, from, <<name>>)
             makes == name # ".." /\ err = "ok"
             made == CASE name = ".." -> FALSE [] name # ".." /\ err = "ok" -> TRUE [] OTHER -> me.made
             readable == name # ".." /\ err = "ok" /\ "ur" \in ancestor_mode
             tail == Tail(me.names)
  <1>1. Running(p) /\ me.pc = "ancestor" /\ UNCHANGED <<line, budget, hist>>
    BY DEF mkancesdirs
  <1>2. Good(me, tree) /\ TreeOK(tree) /\ LineOK /\ line.prog = "mkdir" /\ ~me.want /\ HistOK(hist)
    BY <1>1, RunningFacts DEF MkOK, MoreOK, ModesOK, Running, Ready
  <1>3. me.pc \in Busy /\ from \in Paths /\ <<name>> \in Paths /\ <<name>> # <<>> /\ me.i \in 1..Len(line.ops)
    BY <1>1, <1>2, AimFacts DEF Busy, Good
  <1>4. \/ Goes(p, [me EXCEPT !.pc = "mkdir"]) /\ UNCHANGED tree
        \/ name = "." /\ Goes(p, [me EXCEPT !.names = tail]) /\ UNCHANGED tree
        \/ /\ tree' = IF makes THEN Made(tree, from, <<name>>, "dir", ancestor_mode, "ancestor") ELSE tree
           /\ Goes(p, [me EXCEPT !.pc = "open", !.made = made, !.nofollow = made, !.readable = readable])
    BY <1>2 DEF mkancesdirs, Good, ProcessFields
  <1>5. SUFFICES ASSUME ~hist.lost
                 PROVE  PlaceOK'
    BY <1>1 DEF PlaceOK
  <1>6. Sits(me, tree) /\ Along(me)
    BY <1>1, <1>2, <1>5 DEF PlaceOK, Gone, Sits, Busy
  <1>7. PICK k \in 1..Len(op.names) :
          /\ Entry(from, name) = Lexical(op, k) /\ tail = SubSeq(op.names, k + 1, Len(op.names)) /\ from = Lexical(op, k - 1)
          /\ err = "ok" => NewName(tree, from, <<name>>) = Lexical(op, k)
    <2> HIDE DEF me
    <2> QED
      BY <1>2, <1>3, <1>6, AlongFacts
  <1>8. ASSUME NEW n, Goes(p, n), n.pc \in {"ancestor", "mkdir", "open"}, Alike(me, n), n.status = me.status, ~n.want, n.cwd = me.cwd,
               Along(n), Expands
        PROVE  PlaceOK'
    <2> HIDE DEF me
    <2>1. Sits(n, tree')
      BY <1>1, <1>6, <1>8 DEF Sits, HasHome, Setting, Alike, Busy
    <2> QED
      BY <1>1, <1>2, <1>8, <2>1, PlacedStep DEF me
  <1>9. UNCHANGED tree => Expands
    BY DEF Expands
  <1>10. ASSUME NEW n, n.names = me.names, n.root = me.root, n.cwd = me.cwd, Alike(me, n)
         PROVE  Along(n)
    <2> HIDE DEF me
    <2> QED
      BY <1>6, <1>10 DEF Along, From, Alike
  <1>11. CASE Goes(p, [me EXCEPT !.pc = "mkdir"]) /\ UNCHANGED tree
    <2> DEFINE n == [me EXCEPT !.pc = "mkdir"]
    <2> HIDE DEF me
    <2>1. n.pc = "mkdir" /\ Alike(me, n) /\ n.status = me.status /\ ~n.want /\ n.cwd = me.cwd /\ n.names = me.names /\ n.root = me.root /\ Goes(p, n)
      BY <1>2, <1>11 DEF Good, ProcessFields, Alike
    <2> HIDE DEF n
    <2> QED
      BY <1>8, <1>9, <1>10, <1>11, <2>1
  <1>12. CASE name = "." /\ Goes(p, [me EXCEPT !.names = tail]) /\ UNCHANGED tree
    <2> DEFINE n == [me EXCEPT !.names = tail]
    <2>1. from = Lexical(op, k)
      BY <1>7, <1>12 DEF Entry
    <2>2. k \in 0..Len(op.names)
      OBVIOUS
    <2> HIDE DEF tail
    <2>3. n.pc = "ancestor" /\ Alike(me, n) /\ n.status = me.status /\ ~n.want /\ n.cwd = me.cwd /\ n.names = tail /\ n.root = me.root /\ Goes(p, n)
      <3> HIDE DEF me
      <3> QED
        BY <1>1, <1>2, <1>12 DEF Good, ProcessFields, Alike
    <2> HIDE DEF n
    <2>4. From(n) = from /\ line.ops[n.i] = op
      BY <2>3 DEF From, Alike
    <2> HIDE DEF me, from, op
    <2>5. Along(n)
      BY <1>7, <2>1, <2>2, <2>3, <2>4 DEF Along
    <2> QED
      BY <1>8, <1>9, <1>12, <2>3, <2>5
  <1>13. CASE /\ tree' = IF makes THEN Made(tree, from, <<name>>, "dir", ancestor_mode, "ancestor") ELSE tree
              /\ Goes(p, [me EXCEPT !.pc = "open", !.made = made, !.nofollow = made, !.readable = readable])
    <2> DEFINE n == [me EXCEPT !.pc = "open", !.made = made, !.nofollow = made, !.readable = readable]
               kind == "dir"
               by == "ancestor"
    <2>1. Expands
      <3>1. CASE makes
        <4>1. ancestor_mode \in SUBSET CHMOD_MODE_BITS /\ kind \in {"dir", "reg", "nod"} /\ by \in {"before", "other", "ancestor", "mkdir"}
          BY RunningFacts, <1>1 DEF ancestor_mode, CHMOD_MODE_BITS, S_IRWXUGO, S_IWUGO, S_IXUGO
        <4> DEFINE one == <<name>>
        <4>2. one \in Paths /\ one # <<>> /\ from \in Paths /\ MakeError(tree, from, one) = "ok"
          BY <1>3, <3>1
        <4>3. tree' = Made(tree, from, one, kind, ancestor_mode, by)
          BY <1>13, <3>1
        <4> DEFINE new == NewName(tree, from, one)
                   file == [kind |-> kind, mode |-> ancestor_mode, by |-> by]
        <4>4. OnTheWay(new)
          BY <1>3, <1>7, <3>1 DEF OnTheWay
        <4> HIDE DEF me, name, kind, by, one, from
        <4>5. Adds(Made(tree, from, one, kind, ancestor_mode, by), tree, new, file)
          BY <1>2, <4>1, <4>2, MadeFacts
        <4> HIDE DEF new, file
        <4> QED
          BY <4>3, <4>4, <4>5, OneMore
      <3>2. CASE ~makes
        BY <1>9, <1>13, <3>2
      <3> QED
        BY <3>1, <3>2
    <2>2. Goes(p, n)
      BY <1>13
    <2> HIDE DEF me, made, readable
    <2>3. n.pc = "open" /\ Alike(me, n) /\ n.status = me.status /\ ~n.want /\ n.cwd = me.cwd /\ n.names = me.names /\ n.root = me.root
      BY <1>2 DEF Good, ProcessFields, Alike
    <2> HIDE DEF n
    <2> QED
      BY <1>8, <1>10, <2>1, <2>2, <2>3
  <1> QED
    BY <1>4, <1>11, <1>12, <1>13

\* The directory itself is made.
LEMMA MakeDirPlace ==
  ASSUME MkOK, MoreOK, PlaceOK, NEW p \in Both, MakeDir(p)
  PROVE  PlaceOK'
  <1>0. PICK me : me = ps[p]
    OBVIOUS
  <1> DEFINE err == MakeError(tree, From(me), me.names)
             m == mkdir_mode \ (line.set.umask \cup SetIds)
             readable == "ur" \in line.set.mode
             op == line.ops[me.i]
  <1>1. Running(p) /\ me.pc = "mkdir" /\ UNCHANGED <<line, budget>>
    BY <1>0 DEF MakeDir
  <1>2. Good(me, tree) /\ TreeOK(tree) /\ LineOK /\ SetOK /\ line.prog = "mkdir" /\ DOMAIN ps = Both /\ HistOK(hist)
    BY <1>0, <1>1, RunningFacts DEF MkOK, ProcsOK
  <1>3. From(me) \in Paths /\ me.names \in Paths /\ me.names # <<>> /\ me.pc \in Busy /\ me.i \in 1..Len(line.ops)
    BY <1>1, <1>2, AimFacts DEF Busy, Good
  <1>4. \/ Goes(p, [me EXCEPT !.pc = "stat", !.err = err]) /\ UNCHANGED <<tree, hist>>
        \/ /\ err = "ok" /\ tree' = Made(tree, From(me), me.names, "dir", m, "mkdir")
           /\ \/ Acted(p, me, TRUE)
              \/ Goes(p, [me EXCEPT !.pc = "open", !.want = TRUE, !.nofollow = TRUE, !.readable = readable]) /\ UNCHANGED hist
    BY <1>0 DEF MakeDir
  <1>5. hist'.lost = hist.lost
    <2>1. CASE UNCHANGED hist
      BY <2>1
    <2>2. CASE Acted(p, me, TRUE)
      <3> DEFINE ok == TRUE
      <3>1. ok \in BOOLEAN /\ Acted(p, me, ok) /\ DOMAIN me = ProcessFields
        BY <1>2, <2>2 DEF Good
      <3> HIDE DEF ok
      <3> QED
        BY <1>2, <1>3, <3>1, ActedFacts
    <2> QED
      BY <1>4, <2>1, <2>2
  <1>6. SUFFICES ASSUME ~hist.lost
                 PROVE  PlaceOK'
    BY <1>5 DEF PlaceOK
  <1>7. Sits(me, tree) /\ Along(me)
    BY <1>0, <1>1, <1>2, <1>6 DEF PlaceOK, Gone, Sits, Busy
  <1>8. CASE Goes(p, [me EXCEPT !.pc = "stat", !.err = err]) /\ UNCHANGED <<tree, hist>>
    <2> DEFINE n == [me EXCEPT !.pc = "stat", !.err = err]
    <2> HIDE DEF err
    <2>1. n.pc = "stat" /\ n.state = me.state /\ n.i = me.i /\ n.child = me.child /\ n.want = me.want
          /\ n.cwd = me.cwd /\ n.root = me.root /\ n.names = me.names /\ n.status = me.status /\ Goes(p, n)
      BY <1>2, <1>8 DEF Good, ProcessFields
    <2> HIDE DEF n
    <2>2. Along(n) /\ Expands
      BY <1>7, <1>8, <2>1 DEF Along, From, Expands
    <2>3. Sits(n, tree')
      BY <1>1, <1>7, <2>1, <2>2 DEF Sits, HasHome, Setting, Busy
    <2> QED
      BY <1>0, <1>1, <1>2, <1>8, <2>1, <2>2, <2>3, PlacedStep
  <1>9. CASE /\ err = "ok" /\ tree' = Made(tree, From(me), me.names, "dir", m, "mkdir")
             /\ \/ Acted(p, me, TRUE)
                \/ Goes(p, [me EXCEPT !.pc = "open", !.want = TRUE, !.nofollow = TRUE, !.readable = readable]) /\ UNCHANGED hist
    <2> DEFINE k == "dir"
               by == "mkdir"
               names == me.names
    <2>1. PICK from \in Paths : from = From(me)
      BY <1>3
    <2>2. PICK new : new = NewName(tree, from, names)
      OBVIOUS
    <2>3. PICK mode : mode = m
      OBVIOUS
    <2>4. mode \in SUBSET CHMOD_MODE_BITS /\ k \in {"dir", "reg", "nod"} /\ by \in {"before", "other", "ancestor", "mkdir"}
      BY <1>2, <2>3 DEF mkdir_mode, SetOK
    <2>5. tree' = Made(tree, from, names, k, mode, by) /\ names \in Paths /\ names # <<>> /\ MakeError(tree, from, names) = "ok"
      BY <1>3, <1>9, <2>1, <2>3
    <2>6. new = Target(op)
      BY <1>2, <1>3, <1>7, <1>9, <2>1, <2>2, AlongFacts
    <2>7. OnTheWay(new)
      <3>1. Len(op.names) \in Nat /\ Len(op.names) # 0
        <4>1. op.names \in Paths /\ op.names # <<>>
          BY <1>2, <1>3, OperandFacts
        <4> QED
          BY <4>1 DEF Paths
      <3>2. Len(op.names) \in 1..Len(op.names)
        BY <3>1
      <3> QED
        BY <1>3, <2>6, <3>2 DEF OnTheWay, Target
    <2>8. Expands /\ Stands(tree', new)
      <3> DEFINE file == [kind |-> k, mode |-> mode, by |-> by]
      <3>1. file.kind = "dir"
        OBVIOUS
      <3> HIDE DEF k, by, names
      <3>2. Adds(Made(tree, from, names, k, mode, by), tree, new, file)
        BY <1>2, <2>1, <2>2, <2>4, <2>5, MadeFacts
      <3> HIDE DEF file
      <3> QED
        BY <2>5, <2>7, <3>1, <3>2, OneMore DEF Adds, Stands
    <2> HIDE DEF m
    <2>9. CASE Acted(p, me, TRUE)
      <3> DEFINE ok == TRUE
      <3>1. ok \in BOOLEAN /\ Acted(p, me, ok) /\ DOMAIN me = ProcessFields /\ Alike(me, me)
        BY <1>2, <2>9 DEF Good, Alike
      <3> HIDE DEF ok
      <3> QED
        BY <1>0, <1>1, <1>3, <2>6, <2>8, <3>1, ActedPlace
    <2>10. CASE Goes(p, [me EXCEPT !.pc = "open", !.want = TRUE, !.nofollow = TRUE, !.readable = readable]) /\ UNCHANGED hist
      <3>1. PICK n : n = [me EXCEPT !.pc = "open", !.want = TRUE, !.nofollow = TRUE, !.readable = readable]
        OBVIOUS
      <3> HIDE DEF readable
      <3>2. n.pc = "open" /\ n.state = me.state /\ n.i = me.i /\ n.child = me.child /\ n.status = me.status /\ Goes(p, n)
            /\ n.root = me.root /\ n.cwd = me.cwd /\ n.names = me.names
        BY <1>2, <2>10, <3>1 DEF Good, ProcessFields
      <3>3. Along(n)
        BY <1>7, <3>2 DEF Along, From
      <3>4. Sits(n, tree')
        BY <1>1, <1>7, <2>6, <2>8, <3>2, <3>3 DEF Sits, HasHome, Setting, Busy
      <3> QED
        BY <1>0, <1>1, <1>2, <2>8, <2>10, <3>2, <3>4, PlacedStep
    <2> QED
      BY <1>9, <2>9, <2>10
  <1> QED
    BY <1>4, <1>8, <1>9

\* The mode of a directory changes no place.
LEMMA DirchownmodPlace ==
  ASSUME MkOK, MoreOK, PlaceOK, NEW p \in Both, dirchownmod(p)
  PROVE  PlaceOK'
  <1> DEFINE me == ps[p]
             dir == IF me.inside THEN me.cwd ELSE Lookup(tree, From(me), me.names).dir
             mode == line.set.mode \cup (tree[dir].mode \ line.set.bits)
             e == CloseDir(me)
  <1>1. Running(p) /\ me.pc = "chmod" /\ UNCHANGED line
    BY DEF dirchownmod
  <1>2. Good(me, tree) /\ TreeOK(tree) /\ line.prog = "mkdir" /\ me.pc \in Busy /\ Setting(me)
    BY <1>1, RunningFacts DEF MkOK, MoreOK, ModesOK, Running, Ready, Setting, Busy
  <1>3. PICK failed \in BOOLEAN :
          /\ Acted(p, e, ~failed)
          /\ tree' = [tree EXCEPT ![dir].mode = mode] \/ tree' = tree
    BY DEF dirchownmod
  <1> HIDE DEF dir, mode
  <1>4. DOMAIN tree' = DOMAIN tree /\ \A x \in DOMAIN tree : tree'[x].kind = tree[x].kind /\ tree'[x].by = tree[x].by
    <2>1. CASE tree' = [tree EXCEPT ![dir].mode = mode]
      <3>1. \A x \in DOMAIN tree : tree[x] \in FileTypes
        BY <1>2 DEF TreeOK
      <3>2. ASSUME NEW x \in DOMAIN tree
            PROVE  tree'[x].kind = tree[x].kind /\ tree'[x].by = tree[x].by
        BY <2>1, <3>1 DEF FileTypes
      <3> QED
        BY <2>1, <3>2
    <2> QED
      BY <1>3, <2>1
  <1>5. Expands
    BY <1>4 DEF Expands
  <1>6. ~hist.lost => Stands(tree', Target(line.ops[me.i]))
    <2>1. ~hist.lost => Stands(tree, Target(line.ops[me.i]))
      BY <1>1, <1>2 DEF PlaceOK, Gone, Sits
    <2> QED
      BY <1>4, <2>1 DEF Stands
  <1> HIDE DEF me
  <1>7. DOMAIN e = ProcessFields /\ Alike(me, e) /\ e.status = me.status /\ e.cwd = me.cwd
    BY <1>2 DEF Good, ProcessFields, Alike, CloseDir
  <1> DEFINE ok == ~failed
  <1>8. ok \in BOOLEAN /\ Acted(p, e, ok)
    BY <1>3
  <1> HIDE DEF e, ok
  <1> QED
    BY <1>1, <1>2, <1>5, <1>6, <1>7, <1>8, ActedPlace DEF me

\* The process comes back, waits for its child, or exits.
LEMMA RestorePlace ==
  ASSUME MkOK, MoreOK, PlaceOK, NEW p \in Both, savewd_restore(p)
  PROVE  PlaceOK'
  <1> DEFINE me == ps[p]
             on == Onward(me)
             Back == me.state \in {"INITIAL", "FD", "ERROR"} \/ (me.state = "FORKING" /\ me.child = "none")
  <1>1. Running(p) /\ me.pc = "restore" /\ UNCHANGED <<tree, line>>
    BY DEF savewd_restore
  <1>2. Good(me, tree) /\ HistOK(hist) /\ LineOK /\ line.prog = "mkdir" /\ ProcsOK /\ FamilyOK /\ Expands
    BY <1>1, RunningFacts DEF MkOK, MoreOK, Expands
  <1>3. DOMAIN on = ProcessFields /\ on.pc = "next" /\ on.i = me.i + 1 /\ on.state = me.state /\ on.status = me.status /\ on.child = me.child
        /\ on.cwd = me.cwd
    BY <1>2 DEF Good, ProcessFields, Onward
  <1>4. \/ Goes(p, on) /\ UNCHANGED hist /\ (~Restores(me) \/ Back)
        \/ \E failed \in BOOLEAN :
             /\ me.state = "FDPOST" /\ hist' = [hist EXCEPT !.lost = hist.lost \/ failed]
             /\ \/ failed /\ Goes(p, [on EXCEPT !.state = "ERROR", !.saved = FALSE])
                \/ Goes(p, [on EXCEPT !.state = "FD", !.cwd = Home])
        \/ Goes(p, [me EXCEPT !.pc = "exit"]) /\ UNCHANGED hist
        \/ /\ ps' = [parent |-> [on EXCEPT !.child = "none", !.status = MaxOf({on.status, ps.child.status})], child |-> Nobody]
           /\ me.state = "FORKING" /\ me.child = "child" /\ ps.child.pc = "exit" /\ UNCHANGED hist
        \/ /\ ps' = [parent |-> [me EXCEPT !.pc = "killed"], child |-> Nobody] /\ UNCHANGED hist
           /\ me.state = "FORKING" /\ me.child = "child" /\ ps.child.pc = "killed"
    <2> HIDE DEF me
    <2>1. savewd_restore(p) => 
          \/ Goes(p, on) /\ UNCHANGED hist /\ (~Restores(me) \/ Back)
          \/ \E failed \in BOOLEAN :
             /\ me.state = "FDPOST" /\ hist' = [hist EXCEPT !.lost = hist.lost \/ failed]
             /\ Goes(p, IF failed THEN [on EXCEPT !.state = "ERROR", !.saved = FALSE] ELSE [on EXCEPT !.state = "FD", !.cwd = Home])
          \/ Goes(p, [me EXCEPT !.pc = "exit"]) /\ UNCHANGED hist
          \/ /\ ps' = [parent |-> [on EXCEPT !.child = "none", !.status = MaxOf({on.status, ps.child.status})], child |-> Nobody]
             /\ me.state = "FORKING" /\ me.child = "child" /\ ps.child.pc = "exit" /\ UNCHANGED hist
          \/ /\ ps' = [parent |-> [me EXCEPT !.pc = "killed"], child |-> Nobody] /\ UNCHANGED hist
             /\ me.state = "FORKING" /\ me.child = "child" /\ ps.child.pc = "killed"
      BY <1>2, <1>3 DEF savewd_restore, me, ChildStatus, HistOK, ProcessFields
    <2> HIDE DEF on, Back
    <2> QED
      BY <2>1
  <1> HIDE DEF on
  <1>5. ~hist.lost => Sits(me, tree)
    BY <1>1, <1>2 DEF PlaceOK, Gone
  <1>6. Len(line.ops) \in Nat /\ me.i \in Nat /\ LastRelative \in Nat
    BY <1>2, LastFacts DEF Good
  <1>7. CASE Goes(p, on) /\ UNCHANGED hist /\ (~Restores(me) \/ Back)
    <2>1. SUFFICES ASSUME ~hist.lost
                   PROVE  Sits(on, tree')
      <3> HIDE DEF Back, me
      <3> QED
        BY <1>1, <1>2, <1>3, <1>7, PlacedStep DEF me
    <2> HIDE DEF me
    <2>2. me.state # "ERROR" /\ (me.state = "FINAL" => me.i >= LastRelative) /\ (HasHome(me) => me.cwd = Home)
      BY <1>5, <2>1 DEF Sits
    <2>3. HasHome(on) <=> HasHome(me)
      BY <1>3 DEF HasHome
    <2>4. Relative(on.i) => HasHome(me)
      <3>1. SUFFICES ASSUME Relative(on.i), ~Back
                     PROVE  FALSE
        BY <2>2 DEF HasHome
      <3>2. me.i + 1 <= LastRelative /\ ~line.ops[me.i + 1].abs
        BY <1>2, <1>3, <3>1, LastFacts DEF Relative
      <3> HIDE DEF Back, LastRelative
      <3> QED
        BY <1>6, <1>7, <3>1, <3>2 DEF Restores
    <2>5. on.state = "FINAL" => on.i >= LastRelative
      <3> HIDE DEF LastRelative
      <3> QED
        BY <1>3, <1>6, <2>2
    <2> QED
      BY <1>3, <2>2, <2>3, <2>4, <2>5 DEF Sits, Setting, Busy
  <1>8. ASSUME NEW failed \in BOOLEAN, me.state = "FDPOST", hist' = [hist EXCEPT !.lost = hist.lost \/ failed],
               \/ failed /\ Goes(p, [on EXCEPT !.state = "ERROR", !.saved = FALSE])
               \/ Goes(p, [on EXCEPT !.state = "FD", !.cwd = Home])
        PROVE  PlaceOK'
    <2>1. hist'.acted = hist.acted /\ (hist.lost => hist'.lost) /\ (failed => hist'.lost)
      BY <1>2, <1>8 DEF HistOK
    <2>2. CASE failed /\ Goes(p, [on EXCEPT !.state = "ERROR", !.saved = FALSE])
      <3> DEFINE n == [on EXCEPT !.state = "ERROR", !.saved = FALSE]
      <3>1. n.pc = "next" /\ n.status = on.status /\ Goes(p, n)
        BY <1>3, <2>2 DEF ProcessFields
      <3> HIDE DEF n, me
      <3> QED
        BY <1>1, <1>2, <1>3, <2>1, <2>2, <3>1, PlacedStep DEF me
    <2>3. CASE Goes(p, [on EXCEPT !.state = "FD", !.cwd = Home])
      <3> DEFINE n == [on EXCEPT !.state = "FD", !.cwd = Home]
      <3>1. n.pc = "next" /\ n.status = on.status /\ n.state = "FD" /\ n.cwd = Home /\ Goes(p, n)
        BY <1>3, <2>3 DEF ProcessFields
      <3> HIDE DEF n, me
      <3>2. Sits(n, tree')
        BY <3>1 DEF Sits, Setting, Busy
      <3> QED
        BY <1>1, <1>2, <1>3, <2>1, <3>1, <3>2, PlacedStep DEF me
    <2> QED
      BY <1>8, <2>2, <2>3
  <1>9. CASE Goes(p, [me EXCEPT !.pc = "exit"]) /\ UNCHANGED hist
    <2> DEFINE n == [me EXCEPT !.pc = "exit"]
    <2> HIDE DEF me
    <2>1. n.pc = "exit" /\ n.status = me.status /\ Goes(p, n)
      BY <1>2, <1>9 DEF Good, ProcessFields
    <2> HIDE DEF n
    <2> QED
      BY <1>1, <1>2, <1>9, <2>1, PlacedStep DEF me, Gone
  <1>10. me.child = "child" => p = "parent" /\ me = ps.parent
    <2>1. p = "child" => me = ps.child /\ ps.child.pc # "none"
      BY <1>1
    <2>2. p = "child" => me.child = "self"
      BY <1>2, <2>1 DEF FamilyOK
    <2> QED
      BY <2>2 DEF Both
  <1>11. CASE /\ ps' = [parent |-> [on EXCEPT !.child = "none", !.status = MaxOf({on.status, ps.child.status})], child |-> Nobody]
              /\ me.state = "FORKING" /\ me.child = "child" /\ ps.child.pc = "exit" /\ UNCHANGED hist
    <2> DEFINE s == MaxOf({on.status, ps.child.status})
               n == [on EXCEPT !.child = "none", !.status = s]
               none == Nobody
    <2>1. ps.child.status \in {0, 1} /\ on.status \in {0, 1}
      BY <1>2, <1>3, <1>11 DEF ProcsOK, Both, Good
    <2>2. s \in {0, 1} /\ s >= on.status /\ s >= ps.child.status
      <3> DEFINE a == on.status
                 b == ps.child.status
      <3>1. a \in {0, 1} /\ b \in {0, 1} /\ a \in Int /\ b \in Int
        BY <2>1
      <3> HIDE DEF a, b, on, n, me, s
      <3>2. MaxOf({a, b}) \in {a, b} /\ MaxOf({a, b}) >= a /\ MaxOf({a, b}) >= b
        BY <3>1, MaxOfFacts
      <3> QED
        BY <3>1, <3>2 DEF a, b, s
    <2>3. ps' = [parent |-> n, child |-> none]
      BY <1>11
    <2> HIDE DEF s
    <2>4. n.pc = "next" /\ n.i = on.i /\ n.state = "FORKING" /\ n.child = "none" /\ n.status = s /\ n.cwd = me.cwd
      BY <1>3, <1>11 DEF ProcessFields
    <2>5. none.pc = "none"
      BY DEF Nobody
    <2> HIDE DEF n, none
    <2>6. me = ps.parent
      BY <1>10, <1>11
    <2>7. Failed => n.status = 1
      <3>1. ps.parent.pc = "restore" /\ ps.child.pc = "exit" /\ ps.parent.status = on.status
        BY <1>1, <1>3, <1>11, <2>6
      <3> HIDE DEF me
      <3>2. Failed => on.status = 1 \/ ps.child.status = 1
        BY <3>1 DEF Failed, Both
      <3> QED
        BY <2>1, <2>2, <2>4, <3>2
    <2>8. ~hist.lost => Sits(n, tree)
      <3> HIDE DEF me
      <3>1. ~hist.lost => me.cwd = Home
        BY <1>5, <1>11 DEF Sits, HasHome
      <3> QED
        BY <2>4, <3>1 DEF Sits, Setting, Busy
    <2> HIDE DEF me
    <2> QED
      BY <1>1, <1>2, <1>11, <2>3, <2>4, <2>5, <2>7, <2>8, PlacedPair DEF Gone
  <1>12. CASE /\ ps' = [parent |-> [me EXCEPT !.pc = "killed"], child |-> Nobody] /\ UNCHANGED hist
              /\ me.state = "FORKING" /\ me.child = "child" /\ ps.child.pc = "killed"
    <2> DEFINE n == [me EXCEPT !.pc = "killed"]
               none == Nobody
    <2> HIDE DEF me
    <2>1. n.pc = "killed"
      BY <1>2, <1>12 DEF Good, ProcessFields
    <2>2. none.pc = "none"
      BY DEF Nobody
    <2>3. ps' = [parent |-> n, child |-> none]
      BY <1>12
    <2> HIDE DEF n, none
    <2> QED
      BY <1>1, <1>2, <1>12, <2>1, <2>2, <2>3, PlacedPair DEF Gone
  <1> HIDE DEF me, Back
  <1> QED
    BY <1>4, <1>7, <1>8, <1>9, <1>11, <1>12

\* A signal kills the child.
LEMMA KillPlace ==
  ASSUME MkOK, MoreOK, PlaceOK, KillChild
  PROVE  PlaceOK'
  <1> DEFINE p == "child"
             me == ps[p]
             n == [me EXCEPT !.pc = "killed"]
  <1>1. Running(p) /\ Goes(p, n) /\ UNCHANGED <<tree, line, hist>> /\ p \in Both
    BY DEF KillChild, Both
  <1> HIDE DEF p
  <1>2. Good(me, tree) /\ HistOK(hist) /\ Expands
    BY <1>1, RunningFacts DEF MkOK, Expands
  <1> HIDE DEF me
  <1>3. n.pc = "killed" /\ n.status = me.status
    BY <1>2 DEF Good, ProcessFields
  <1> HIDE DEF n
  <1> QED
    BY <1>1, <1>2, <1>3, PlacedStep DEF me, Gone

\* The files that another process adds are its own.
LEMMA PlacesStay ==
  ASSUME PlaceOK, Expands, UNCHANGED <<ps, line, hist>>
  PROVE  PlaceOK'
  <1>1. SUFFICES ASSUME ~hist.lost
                 PROVE  AllOnTheWay' /\ (line.prog = "mkdir" => Reached' /\ \A p \in Both : (ps[p].pc \notin Gone => Sits(ps[p], tree))')
    BY DEF PlaceOK
  <1>2. AllOnTheWay'
    BY <1>1, ExpandsWay DEF PlaceOK
  <1>3. ASSUME line.prog = "mkdir"
        PROVE  Reached'
    <2>1. Failed' <=> Failed
      BY DEF Failed
    <2> QED
      BY <1>1, <1>3, <2>1 DEF PlaceOK, Reached, Stands, Expands
  <1>4. ASSUME line.prog = "mkdir", NEW p \in Both
        PROVE  (ps[p].pc \notin Gone => Sits(ps[p], tree))'
    <2>1. SUFFICES ASSUME ps'[p].pc \notin Gone
                   PROVE  Sits(ps[p], tree)'
      BY DEF Gone
    <2>2. PICK you : you = ps[p]
      OBVIOUS
    <2>3. Sits(you, tree)
      BY <1>1, <1>4, <2>1, <2>2 DEF PlaceOK
    <2>4. Sits(you, tree)'
      BY <2>3, SitsStays
    <2> QED
      BY <2>2, <2>4 DEF Sits, HasHome, Relative, Setting, Along, From
  <1> QED
    BY <1>2, <1>3, <1>4

\* Another process makes a directory.
LEMMA OtherPlace ==
  ASSUME MkOK, PlaceOK, Other
  PROVE  PlaceOK'
  <1>1. PICK path \in OtherPaths :
          path \notin DOMAIN tree /\ tree' = With(tree, path, [kind |-> "dir", mode |-> S_IRWXUGO, by |-> "other"])
    BY DEF Other
  <1>2. UNCHANGED <<ps, line, hist>>
    BY DEF Other
  <1> DEFINE file == [kind |-> "dir", mode |-> S_IRWXUGO, by |-> "other"]
  <1>3. file.by = "other" /\ tree' = With(tree, path, file)
    BY <1>1
  <1> HIDE DEF file
  <1>4. DOMAIN tree' = DOMAIN tree \cup {path} /\ tree'[path] = file /\ \A x \in DOMAIN tree : tree'[x] = tree[x]
    BY <1>1, <1>3 DEF With
  <1>5. Expands
    BY <1>3, <1>4 DEF Expands
  <1> QED
    BY <1>2, <1>5, PlacesStay

\* What mknod is to make is looked up from the directory it was started in.
LEMMA StraightThere ==
  ASSUME NEW t, TreeOK(t), NEW op, op.names \in Paths, op.names # <<>>, Home \in Paths, MakeError(t, Start(op), op.names) = "ok"
  PROVE  NewName(t, Start(op), op.names) = Target(op)
  <1> DEFINE names == op.names
             N == Len(names)
             from == Start(op)
             zero == 0
             front == Front(names)
             l == Last(names)
  <1>1. N \in Nat /\ N # 0 /\ zero \in 0..N /\ names = SubSeq(names, zero + 1, N)
    BY DEF Paths
  <1>2. from \in Paths
    <2>1. Slash \in Paths
      BY DEF Slash, Paths
    <2> QED
      BY <2>1 DEF Start
  <1>3. front = SubSeq(names, zero + 1, N - 1) /\ l = names[N]
    <2> HIDE DEF zero, names, N, front, l
    <2>1. N = Len(names) /\ SubSeq(names, zero + 1, Len(names)) # <<>> /\ names \in Paths /\ SubSeq(names, zero + 1, Len(names)) = names
      BY <1>1 DEF N, names
    <2>2. Front(SubSeq(names, zero + 1, Len(names))) = SubSeq(names, zero + 1, Len(names) - 1)
          /\ Last(SubSeq(names, zero + 1, Len(names))) = names[Len(names)]
      BY <1>1, <2>1, RestFacts
    <2> QED
      BY <2>1, <2>2 DEF front, l
  <1>4. Lexical(op, zero) = from
    BY <1>1, LexicalFacts
  <1>5. NewName(t, from, names) = Entry(Lookup(t, from, front).dir, l) /\ Lookup(t, from, front).err = "ok"
    <2>1. names \in Paths /\ names # <<>> /\ MakeError(t, from, names) = "ok"
      OBVIOUS
    <2>2. NewName(t, from, names) = Entry(Lookup(t, from, Front(names)).dir, Last(names)) /\ Lookup(t, from, Front(names)).err = "ok"
      <3> HIDE DEF names, from
      <3> QED
        BY <1>2, <2>1, MakeFacts
    <2> QED
      BY <2>2
  <1>6. Lookup(t, from, front).dir = Lexical(op, N - 1)
    <2>1. N - 1 \in zero..N
      BY <1>1
    <2>2. \A m \in zero..N : Lookup(t, Lexical(op, zero), SubSeq(names, zero + 1, m)).err = "ok"
                              => Lookup(t, Lexical(op, zero), SubSeq(names, zero + 1, m)).dir = Lexical(op, m)
      <3> HIDE DEF zero
      <3> QED
        BY <1>1, LookupLexical
    <2> HIDE DEF zero, N, names, from, front
    <2> QED
      BY <1>3, <1>4, <1>5, <2>1, <2>2
  <1>7. Lexical(op, N) = Entry(Lexical(op, N - 1), names[N])
    BY <1>1, LexicalFacts
  <1> QED
    BY <1>3, <1>5, <1>6, <1>7 DEF Target

\* main() makes nothing, and has gone nowhere.
LEMMA MainPlace ==
  ASSUME MkOK, MoreOK, PlaceOK, MainFails \/ mkdir_main \/ rmdir_main \/ nod_main
  PROVE  PlaceOK'
  <1> DEFINE me == ps.parent
  <1>1. me.pc = "main" /\ UNCHANGED <<tree, hist>>
    BY DEF MainFails, mkdir_main, rmdir_main, nod_main
  <1>2. Good(me, tree) /\ DOMAIN line = LineFields /\ DOMAIN ps = Both /\ ps.child.pc = "none" /\ Len(line.ops) \in Nat
    BY <1>1, AloneFacts DEF LineOK, MkOK, ProcsOK
  <1>3. \/ Exits(1) /\ UNCHANGED line
        \/ \E set : line' = [line EXCEPT !.set = set] /\ Goes("parent", [me EXCEPT !.pc = "next"])
    BY Zenon DEF MainFails, mkdir_main, rmdir_main, nod_main, Starts
  <1>4. line'.ops = line.ops /\ line'.prog = line.prog /\ Expands
    BY <1>1, <1>2, <1>3 DEF LineFields, Expands
  <1>5. PICK n : /\ Goes("parent", n) /\ n.pc \in {"next", "exit"} /\ n.state = me.state /\ n.child = me.child /\ n.cwd = me.cwd
    <2>1. CASE Exits(1)
      <3> DEFINE n == [me EXCEPT !.pc = "exit", !.status = 1]
      <3>1. Goes("parent", n)
        BY <2>1 DEF Exits
      <3> HIDE DEF me
      <3>2. n.pc = "exit" /\ n.state = me.state /\ n.child = me.child /\ n.cwd = me.cwd
        BY <1>2 DEF Good, ProcessFields
      <3> HIDE DEF n
      <3> QED
        BY <3>1, <3>2
    <2>2. CASE Goes("parent", [me EXCEPT !.pc = "next"])
      <3> DEFINE n == [me EXCEPT !.pc = "next"]
      <3>1. Goes("parent", n)
        BY <2>2
      <3> HIDE DEF me
      <3>2. n.pc = "next" /\ n.state = me.state /\ n.child = me.child /\ n.cwd = me.cwd
        BY <1>2 DEF Good, ProcessFields
      <3> HIDE DEF n
      <3> QED
        BY <3>1, <3>2
    <2> QED
      BY <1>3, <2>1, <2>2
  <1>6. ps'["parent"] = n /\ ps'["child"].pc = "none"
    BY <1>2, <1>5 DEF Goes, Both
  <1>7. SUFFICES ASSUME ~hist.lost
                 PROVE  AllOnTheWay' /\ (line.prog = "mkdir" => Reached' /\ \A p \in Both : (ps[p].pc \notin Gone => Sits(ps[p], tree))')
    BY <1>1, <1>4 DEF PlaceOK
  <1>8. AllOnTheWay'
    BY <1>4, <1>7, ExpandsWay DEF PlaceOK
  <1>9. ASSUME line.prog = "mkdir"
        PROVE  Reached'
    <2>1. hist.acted = Upto(1)
      BY <1>1, <1>9 DEF MoreOK, CountOK
    <2>2. \A i \in 1..Len(line.ops) : hist.acted[i] = 0
      BY <1>2, <2>1 DEF Upto
    <2> QED
      BY <1>1, <1>4, <2>2 DEF Reached
  <1>10. ASSUME line.prog = "mkdir", n.pc \notin Gone
         PROVE  Sits(n, tree)'
    <2>1. Sits(me, tree)
      BY <1>1, <1>7, <1>10 DEF PlaceOK, Gone, Both
    <2>2. HasHome(me) /\ me.cwd = Home
      BY <1>1, <2>1 DEF Sits
    <2>3. n.pc = "next"
      BY <1>5, <1>10 DEF Gone
    <2>4. HasHome(n)' /\ n.state \notin {"ERROR", "FINAL"}
      <3> HIDE DEF me
      <3> QED
        BY <1>5, <2>2 DEF HasHome
    <2>5. ~Setting(n)' /\ n.pc \notin Busy
      BY <2>3 DEF Setting, Busy
    <2> QED
      BY <1>5, <2>2, <2>3, <2>4, <2>5 DEF Sits
  <1>11. ASSUME line.prog = "mkdir", NEW p \in Both, ps'[p].pc \notin Gone
         PROVE  Sits(ps[p], tree)'
    <2>1. p = "parent"
      BY <1>6, <1>11 DEF Both, Gone
    <2>2. Sits(n, tree)'
      BY <1>6, <1>10, <1>11, <2>1
    <2> QED
      BY <1>6, <2>1, <2>2 DEF Sits, HasHome, Relative, Setting, Along, From
  <1>12. \A p \in Both : (ps[p].pc \notin Gone)' <=> ps'[p].pc \notin Gone
    BY DEF Gone
  <1> QED
    BY <1>8, <1>9, <1>11, <1>12

\* The loops of rmdir, mkfifo and mknod.
LEMMA LoopPlace ==
  ASSUME MkOK, PlaceOK, make_nods \/ Removal \/ Judge \/ LoopEnds
  PROVE  PlaceOK'
  <1> DEFINE me == ps.parent
  <1>1. line.prog # "mkdir" /\ UNCHANGED <<line, hist>> /\ me.pc \in {"next", "judge"}
    BY DEF make_nods, Removal, Judge, LoopEnds, Parent
  <1>2. Good(me, tree) /\ TreeOK(tree) /\ LineOK /\ SetOK /\ Len(line.ops) \in Nat /\ Home \in Paths
    BY <1>1, AloneFacts DEF Active, LineOK
  <1>3. ASSUME \A x \in DOMAIN tree' : (x \in DOMAIN tree /\ tree'[x] = tree[x]) \/ OnTheWay(x)
        PROVE  PlaceOK'
    <2>1. \A x : OnTheWay(x)' <=> OnTheWay(x)
      BY <1>1 DEF OnTheWay
    <2>2. AllOnTheWay => AllOnTheWay'
      BY <1>3, <2>1 DEF AllOnTheWay
    <2> QED
      BY <1>1, <2>2 DEF PlaceOK
  <1>4. CASE make_nods
    <2> DEFINE op == Operand
               from == Start(op)
               names == op.names
               k == "nod"
               by == "mkdir"
               mode == line.set.mode \ line.set.umask
               new == NewName(tree, from, names)
    <2>1. me.i \in 1..Len(line.ops) /\ op = line.ops[me.i]
      BY <1>2, <1>4 DEF make_nods, Parent, LineOK, Operand
    <2>2. from \in Paths /\ names \in Paths /\ names # <<>>
      BY <1>2, <2>1, StartFacts
    <2>3. (MakeError(tree, from, names) = "ok" /\ tree' = Made(tree, from, names, k, mode, by)) \/ tree' = tree
      BY <1>4 DEF make_nods, Parent
    <2>4. CASE tree' = tree
      BY <1>3, <2>4
    <2>5. CASE MakeError(tree, from, names) = "ok" /\ tree' = Made(tree, from, names, k, mode, by)
      <3>1. new = Target(op)
        BY <1>2, <2>2, <2>5, StraightThere
      <3>2. OnTheWay(new)
        <4>1. Len(names) \in 1..Len(names)
          BY <2>2 DEF Paths
        <4> QED
          BY <2>1, <3>1, <4>1 DEF OnTheWay, Target
      <3>3. k \in {"dir", "reg", "nod"} /\ by \in {"before", "other", "ancestor", "mkdir"} /\ mode \in SUBSET CHMOD_MODE_BITS
        BY <1>2 DEF SetOK
      <3> DEFINE file == [kind |-> k, mode |-> mode, by |-> by]
      <3>4. Adds(Made(tree, from, names, k, mode, by), tree, new, file)
        <4> HIDE DEF op, from, names, k, by, mode
        <4> QED
          BY <1>2, <2>2, <2>5, <3>3, MadeFacts
      <3> HIDE DEF file, new, op, from, names, k, by, mode
      <3>5. \A x \in DOMAIN tree' : (x \in DOMAIN tree /\ tree'[x] = tree[x]) \/ OnTheWay(x)
        BY <2>5, <3>2, <3>4 DEF Adds
      <3> QED
        BY <1>3, <3>5
    <2> QED
      BY <2>3, <2>4, <2>5
  <1>5. CASE Removal
    <2> DEFINE d == Lookup(tree, Start(Operand), IF me.want THEN me.names ELSE Operand.names).dir
    <2>1. tree' = tree \/ tree' = [x \in DOMAIN tree \ {d} |-> tree[x]]
      BY <1>5 DEF Removal, Parent
    <2> HIDE DEF d
    <2> QED
      BY <1>3, <2>1
  <1>6. CASE Judge
    BY <1>3, <1>6 DEF Judge
  <1>7. CASE LoopEnds
    BY <1>3, <1>7 DEF LoopEnds
  <1> QED
    BY <1>4, <1>5, <1>6, <1>7

\* It all holds when a program starts.
LEMMA PlaceInit ==
  ASSUME MkInit
  PROVE  PlaceOK
  <1>1. /\ tree \in Trees /\ ps = [parent |-> Process, child |-> Nobody] /\ line \in Lines
        /\ hist = [acted |-> [i \in DOMAIN line.ops |-> 0], lost |-> FALSE]
    BY DEF MkInit
  <1>2. line.ops \in Seq([abs : BOOLEAN, names : Seq(STRING) \ {<<>>}])
    BY <1>1, LinesAssumption
  <1>3. \A x \in DOMAIN tree : tree[x].by = "before"
    BY <1>1, TreesAssumption
  <1>4. AllOnTheWay
    BY <1>3 DEF AllOnTheWay
  <1>5. Reached
    <2>1. DOMAIN line.ops = 1..Len(line.ops)
      BY <1>2
    <2>2. \A i \in 1..Len(line.ops) : hist.acted[i] = 0
      BY <1>1, <2>1
    <2> QED
      BY <2>2 DEF Reached
  <1> DEFINE me == Process
             none == Nobody
  <1>6. me.pc = "main" /\ me.state = "INITIAL" /\ me.cwd = Home /\ ~me.want /\ none.pc = "none"
    BY DEF Process, Nobody
  <1>7. ps["parent"] = me /\ ps["child"] = none
    BY <1>1
  <1> HIDE DEF me, none
  <1>8. Sits(me, tree)
    BY <1>6 DEF Sits, HasHome, Setting, Busy
  <1> QED
    BY <1>4, <1>5, <1>6, <1>7, <1>8 DEF PlaceOK, Both, Gone

\* Every step of the four programs.
LEMMA PlaceNext ==
  ASSUME MkOK, MoreOK, PlaceOK, MkNext
  PROVE  PlaceOK'
  <1>1. ASSUME NEW p \in Both, MkdirStep(p)
        PROVE  PlaceOK'
    BY <1>1, ActingPlace, RestorePlace, ChdirOpenPlace, SavePlace, ChdirPlace, AncestorPlace, MakeDirPlace, ExistingPlace, DirchownmodPlace
       DEF MkdirStep
  <1> QED
    BY <1>1, OtherPlace, KillPlace, MainPlace, LoopPlace DEF MkNext, Both

\* A program that has not got its mode is in main(), or has failed there.
StartOK == Started \/ ps.parent.pc = "main" \/ (ps.parent.pc = "exit" /\ ps.parent.status = 1)

\* It stays so: whoever goes on has got its mode.
LEMMA StartNext ==
  ASSUME MkOK, MkOK', StartOK, MkNext
  PROVE  StartOK'
  <1>1. (SetOK => Started) /\ (SetOK' => Started')
    <2>1. "unset" \notin S_IRWXUGO
      BY DEF S_IRWXUGO, S_IRUGO, S_IWUGO, S_IXUGO
    <2>2. Unset.umask = {"unset"}
      BY DEF Unset
    <2>3. ~(Unset.umask \subseteq S_IRWXUGO)
      BY <2>1, <2>2
    <2> QED
      BY <2>3 DEF SetOK, Started
  <1>2. ASSUME Started, line' = line
        PROVE  StartOK'
    BY <1>2 DEF StartOK, Started
  <1>3. CASE MainFails \/ mkdir_main \/ rmdir_main \/ nod_main
    <2> DEFINE me == ps.parent
    <2>1. me.pc = "main"
      BY <1>3 DEF MainFails, mkdir_main, rmdir_main, nod_main
    <2>2. DOMAIN me = ProcessFields /\ DOMAIN ps = Both
      BY <2>1, AloneFacts DEF Good
    <2>3. Exits(1) \/ Goes("parent", [me EXCEPT !.pc = "next"])
      BY <1>3 DEF MainFails, mkdir_main, rmdir_main, nod_main, Starts
    <2>4. CASE Exits(1)
      <3> DEFINE n == [me EXCEPT !.pc = "exit", !.status = 1]
      <3>1. n.pc = "exit" /\ n.status = 1
        BY <2>2 DEF ProcessFields
      <3>2. ps' = [ps EXCEPT !["parent"] = n]
        BY <2>4 DEF Exits, Goes
      <3> HIDE DEF n
      <3>3. ps'.parent = n
        BY <2>2, <3>2 DEF Both
      <3> QED
        BY <3>1, <3>3 DEF StartOK
    <2>5. CASE Goes("parent", [me EXCEPT !.pc = "next"])
      <3> DEFINE n == [me EXCEPT !.pc = "next"]
      <3>1. n.pc = "next"
        BY <2>2 DEF ProcessFields
      <3>2. ps' = [ps EXCEPT !["parent"] = n]
        BY <2>5 DEF Goes
      <3> HIDE DEF n
      <3>3. ps'["parent"].pc \in Active
        BY <2>2, <3>1, <3>2 DEF Both, Active
      <3> QED
        BY <1>1, <3>3 DEF StartOK, MkOK, ProcsOK, Both
    <2> QED
      BY <2>3, <2>4, <2>5
  <1>4. CASE Other
    BY <1>4 DEF Other, StartOK, Started
  <1>5. CASE make_nods \/ Removal \/ Judge \/ LoopEnds
    <2>1. line' = line /\ ps["parent"].pc \in Active
      BY <1>5 DEF make_nods, Removal, Judge, LoopEnds, Parent, Active
    <2> QED
      BY <1>1, <1>2, <2>1 DEF MkOK, ProcsOK, Both
  <1>6. ASSUME NEW p \in Both, Running(p), line' = line
        PROVE  StartOK'
    BY <1>1, <1>2, <1>6, RunningFacts
  <1>7. CASE KillChild
    BY <1>6, <1>7 DEF KillChild, Both
  <1>8. ASSUME NEW p \in Both, MkdirStep(p)
        PROVE  StartOK'
    <2>1. CASE savewd_finish(p) \/ ActOn(p) \/ Leaves(p) \/ savewd_restore(p)
      BY <1>6, <2>1 DEF savewd_finish, ActOn, Leaves, savewd_restore
    <2>2. CASE ChdirOpen(p) \/ savewd_save(p) \/ Chdir(p)
      BY <1>6, <2>2 DEF ChdirOpen, savewd_save, Chdir
    <2>3. CASE mkancesdirs(p) \/ MakeDir(p) \/ Existing(p) \/ dirchownmod(p)
      BY <1>6, <2>3 DEF mkancesdirs, MakeDir, Existing, dirchownmod
    <2> QED
      BY <1>8, <2>1, <2>2, <2>3 DEF MkdirStep
  <1> QED
    BY <1>3, <1>4, <1>5, <1>7, <1>8 DEF MkNext, Both

\* Either one of the four programs runs, and makes what it makes where it was
\* told to, or none does.
PlaceInv == MkIdle \/ (MkOK /\ MoreOK /\ PlaceOK /\ StartOK)

\* It holds at first, whichever program is run.
LEMMA PlaceInvInit ==
  ASSUME CoreInit
  PROVE  PlaceInv
  <1>1. ASSUME MkInit
        PROVE  StartOK
    <2>1. ps.parent = Process
      BY <1>1 DEF MkInit
    <2>2. Process.pc = "main"
      BY DEF Process
    <2> QED
      BY <2>1, <2>2 DEF StartOK
  <1> QED
    BY <1>1, MkInitOK, MoreInit, PlaceInit DEF CoreInit, PlaceInv

\* Every step keeps it.
LEMMA PlaceInvNext ==
  ASSUME PlaceInv, [CoreNext]_<<vars, mkvars>>
  PROVE  PlaceInv'
  <1>1. CASE UNCHANGED mkvars
    <2>1. MkIdle => MkIdle'
      BY <1>1 DEF MkIdle, mkvars
    <2>2. Expands /\ UNCHANGED <<ps, line, hist>>
      BY <1>1 DEF Expands, mkvars
    <2>3. StartOK => StartOK'
      BY <2>2 DEF StartOK, Started
    <2>4. PlaceOK => PlaceOK'
      BY <2>2, PlacesStay
    <2> QED
      BY <1>1, <2>1, <2>3, <2>4, MkStaysOK, MoreStays DEF PlaceInv
  <1>2. CASE MkNext
    <2>1. MkOK /\ MoreOK /\ PlaceOK /\ StartOK
      BY <1>2, MkIdleStays DEF PlaceInv
    <2>2. MkOK' /\ MoreOK' /\ PlaceOK'
      BY <1>2, <2>1, MkNextOK, MoreNext, PlaceNext
    <2> QED
      BY <1>2, <2>1, <2>2, StartNext DEF PlaceInv
  <1> QED
    BY <1>1, <1>2 DEF CoreNext

\* What mkdir makes is on the way to an operand.
LEMMA PlaceTells ==
  ASSUME PlaceInv
  PROVE  NothingElsewhere
  <1>1. ASSUME MkIdle
        PROVE  NothingElsewhere
    <2>1. DOMAIN tree = {}
      BY <1>1, MkIdleFacts
    <2> QED
      BY <2>1 DEF NothingElsewhere
  <1>2. ASSUME MkOK, PlaceOK
        PROVE  NothingElsewhere
    <2>1. DOMAIN line.ops = 1..Len(line.ops)
      BY <1>2 DEF MkOK, LineOK
    <2> QED
      BY <1>2, <2>1 DEF NothingElsewhere, PlaceOK, AllOnTheWay, OnTheWay
  <1> QED
    BY <1>1, <1>2 DEF PlaceInv

\* When mkdir has succeeded it has dealt with every operand, and each that has
\* been dealt with is a directory.
LEMMA PlaceStatus ==
  ASSUME PlaceInv
  PROVE  MkdirStatusTells
  <1>1. ASSUME MkIdle
        PROVE  MkdirStatusTells
    <2>1. line.prog = "other"
      BY <1>1, MkIdleFacts
    <2> QED
      BY <2>1 DEF MkdirStatusTells
  <1>2. ASSUME MkOK, MoreOK, PlaceOK, StartOK
        PROVE  MkdirStatusTells
    <2> SUFFICES ASSUME line.prog = "mkdir", Succeeds, ~hist.lost, NEW i \in DOMAIN line.ops
                 PROVE  Stands(tree, Target(line.ops[i]))
      BY DEF MkdirStatusTells, Stands
    <2>1. DOMAIN line.ops = 1..Len(line.ops) /\ DOMAIN hist.acted = DOMAIN line.ops
      BY <1>2 DEF MkOK, LineOK, HistOK
    <2>2. ps.parent.pc = "exit" /\ ps.parent.status = 0
      BY DEF Succeeds, Parent
    <2>3. Started
      BY <1>2, <2>2 DEF StartOK
    <2>4. OperandOnce
      BY <1>2, MkdirOperands DEF ModesInv
    <2>5. hist.acted[i] = 1
      BY <2>1, <2>2, <2>3, <2>4 DEF OperandOnce, Parent
    <2>6. Reached /\ ~Failed
      BY <1>2, SucceedsFacts DEF PlaceOK
    <2> HIDE DEF Failed, Succeeds
    <2> QED
      BY <2>1, <2>5, <2>6 DEF Reached
  <1> QED
    BY <1>1, <1>2 DEF PlaceInv

\* Without -R chown and chgrp do not enter a directory; and what mkdir makes, also
\* what a child makes in place of a parent that could not come back to its
\* working directory, is on the way from the directory it was started in to an
\* operand.
THEOREM PlacesCorrect == CoreSpec => []InPlace
  <1>1. CoreInit => FlatInv /\ PlaceInv
    BY FlatInvInit, PlaceInvInit
  <1>2. FlatInv /\ PlaceInv /\ [CoreNext]_<<vars, mkvars>> => (FlatInv /\ PlaceInv)'
    BY FlatInvNext, PlaceInvNext
  <1>3. FlatInv /\ PlaceInv => InPlace
    <2>1. FtsIdle => NonRecursiveStays
      BY DEF FtsIdle, NonRecursiveStays, IsChown
    <2>2. FlatInv => NonRecursiveStays
      BY <2>1 DEF FlatInv, FlatOK
    <2> QED
      BY <2>2, PlaceTells DEF InPlace
  <1> QED
    BY <1>1, <1>2, <1>3, PTL DEF CoreSpec

\* When mkdir exits with 0 each of its operands is a directory, whichever process
\* made it and whatever other processes made meanwhile, unless savewd.c has lost
\* the working directory.
THEOREM MkdirStatusCorrect == CoreSpec => []MkdirStatusTells
  <1>1. CoreInit => PlaceInv
    BY PlaceInvInit
  <1>2. PlaceInv /\ [CoreNext]_<<vars, mkvars>> => PlaceInv'
    BY PlaceInvNext
  <1>3. PlaceInv => MkdirStatusTells
    BY PlaceStatus
  <1> QED
    BY <1>1, <1>2, <1>3, PTL DEF CoreSpec
-----------------------------------------------------------------------------
(* Why mkdir -p succeeds.                                                   *)

\* What is looked up next, from where the process is.
Beyond(me) == Entry(From(me), Head(me.names))

\* With -p the directory itself is looked up from its parent, and the one whose
\* mode is set is one that mkdir has made.
AtLast(me) == me.pc \in {"mkdir", "stat"} \/ (Setting(me) /\ ~me.inside)
Aims(me, t) ==
  /\ AtLast(me) => Len(me.names) = 1
  /\ Setting(me) /\ ~me.inside => Beyond(me) \in DOMAIN t /\ t[Beyond(me)].by = "mkdir"
  /\ Setting(me) /\ me.inside => me.cwd \in DOMAIN t /\ t[me.cwd].by = "mkdir"

\* A process has not failed, and what it is to enter is there.
Easy(me, t) ==
  /\ me.status = 0 /\ me.state # "ERROR" /\ me.pc # "killed"
  /\ me.pc \in {"open", "save", "chdir", "stat"} => Beyond(me) \in DOMAIN t
  /\ me.pc = "open" /\ me.readable => "ur" \in t[Beyond(me)].mode
  /\ me.pc = "stat" => me.err = "EEXIST"

\* What others and mkancesdirs() make is open to the user; so is what mkdir makes
\* itself if it is to be, and then nothing fails.
Smooth ==
  /\ line.prog = "mkdir" /\ line.parents /\ Started /\ Accessible(line.set.mode)
  /\ "ur" \notin line.umask /\ NothingInTheWay /\ budget.fails = MaxFails
Others(t) ==
  \A x \in DOMAIN t :
    /\ t[x].by = "other" => t[x].kind = "dir" /\ t[x].mode = S_IRWXUGO
    /\ t[x].by = "ancestor" => t[x].kind = "dir" /\ t[x].mode = ancestor_mode
Own(t) == \A x \in DOMAIN t : t[x].by = "mkdir" => t[x].kind = "dir" /\ Accessible(t[x].mode)
EaseOK ==
  line.prog = "mkdir" /\ line.parents =>
    /\ Others(tree)
    /\ ps.parent.pc = "main" => ps.parent.status = 0 /\ ps.parent.state = "INITIAL"
    /\ Started => line.set.umask = {}
    /\ \A p \in Both : ps[p].pc # "none" => Aims(ps[p], tree)
    /\ Smooth => Own(tree) /\ \A p \in Both : ps[p].pc # "none" => Easy(ps[p], tree)

\* What is looked up in a directory that can be searched.
LEMMA LookHere ==
  ASSUME NEW t, NEW dir \in Paths, Search(t, dir) = "ok", NEW name \in STRING, NEW names, names = <<name>>
  PROVE  /\ Lookup(t, dir, names).err = IF Entry(dir, name) \in DOMAIN t THEN "ok" ELSE "ENOENT"
         /\ Lookup(t, dir, names).dir = Entry(dir, name)
         /\ MakeError(t, dir, names) = IF Entry(dir, name) \in DOMAIN t THEN "EEXIST" ELSE IF "uw" \in t[dir].mode THEN "ok" ELSE "EACCES"
         /\ NewName(t, dir, names) = Append(dir, name)
  <1> DEFINE up == Lookup(t, dir, Front(names))
             none == <<>>
             next == Entry(dir, name)
  <1>1. names \in Paths /\ none \in Paths /\ names # none
    BY DEF Paths
  <1>2. Front(names) = none /\ Last(names) = name
    <2>1. none \in Seq(STRING) /\ Append(none, name) = names
      OBVIOUS
    <2> HIDE DEF none
    <2> QED
      BY <2>1, AppendFront
  <1>3. Lookup(t, dir, none).err = "ok" /\ Lookup(t, dir, none).dir = dir
    BY <1>1, LookupFacts
  <1> HIDE DEF none
  <1>4. Lookup(t, dir, names) = Resolve(t, up, name)
    <2>1. names # <<>>
      BY <1>1 DEF none
    <2> QED
      BY <1>1, <1>2, <2>1, LookupFacts
  <1>5. up.err = "ok" /\ up.dir = dir
    BY <1>2, <1>3
  <1>6. MakeError(t, dir, names) = CASE up.err # "ok" -> up.err
        [] up.err = "ok" /\ Search(t, up.dir) # "ok" -> Search(t, up.dir)
        [] up.err = "ok" /\ Search(t, up.dir) = "ok" /\ Entry(up.dir, name) \in DOMAIN t -> "EEXIST"
        [] OTHER -> IF "uw" \in t[up.dir].mode THEN "ok" ELSE "EACCES"
    BY <1>2 DEF MakeError
  <1>7. NewName(t, dir, names) = Append(up.dir, name)
    BY <1>2 DEF NewName
  <1> HIDE DEF up
  <1>8. Resolve(t, up, name) = IF next \in DOMAIN t THEN [err |-> "ok", dir |-> next] ELSE [err |-> "ENOENT", dir |-> next]
    <2>1. Resolve(t, up, name) = CASE Search(t, dir) # "ok" -> [up EXCEPT !.err = Search(t, dir)]
        [] Search(t, dir) = "ok" /\ next \notin DOMAIN t -> [err |-> "ENOENT", dir |-> next]
        [] OTHER -> [err |-> "ok", dir |-> next]
      BY <1>5 DEF Resolve
    <2> HIDE DEF next
    <2> QED
      BY <2>1
  <1>9. Lookup(t, dir, names).err = (IF next \in DOMAIN t THEN "ok" ELSE "ENOENT") /\ Lookup(t, dir, names).dir = next
    <2> HIDE DEF next
    <2> QED
      BY <1>4, <1>8
  <1>10. MakeError(t, dir, names) = IF next \in DOMAIN t THEN "EEXIST" ELSE IF "uw" \in t[dir].mode THEN "ok" ELSE "EACCES"
    BY <1>5, <1>6
  <1> QED
    BY <1>5, <1>7, <1>9, <1>10

\* A name of one component.
LEMMA OneName ==
  ASSUME NEW names \in Paths, Len(names) = 1
  PROVE  names = <<Head(names)>> /\ Head(names) \in STRING
  <1>1. names \in Seq(STRING) /\ names # <<>>
    BY DEF Paths
  <1>2. Head(names) = names[1] /\ names[1] \in STRING
    BY <1>1
  <1>3. \A k \in 1..1 : names[k] = <<names[1]>>[k]
    OBVIOUS
  <1> QED
    BY <1>1, <1>2, SeqEqual

\* Then every file is a directory that the user can search and write to.
LEMMA AllOpen ==
  ASSUME MkOK, EaseOK, Smooth
  PROVE  \A x \in DOMAIN tree : tree[x].kind = "dir" /\ {"uw", "ux"} \subseteq tree[x].mode /\ Search(tree, x) = "ok"
  <1> SUFFICES ASSUME NEW x \in DOMAIN tree
               PROVE  tree[x].kind = "dir" /\ {"uw", "ux"} \subseteq tree[x].mode
    BY DEF Search
  <1>1. tree[x].by \in {"before", "other", "ancestor", "mkdir"}
    BY DEF MkOK, TreeOK, FileTypes
  <1>2. {"uw", "ux"} \subseteq S_IRWXUGO /\ {"uw", "ux"} \subseteq ancestor_mode
    BY DEF S_IRWXUGO, S_IWUGO, S_IXUGO, ancestor_mode
  <1> HIDE DEF S_IRWXUGO, ancestor_mode
  <1>3. CASE tree[x].by = "before"
    BY <1>3 DEF Smooth, NothingInTheWay
  <1>4. CASE tree[x].by \in {"other", "ancestor"}
    BY <1>2, <1>4 DEF EaseOK, Others, Smooth
  <1>5. CASE tree[x].by = "mkdir"
    BY <1>5 DEF EaseOK, Smooth, Own, Accessible
  <1> QED
    BY <1>1, <1>3, <1>4, <1>5

\* Files stay, those that were there before as they were, and what the user can
\* read he can read.
Keeps(t, u) ==
  \A x \in DOMAIN t : /\ x \in DOMAIN u /\ u[x].by = t[x].by /\ (t[x].by = "before" => u[x] = t[x])
                      /\ Smooth /\ "ur" \in t[x].mode => "ur" \in u[x].mode

\* If nothing is in the way, nothing was before.
LEMMA SmoothBefore ==
  ASSUME MkOK, line' = line, BudgetOK(budget'), budget'.fails <= budget.fails, Keeps(tree, tree'), Smooth'
  PROVE  Smooth
  <1>1. budget.fails \in 0..MaxFails /\ budget'.fails = MaxFails /\ MaxFails \in Nat
    BY MakeDirsAssumption DEF MkOK, BudgetOK, Smooth
  <1>2. budget.fails = MaxFails
    <2>1. budget'.fails <= budget.fails
      OBVIOUS
    <2>2. PICK b : b = budget.fails
      OBVIOUS
    <2> QED
      BY <1>1, <2>1, <2>2
  <1>3. NothingInTheWay
    BY DEF Smooth, NothingInTheWay, Keeps
  <1> QED
    BY <1>2, <1>3 DEF Smooth, Started, Accessible

\* A process is not disturbed by what the other does.
LEMMA EaseStays ==
  ASSUME NEW me, NEW t, NEW u, Keeps(t, u)
  PROVE  (Aims(me, t) => Aims(me, u)) /\ (Smooth /\ Easy(me, t) => Easy(me, u))
  <1>1. Aims(me, t) => Aims(me, u)
    BY DEF Aims, Keeps
  <1>2. Smooth /\ Easy(me, t) => Easy(me, u)
    BY DEF Easy, Keeps
  <1> QED
    BY <1>1, <1>2

\* A step of one process of mkdir.
LEMMA EaseStep ==
  ASSUME MkOK, EaseOK, line.parents, NEW p \in Both, Running(p), line' = line, NEW n, Goes(p, n), n.pc \notin {"none", "main"},
         BudgetOK(budget'), budget'.fails <= budget.fails, Keeps(tree, tree'), Others(tree'), Aims(n, tree'),
         Smooth /\ Smooth' => Own(tree') /\ Easy(n, tree')
  PROVE  EaseOK'
  <1>1. DOMAIN ps = Both /\ DOMAIN ps' = Both /\ ps'[p] = n /\ (\A q \in Both : q # p => ps'[q] = ps[q]) /\ line.prog = "mkdir"
    BY GoesFacts, RunningFacts DEF MkOK, ProcsOK
  <1>2. Smooth' => Smooth
    BY SmoothBefore
  <1>3. Others(tree)'
    BY DEF Others, ancestor_mode
  <1>4. ps'.parent.pc # "main"
    <2>1. ps["parent"].pc # "main" \/ p = "parent"
      <3>1. ps.parent.pc = "main" => ps.child.pc = "none"
        BY DEF MkOK, ProcsOK
      <3> QED
        BY <3>1 DEF Running, Both
    <2> QED
      BY <1>1, <2>1 DEF Both, Running
  <1>5. (Started => line.set.umask = {})'
    BY <1>1 DEF EaseOK, Started
  <1>6. ASSUME NEW q \in Both, ps'[q].pc # "none"
        PROVE  Aims(ps[q], tree)' /\ (Smooth' => Easy(ps[q], tree)')
    <2>1. PICK you : you = ps'[q]
      OBVIOUS
    <2>2. Aims(you, tree') /\ (Smooth' => Easy(you, tree'))
      <3>1. CASE q = p
        BY <1>1, <1>2, <2>1, <3>1
      <3>2. CASE q # p
        <4>1. ps[q] = you /\ you.pc # "none"
          BY <1>1, <1>6, <2>1, <3>2
        <4> QED
          BY <1>1, <1>2, <4>1, EaseStays DEF EaseOK
      <3> QED
        BY <3>1, <3>2
    <2> QED
      BY <2>1, <2>2 DEF Aims, AtLast, Setting, Beyond, From, Easy
  <1>7. Smooth' => Own(tree)'
    BY <1>2 DEF Own, Accessible
  <1>8. \A q \in Both : (ps[q].pc # "none")' <=> ps'[q].pc # "none"
    OBVIOUS
  <1> QED
    BY <1>3, <1>4, <1>5, <1>6, <1>7, <1>8 DEF EaseOK

\* While the files stay the same nothing else matters.
LEMMA SameTreeKeeps ==
  ASSUME EaseOK, tree' = tree, line.prog = "mkdir", line.parents
  PROVE  Keeps(tree, tree') /\ Others(tree') /\ (Smooth => Own(tree'))
  BY DEF Keeps, EaseOK

\* The operands are looked at one after the other.
LEMMA ActingEase ==
  ASSUME MkOK, MoreOK, EaseOK, line.parents, NEW p \in Both, savewd_finish(p) \/ ActOn(p) \/ Leaves(p)
  PROVE  EaseOK'
  <1>0. PICK me : me = ps[p]
    OBVIOUS
  <1> DEFINE op == line.ops[me.i]
  <1>1. Running(p) /\ me.pc = "next" /\ UNCHANGED <<tree, line, budget>>
    BY <1>0 DEF savewd_finish, ActOn, Leaves
  <1>2. Good(me, tree) /\ BudgetOK(budget) /\ HistOK(hist) /\ LineOK /\ line.prog = "mkdir" /\ budget.fails \in Nat /\ Ready(me)
    BY <1>0, <1>1, RunningFacts DEF BudgetOK, MoreOK, ModesOK, Running
  <1>3. Aims(me, tree) /\ (Smooth => Easy(me, tree))
    BY <1>0, <1>1, <1>2 DEF EaseOK, Running
  <1>4. ASSUME NEW n, Goes(p, n), n.pc \in {"next", "exit", "restore", "ancestor", "mkdir"}, n.pc = "mkdir" => ~line.parents,
               n.status = me.status \/ me.state = "ERROR", n.state \in {me.state, "FINAL"}
        PROVE  EaseOK'
    <2>1. Aims(n, tree')
      BY <1>4 DEF Aims, AtLast, Setting
    <2>2. Smooth => Easy(n, tree')
      BY <1>3, <1>4 DEF Easy
    <2>3. budget'.fails <= budget.fails /\ BudgetOK(budget')
      BY <1>1, <1>2
    <2> QED
      BY <1>1, <1>2, <1>4, <2>1, <2>2, <2>3, SameTreeKeeps, EaseStep
  <1>5. CASE savewd_finish(p)
    <2> DEFINE n == [me EXCEPT !.state = "FINAL", !.saved = FALSE]
    <2>1. Goes(p, n)
      BY <1>0, <1>5 DEF savewd_finish
    <2>2. n.pc = "next" /\ n.status = me.status /\ n.state = "FINAL"
      BY <1>1, <1>2 DEF Good, ProcessFields
    <2> HIDE DEF n
    <2> QED
      BY <1>4, <2>1, <2>2
  <1>6. CASE Leaves(p)
    <2> DEFINE n == [me EXCEPT !.pc = "exit"]
    <2>1. Goes(p, n)
      BY <1>0, <1>6 DEF Leaves
    <2>2. n.pc = "exit" /\ n.status = me.status /\ n.state = me.state
      BY <1>1, <1>2 DEF Good, ProcessFields
    <2> HIDE DEF n
    <2> QED
      BY <1>4, <2>1, <2>2
  <1>7. CASE ActOn(p)
    <2> DEFINE new == [me EXCEPT !.pc = IF line.parents THEN "ancestor" ELSE "mkdir", !.names = op.names, !.root = op.abs,
                        !.made = FALSE, !.want = FALSE, !.inside = FALSE]
               d == [me EXCEPT !.pc = "restore"]
    <2>1. \/ Goes(p, d)
          \/ me.state = "ERROR" /\ Acted(p, me, FALSE)
          \/ Goes(p, new)
      BY <1>0, <1>7 DEF ActOn
    <2>2. CASE Goes(p, d)
      <3>1. d.pc = "restore" /\ d.status = me.status /\ d.state = me.state
        BY <1>1, <1>2 DEF Good, ProcessFields
      <3> HIDE DEF d
      <3> QED
        BY <1>4, <2>2, <3>1
    <2>3. CASE Goes(p, new)
      <3>1. new.pc = (IF line.parents THEN "ancestor" ELSE "mkdir") /\ new.status = me.status /\ new.state = me.state
        BY <1>2 DEF Good, ProcessFields
      <3> HIDE DEF new
      <3> QED
        BY <1>4, <2>3, <3>1
    <2>4. CASE me.state = "ERROR" /\ Acted(p, me, FALSE)
      <3> DEFINE n == [me EXCEPT !.pc = "restore", !.status = 1]
      <3>1. Goes(p, n)
        BY <1>2, <2>4 DEF Acted, Good, ProcessFields
      <3>2. n.pc = "restore" /\ n.state = me.state
        BY <1>2 DEF Good, ProcessFields
      <3> HIDE DEF n
      <3> QED
        BY <1>4, <2>4, <3>1, <3>2
    <2> QED
      BY <2>1, <2>2, <2>3, <2>4
  <1> QED
    BY <1>5, <1>6, <1>7

\* A failure is in the way.
LEMMA FailureEnds ==
  ASSUME BudgetOK(budget), NEW failed \in BOOLEAN, Trouble(failed), Spend(failed)
  PROVE  BudgetOK(budget') /\ budget'.fails <= budget.fails /\ (failed => ~Smooth')
  <1>1. /\ BudgetOK(budget') /\ budget'.fails <= budget.fails /\ budget.fails \in 0..MaxFails /\ budget'.fails \in 0..MaxFails
        /\ (failed => budget'.fails < budget.fails) /\ MaxFails \in Nat
    BY SpendOK, MakeDirsAssumption DEF BudgetOK
  <1>2. failed => budget'.fails # MaxFails
    <2>1. PICK a : a = budget.fails
      OBVIOUS
    <2>2. PICK b : b = budget'.fails
      OBVIOUS
    <2>3. failed => b # MaxFails
      BY <1>1, <2>1, <2>2
    <2> QED
      BY <2>2, <2>3
  <1> QED
    BY <1>1, <1>2 DEF Smooth

\* Nothing fails.
LEMMA NoFailure ==
  ASSUME MkOK, budget' = budget
  PROVE  BudgetOK(budget') /\ budget'.fails <= budget.fails
  <1>1. BudgetOK(budget) /\ budget.fails \in Nat
    BY MakeDirsAssumption DEF MkOK, BudgetOK
  <1> QED
    BY <1>1

\* A step of both processes of mkdir.
LEMMA EasePair ==
  ASSUME MkOK, EaseOK, line.prog = "mkdir", line.parents, NEW a, NEW b, ps' = [parent |-> a, child |-> b], UNCHANGED <<tree, line>>, a.pc # "main",
         BudgetOK(budget'), budget'.fails <= budget.fails, Aims(a, tree), b.pc # "none" => Aims(b, tree),
         Smooth => Easy(a, tree) /\ (b.pc # "none" => Easy(b, tree))
  PROVE  EaseOK'
  <1>1. DOMAIN ps' = Both /\ ps'["parent"] = a /\ ps'["child"] = b /\ tree' = tree
    BY DEF Both
  <1>2. Keeps(tree, tree') /\ Others(tree') /\ (Smooth => Own(tree'))
    BY <1>1, SameTreeKeeps
  <1>3. Smooth' => Smooth
    BY <1>2, SmoothBefore
  <1>4. Others(tree)'
    BY <1>2 DEF Others, ancestor_mode
  <1>5. ps'.parent.pc # "main"
    BY <1>1
  <1>6. (Started => line.set.umask = {})'
    BY DEF EaseOK, Started
  <1>7. ASSUME NEW q \in Both, ps'[q].pc # "none"
        PROVE  Aims(ps[q], tree)' /\ (Smooth' => Easy(ps[q], tree)')
    <2>1. PICK you : you = ps'[q]
      OBVIOUS
    <2>2. Aims(you, tree') /\ (Smooth' => Easy(you, tree'))
      <3>1. you = a \/ (you = b /\ b.pc # "none")
        BY <1>1, <1>7, <2>1 DEF Both
      <3> QED
        BY <1>1, <1>3, <3>1
    <2> QED
      BY <2>1, <2>2 DEF Aims, AtLast, Setting, Beyond, From, Easy
  <1>8. Smooth' => Own(tree)'
    BY <1>2, <1>3 DEF Own, Accessible
  <1>9. \A q \in Both : (ps[q].pc # "none")' <=> ps'[q].pc # "none"
    OBVIOUS
  <1> QED
    BY <1>4, <1>5, <1>6, <1>7, <1>8, <1>9 DEF EaseOK

\* An operand has been dealt with.
LEMMA ActedEase ==
  ASSUME MkOK, MoreOK, EaseOK, line.parents, NEW p \in Both, Running(p), ps[p].pc \in Busy, NEW e, DOMAIN e = ProcessFields,
         e.state = ps[p].state, e.status = ps[p].status, NEW ok \in BOOLEAN, Acted(p, e, ok), line' = line,
         BudgetOK(budget'), budget'.fails <= budget.fails, Keeps(tree, tree'), Others(tree'), Smooth /\ Smooth' => Own(tree') /\ ok
  PROVE  EaseOK'
  <1>1. Smooth => ps[p].status = 0 /\ ps[p].state # "ERROR" /\ line.prog = "mkdir"
    BY RunningFacts DEF EaseOK, Easy, Running
  <1> DEFINE n == [e EXCEPT !.pc = "restore", !.status = IF ok THEN @ ELSE 1]
  <1>2. Goes(p, n)
    BY DEF Acted
  <1>3. n.pc = "restore" /\ n.state = e.state /\ (ok => n.status = e.status)
    BY DEF ProcessFields
  <1> HIDE DEF n
  <1>4. Aims(n, tree')
    BY <1>3 DEF Aims, AtLast, Setting
  <1>5. Smooth /\ Smooth' => Own(tree') /\ Easy(n, tree')
    BY <1>1, <1>3 DEF Easy
  <1> QED
    BY <1>2, <1>3, <1>4, <1>5, EaseStep

\* The process comes back, waits for its child, or exits.
LEMMA RestoreEase ==
  ASSUME MkOK, MoreOK, EaseOK, line.parents, NEW p \in Both, savewd_restore(p)
  PROVE  EaseOK'
  <1>0. PICK me : me = ps[p]
    OBVIOUS
  <1>1. Running(p) /\ me.pc = "restore" /\ UNCHANGED <<tree, line>>
    BY <1>0 DEF savewd_restore
  <1>2. Good(me, tree) /\ BudgetOK(budget) /\ ProcsOK /\ line.prog = "mkdir" /\ FamilyOK
    BY <1>0, <1>1, RunningFacts DEF MkOK, MoreOK
  <1>3. Smooth => Easy(me, tree)
    BY <1>0, <1>1, <1>2 DEF EaseOK, Running
  <1>4. PICK on : on = Onward(me)
    OBVIOUS
  <1>5. DOMAIN on = ProcessFields /\ on.pc = "next" /\ on.state = me.state /\ on.status = me.status
    BY <1>2, <1>4 DEF Good, ProcessFields, Onward
  <1>6. \/ Goes(p, on) /\ UNCHANGED budget
        \/ \E failed \in BOOLEAN :
             /\ Trouble(failed) /\ Spend(failed) /\ me.state = "FDPOST"
             /\ Goes(p, IF failed THEN [on EXCEPT !.state = "ERROR", !.saved = FALSE] ELSE [on EXCEPT !.state = "FD", !.cwd = Home])
        \/ Goes(p, [me EXCEPT !.pc = "exit"]) /\ UNCHANGED budget
        \/ /\ ps' = [parent |-> [on EXCEPT !.child = "none", !.status = MaxOf({on.status, ps.child.status})], child |-> Nobody]
           /\ me.child = "child" /\ ps.child.pc = "exit" /\ UNCHANGED budget
        \/ /\ ps' = [parent |-> [me EXCEPT !.pc = "killed"], child |-> Nobody]
           /\ me.child = "child" /\ ps.child.pc = "killed" /\ UNCHANGED budget
    BY <1>0, <1>4, <1>5 DEF savewd_restore, ChildStatus, ProcessFields
  <1>7. ASSUME NEW n, Goes(p, n), n.pc \in {"next", "exit"}, BudgetOK(budget'), budget'.fails <= budget.fails,
               Smooth' => n.status = me.status /\ (n.state = me.state \/ n.state = "FD")
        PROVE  EaseOK'
    <2>1. Aims(n, tree')
      BY <1>7 DEF Aims, AtLast, Setting
    <2>2. Smooth /\ Smooth' => Easy(n, tree')
      BY <1>3, <1>7 DEF Easy
    <2> QED
      BY <1>1, <1>2, <1>7, <2>1, <2>2, SameTreeKeeps, EaseStep
  <1>8. CASE Goes(p, on) /\ UNCHANGED budget
    BY <1>5, <1>7, <1>8, NoFailure
  <1>9. ASSUME NEW failed \in BOOLEAN, Trouble(failed), Spend(failed),
               Goes(p, IF failed THEN [on EXCEPT !.state = "ERROR", !.saved = FALSE] ELSE [on EXCEPT !.state = "FD", !.cwd = Home])
        PROVE  EaseOK'
    <2> DEFINE n == IF failed THEN [on EXCEPT !.state = "ERROR", !.saved = FALSE] ELSE [on EXCEPT !.state = "FD", !.cwd = Home]
    <2>1. Goes(p, n) /\ n.pc = "next" /\ (~failed => n.status = me.status /\ n.state = "FD")
      BY <1>5, <1>9 DEF ProcessFields
    <2> HIDE DEF n
    <2> QED
      BY <1>2, <1>7, <1>9, <2>1, FailureEnds
  <1>10. CASE Goes(p, [me EXCEPT !.pc = "exit"]) /\ UNCHANGED budget
    <2> DEFINE n == [me EXCEPT !.pc = "exit"]
    <2>1. Goes(p, n) /\ n.pc = "exit" /\ n.status = me.status /\ n.state = me.state
      BY <1>2, <1>10 DEF Good, ProcessFields
    <2> HIDE DEF n
    <2> QED
      BY <1>7, <1>10, <2>1, NoFailure
  <1>11. ASSUME ps.child.pc # "none", Smooth
         PROVE  Easy(ps["child"], tree)
    BY <1>2, <1>11 DEF EaseOK, Both
  <1>12. CASE /\ ps' = [parent |-> [on EXCEPT !.child = "none", !.status = MaxOf({on.status, ps.child.status})], child |-> Nobody]
              /\ ps.child.pc = "exit" /\ UNCHANGED budget
    <2>1. PICK s : s = MaxOf({on.status, ps.child.status})
      OBVIOUS
    <2> DEFINE n == [on EXCEPT !.child = "none", !.status = s]
               none == Nobody
    <2>2. ps' = [parent |-> n, child |-> none]
      BY <1>12, <2>1
    <2>3. none.pc = "none"
      BY DEF Nobody
    <2>4. n.pc = "next" /\ n.state = me.state /\ n.status = s
      BY <1>5 DEF ProcessFields
    <2>5. Smooth => s = 0
      <3> DEFINE a == on.status
                 b == ps.child.status
      <3>1. Smooth => a = 0 /\ b = 0
        BY <1>3, <1>5, <1>11, <1>12 DEF Easy
      <3>2. MaxOf({0, 0}) = 0
        <4> DEFINE zero == 0
        <4>1. zero \in Int
          OBVIOUS
        <4> HIDE DEF zero
        <4>2. MaxOf({zero, zero}) \in {zero, zero}
          BY <4>1, MaxOfFacts
        <4> QED
          BY <4>2 DEF zero
      <3> QED
        BY <2>1, <3>1, <3>2
    <2> HIDE DEF n, none
    <2>6. Aims(n, tree)
      BY <2>4 DEF Aims, AtLast, Setting
    <2>7. Smooth => Easy(n, tree)
      BY <1>3, <2>4, <2>5 DEF Easy
    <2> QED
      BY <1>1, <1>2, <1>12, <2>2, <2>3, <2>4, <2>6, <2>7, NoFailure, EasePair
  <1>13. CASE /\ ps' = [parent |-> [me EXCEPT !.pc = "killed"], child |-> Nobody]
              /\ ps.child.pc = "killed" /\ UNCHANGED budget
    <2> DEFINE n == [me EXCEPT !.pc = "killed"]
               none == Nobody
    <2>1. ps' = [parent |-> n, child |-> none]
      BY <1>13
    <2>2. none.pc = "none"
      BY DEF Nobody
    <2>3. n.pc = "killed"
      BY <1>2 DEF Good, ProcessFields
    <2> HIDE DEF n, none
    <2>4. ~Smooth
      BY <1>11, <1>13 DEF Easy
    <2>5. Aims(n, tree)
      BY <2>3 DEF Aims, AtLast, Setting
    <2> QED
      BY <1>1, <1>2, <1>13, <2>1, <2>2, <2>3, <2>4, <2>5, NoFailure, EasePair
  <1> QED
    BY <1>6, <1>8, <1>9, <1>10, <1>12, <1>13

\* A signal kills the child: a failure.
LEMMA KillEase ==
  ASSUME MkOK, EaseOK, line.parents, KillChild
  PROVE  EaseOK'
  <1> DEFINE p == "child"
             failed == TRUE
  <1>1. PICK me : me = ps[p]
    OBVIOUS
  <1>2. PICK n : n = [me EXCEPT !.pc = "killed"]
    OBVIOUS
  <1>3. p \in Both /\ Running(p) /\ Goes(p, n) /\ UNCHANGED <<tree, line>> /\ failed \in BOOLEAN /\ Trouble(failed) /\ Spend(failed) /\ failed
    BY <1>1, <1>2 DEF KillChild, Both
  <1> HIDE DEF p, failed
  <1>4. Good(me, tree) /\ BudgetOK(budget) /\ line.prog = "mkdir"
    BY <1>1, <1>3, RunningFacts
  <1>5. n.pc = "killed"
    BY <1>2, <1>4 DEF Good, ProcessFields
  <1>6. BudgetOK(budget') /\ budget'.fails <= budget.fails /\ ~Smooth'
    BY <1>3, <1>4, FailureEnds
  <1>7. Aims(n, tree')
    BY <1>5 DEF Aims, AtLast, Setting
  <1> QED
    BY <1>3, <1>4, <1>5, <1>6, <1>7, SameTreeKeeps, EaseStep

\* Another process makes a directory.
LEMMA OtherEase ==
  ASSUME MkOK, EaseOK, Other
  PROVE  EaseOK'
  <1>1. PICK path \in OtherPaths :
          path \notin DOMAIN tree /\ tree' = With(tree, path, [kind |-> "dir", mode |-> S_IRWXUGO, by |-> "other"])
    BY DEF Other
  <1>2. UNCHANGED <<ps, line>> /\ budget' = [budget EXCEPT !.others = @ - 1] /\ budget.others > 0
    BY DEF Other
  <1>3. BudgetOK(budget') /\ budget'.fails <= budget.fails
    BY <1>2, MakeDirsAssumption DEF MkOK, BudgetOK
  <1>4. PICK file : file = [kind |-> "dir", mode |-> S_IRWXUGO, by |-> "other"]
    OBVIOUS
  <1>5. file.by = "other" /\ file.kind = "dir" /\ file.mode = S_IRWXUGO
    BY <1>4
  <1>6. DOMAIN tree' = DOMAIN tree \cup {path} /\ tree'[path] = file /\ \A x \in DOMAIN tree : tree'[x] = tree[x]
    BY <1>1, <1>4 DEF With
  <1>7. Keeps(tree, tree') /\ (Others(tree) => Others(tree')) /\ (Own(tree) => Own(tree'))
    BY <1>5, <1>6 DEF Keeps, Others, Own
  <1>8. Smooth' => Smooth
    BY <1>2, <1>3, <1>7, SmoothBefore
  <1> SUFFICES ASSUME line.prog = "mkdir", line.parents
               PROVE  EaseOK'
    BY <1>2 DEF EaseOK
  <1>9. Others(tree)'
    BY <1>2, <1>7 DEF EaseOK, Others, ancestor_mode
  <1>10. Smooth' => Own(tree)'
    BY <1>7, <1>8 DEF EaseOK, Own, Accessible
  <1>11. ASSUME NEW q \in Both, ps'[q].pc # "none"
         PROVE  Aims(ps[q], tree)' /\ (Smooth' => Easy(ps[q], tree)')
    <2>1. PICK you : you = ps[q]
      OBVIOUS
    <2>2. Aims(you, tree') /\ (Smooth' => Easy(you, tree'))
      BY <1>2, <1>7, <1>8, <1>11, <2>1, EaseStays DEF EaseOK
    <2> QED
      BY <1>2, <2>1, <2>2 DEF Aims, AtLast, Setting, Beyond, From, Easy
  <1>12. (Started => line.set.umask = {})' /\ (ps.parent.pc = "main" => ps.parent.status = 0 /\ ps.parent.state = "INITIAL")'
    BY <1>2 DEF EaseOK, Started
  <1>13. \A q \in Both : (ps[q].pc # "none")' <=> ps'[q].pc # "none"
    OBVIOUS
  <1> QED
    BY <1>9, <1>10, <1>11, <1>12, <1>13 DEF EaseOK

\* What a name of one component leads to.
LEMMA LooksUp ==
  ASSUME NEW t, NEW dir \in Paths, NEW name \in STRING, NEW names, names = <<name>>, Lookup(t, dir, names).err = "ok"
  PROVE  Lookup(t, dir, names).dir = Entry(dir, name)
  <1> DEFINE none == <<>>
             next == Entry(dir, name)
  <1>1. names \in Paths /\ none \in Paths /\ names # none
    BY DEF Paths
  <1>2. Front(names) = none /\ Last(names) = name
    <2>1. none \in Seq(STRING) /\ Append(none, name) = names
      OBVIOUS
    <2> HIDE DEF none
    <2> QED
      BY <2>1, AppendFront
  <1>3. Lookup(t, dir, none).err = "ok" /\ Lookup(t, dir, none).dir = dir
    BY <1>1, LookupFacts
  <1>4. PICK up : up = Lookup(t, dir, Front(names))
    OBVIOUS
  <1> HIDE DEF none
  <1>5. Lookup(t, dir, names) = Resolve(t, up, name)
    <2>1. names # <<>>
      BY <1>1 DEF none
    <2>2. Lookup(t, dir, names) = Resolve(t, Lookup(t, dir, Front(names)), Last(names))
      BY <1>1, <2>1, LookupFacts
    <2> QED
      BY <1>2, <1>4, <2>2
  <1>6. up \in Places /\ up.err = "ok" /\ up.dir = dir
    BY <1>1, <1>2, <1>3, <1>4, LookupFacts
  <1>7. PICK e : e = Search(t, dir)
    OBVIOUS
  <1>8. Resolve(t, up, name) = CASE e # "ok" -> [up EXCEPT !.err = e]
          [] e = "ok" /\ next \notin DOMAIN t -> [err |-> "ENOENT", dir |-> next]
          [] OTHER -> [err |-> "ok", dir |-> next]
    BY <1>6, <1>7 DEF Resolve
  <1> HIDE DEF next
  <1>9. e # "ok" => [up EXCEPT !.err = e].err # "ok"
    BY <1>6 DEF Places
  <1>10. Resolve(t, up, name).err = "ok" => Resolve(t, up, name).dir = next
    BY <1>8, <1>9
  <1> QED
    BY <1>5, <1>10 DEF next

\* Where a process of mkdir looks, and what for.
LEMMA LooksFrom ==
  ASSUME MkOK, EaseOK, line.parents, NEW p \in Both, Running(p), NEW me, me = ps[p], me.pc \in Busy,
         me.pc \in {"open", "save", "chdir"} \/ AtLast(me), me.inside => me.pc = "chmod" 
  PROVE  /\ From(me) \in DOMAIN tree /\ From(me) \in Paths /\ Head(me.names) \in STRING
         /\ me.pc \in {"open", "save", "chdir"} => Aim(me) = <<Head(me.names)>>
         /\ AtLast(me) => me.names = <<Head(me.names)>>
  <1>1. Good(me, tree) /\ line.prog = "mkdir" /\ TreeOK(tree)
    BY RunningFacts
  <1>2. From(me) \in Paths /\ Head(me.names) \in STRING /\ me.names \in Paths
    BY <1>1, AimFacts DEF Good
  <1>3. From(me) \in DOMAIN tree
    BY <1>1 DEF From, Good, TreeOK
  <1>4. AtLast(me) => me.names = <<Head(me.names)>>
    BY <1>1, <1>2, OneName DEF EaseOK, Aims, Running
  <1>5. me.pc \in {"open", "save", "chdir"} => Aim(me) = <<Head(me.names)>>
    <2>1. me.pc \in {"open", "save", "chdir"} /\ me.want => AtLast(me)
      BY DEF AtLast, Setting
    <2> QED
      BY <1>4, <2>1 DEF Aim
  <1> QED
    BY <1>2, <1>3, <1>4, <1>5

\* The working directory has not been changed, if that can be.
LEMMA NotChangedEase ==
  ASSUME MkOK, MoreOK, EaseOK, line.parents, NEW p \in Both, Running(p), NEW me, me = ps[p], me.pc \in {"open", "chdir"},
         NotChanged(p, me), UNCHANGED <<tree, line>>, BudgetOK(budget'), budget'.fails <= budget.fails, ~(Smooth /\ Smooth')
  PROVE  EaseOK'
  <1>1. Good(me, tree) /\ me.pc \in Busy /\ line.prog = "mkdir" /\ Ready(me) /\ Aims(me, tree)
    BY RunningFacts DEF Busy, MoreOK, ModesOK, EaseOK, Running
  <1>2. Keeps(tree, tree') /\ Others(tree')
    BY <1>1, SameTreeKeeps
  <1>3. CASE Acted(p, CloseDir(me), FALSE)
    <2> DEFINE ok == FALSE
    <2>1. PICK e : e = CloseDir(me)
      OBVIOUS
    <2>2. DOMAIN e = ProcessFields /\ e.state = me.state /\ e.status = me.status /\ ok \in BOOLEAN /\ Acted(p, e, ok)
      BY <1>1, <1>3, <2>1 DEF Good, ProcessFields, CloseDir
    <2> HIDE DEF ok
    <2> QED
      BY <1>1, <1>2, <2>2, ActedEase
  <1>4. CASE me.want /\ SetUp(p, me, FALSE)
    <2> DEFINE n == [me EXCEPT !.pc = "chmod", !.inside = FALSE]
    <2>1. Goes(p, n) /\ n.pc = "chmod" /\ ~n.inside /\ n.want = me.want /\ n.names = me.names /\ n.root = me.root /\ n.cwd = me.cwd
      BY <1>1, <1>4 DEF SetUp, Good, ProcessFields
    <2> HIDE DEF n
    <2>2. Setting(me) /\ ~me.inside
      BY <1>1, <1>4 DEF Setting, Ready
    <2>3. Beyond(n) = Beyond(me)
      BY <2>1 DEF Beyond, From
    <2>4. Aims(n, tree')
      BY <1>1, <2>1, <2>2, <2>3 DEF Aims, AtLast, Setting
    <2> QED
      BY <1>2, <2>1, <2>4, EaseStep
  <1> QED
    BY <1>3, <1>4 DEF NotChanged

\* The process looks for the same.
LEMMA SameAim ==
  ASSUME NEW me, NEW n, NEW t, Ready(me), Aims(me, t), me.pc \in {"open", "save"}, n.pc \in {"save", "chdir"}, n.names = me.names, n.root = me.root,
         n.cwd = me.cwd, n.want = me.want, n.inside = me.inside
  PROVE  Aims(n, t) /\ Beyond(n) = Beyond(me)
  <1>1. Beyond(n) = Beyond(me)
    BY DEF Beyond, From
  <1>2. ~n.inside /\ (AtLast(n) => AtLast(me)) /\ (Setting(n) => Setting(me))
    BY DEF AtLast, Setting, Ready, Busy
  <1> QED
    BY <1>1, <1>2 DEF Aims

\* The directory is opened.
LEMMA ChdirOpenEase ==
  ASSUME MkOK, MoreOK, EaseOK, line.parents, NEW p \in Both, ChdirOpen(p)
  PROVE  EaseOK'
  <1>0. PICK me : me = ps[p]
    OBVIOUS
  <1> DEFINE err == OpenError(tree, From(me), Aim(me))
             found == (err = "ok")
  <1>1. Running(p) /\ me.pc = "open" /\ UNCHANGED <<tree, line>>
    BY <1>0 DEF ChdirOpen
  <1>2. Good(me, tree) /\ line.prog = "mkdir" /\ BudgetOK(budget) /\ Ready(me) /\ Aims(me, tree) /\ me.pc \in Busy /\ ~me.inside
    BY <1>0, <1>1, RunningFacts DEF Busy, MoreOK, ModesOK, EaseOK, Running, Ready
  <1>3. PICK failed \in BOOLEAN :
          /\ Trouble(failed) /\ Spend(failed)
          /\ \/ Goes(p, [me EXCEPT !.pc = "save"])
             \/ (failed \/ (err # "ok" /\ (err # "EACCES" \/ me.readable))) /\ NotChanged(p, me)
             \/ Goes(p, [me EXCEPT !.pc = "save", !.fd = found])
    BY <1>0 DEF ChdirOpen
  <1>4. BudgetOK(budget') /\ budget'.fails <= budget.fails /\ (failed => ~Smooth')
    BY <1>2, <1>3, FailureEnds
  <1>5. Smooth => err = "ok" \/ (err = "EACCES" /\ ~me.readable)
    <2> DEFINE from == From(me)
               name == Head(me.names)
               names == Aim(me)
               next == Entry(from, name)
    <2>1. SUFFICES ASSUME Smooth
                   PROVE  err = "ok" \/ (err = "EACCES" /\ ~me.readable)
      OBVIOUS
    <2>2. Easy(me, tree)
      BY <1>0, <1>1, <1>2, <2>1 DEF EaseOK, Running
    <2>3. from \in DOMAIN tree /\ from \in Paths /\ name \in STRING /\ names = <<name>>
      BY <1>0, <1>1, <1>2, LooksFrom
    <2>4. Beyond(me) = next
      BY DEF Beyond
    <2>5. next \in DOMAIN tree /\ (me.readable => "ur" \in tree[next].mode)
      BY <1>1, <2>2, <2>4 DEF Easy
    <2>6. Search(tree, from) = "ok" /\ tree[next].kind = "dir"
      BY <2>1, <2>3, <2>5, AllOpen
    <2>7. err = LET l == Lookup(tree, from, names)
                IN  IF l.err # "ok" THEN l.err
                    ELSE IF tree[l.dir].kind # "dir" THEN "ENOTDIR"
                    ELSE IF "ur" \in tree[l.dir].mode THEN "ok" ELSE "EACCES"
      BY DEF OpenError
    <2> HIDE DEF err, from, name, names
    <2>8. Lookup(tree, from, names).err = "ok" /\ Lookup(tree, from, names).dir = next
      BY <2>3, <2>5, <2>6, LookHere
    <2> HIDE DEF next
    <2> QED
      BY <2>5, <2>6, <2>7, <2>8
  <1> HIDE DEF err, found
  <1>6. ASSUME NEW n, Goes(p, n), n.pc = "save", n.state = me.state, n.status = me.status, n.names = me.names, n.root = me.root, n.cwd = me.cwd,
               n.want = me.want, n.inside = me.inside
        PROVE  EaseOK'
    <2>1. Aims(n, tree) /\ Beyond(n) = Beyond(me)
      BY <1>1, <1>2, <1>6, SameAim
    <2>2. Smooth => Easy(n, tree)
      BY <1>0, <1>1, <1>2, <1>6, <2>1 DEF EaseOK, Running, Easy
    <2> QED
      BY <1>1, <1>2, <1>4, <1>6, <2>1, <2>2, SameTreeKeeps, EaseStep
  <1>7. CASE Goes(p, [me EXCEPT !.pc = "save"])
    <2> DEFINE n == [me EXCEPT !.pc = "save"]
    <2>1. Goes(p, n) /\ n.pc = "save" /\ n.state = me.state /\ n.status = me.status /\ n.names = me.names /\ n.root = me.root /\ n.cwd = me.cwd
          /\ n.want = me.want /\ n.inside = me.inside
      BY <1>2, <1>7 DEF Good, ProcessFields
    <2> HIDE DEF n
    <2> QED
      BY <1>6, <2>1
  <1>8. CASE Goes(p, [me EXCEPT !.pc = "save", !.fd = found])
    <2> DEFINE n == [me EXCEPT !.pc = "save", !.fd = found]
    <2>1. Goes(p, n) /\ n.pc = "save" /\ n.state = me.state /\ n.status = me.status /\ n.names = me.names /\ n.root = me.root /\ n.cwd = me.cwd
          /\ n.want = me.want /\ n.inside = me.inside
      BY <1>2, <1>8 DEF Good, ProcessFields
    <2> HIDE DEF n
    <2> QED
      BY <1>6, <2>1
  <1>9. CASE (failed \/ (err # "ok" /\ (err # "EACCES" \/ me.readable))) /\ NotChanged(p, me)
    BY <1>0, <1>1, <1>4, <1>5, <1>9, NotChangedEase
  <1> QED
    BY <1>3, <1>7, <1>8, <1>9

\* The working directory is saved, or a child goes on.
LEMMA SaveEase ==
  ASSUME MkOK, MoreOK, EaseOK, line.parents, NEW p \in Both, savewd_save(p)
  PROVE  EaseOK'
  <1>0. PICK me : me = ps[p]
    OBVIOUS
  <1>1. Running(p) /\ me.pc = "save" /\ UNCHANGED <<tree, line>>
    BY <1>0 DEF savewd_save
  <1>2. Good(me, tree) /\ line.prog = "mkdir" /\ BudgetOK(budget) /\ Ready(me) /\ Aims(me, tree)
    BY <1>0, <1>1, RunningFacts DEF MoreOK, ModesOK, EaseOK, Running
  <1>3. PICK go : go = [me EXCEPT !.pc = "chdir"]
    OBVIOUS
  <1>4. DOMAIN go = ProcessFields /\ go.pc = "chdir" /\ go.state = me.state /\ go.status = me.status /\ go.names = me.names /\ go.root = me.root
        /\ go.cwd = me.cwd /\ go.want = me.want /\ go.inside = me.inside
    BY <1>2, <1>3 DEF Good, ProcessFields
  <1>5. PICK failed \in BOOLEAN :
          /\ Trouble(failed) /\ Spend(failed)
          /\ \/ failed /\ Goes(p, [go EXCEPT !.state = "ERROR", !.child = "none"])
             \/ Fork(p, me)
             \/ Goes(p, [go EXCEPT !.state = "FD", !.saved = TRUE])
             \/ Goes(p, go)
    BY <1>0, <1>3 DEF savewd_save
  <1>6. BudgetOK(budget') /\ budget'.fails <= budget.fails /\ (failed => ~Smooth')
    BY <1>2, <1>5, FailureEnds
  <1>7. Smooth => Easy(me, tree)
    BY <1>0, <1>1, <1>2 DEF EaseOK, Running
  <1>8. ASSUME NEW n, n.pc = "chdir", n.status = me.status, n.names = me.names, n.root = me.root, n.cwd = me.cwd,
               n.want = me.want, n.inside = me.inside
        PROVE  Aims(n, tree) /\ (Smooth /\ n.state # "ERROR" => Easy(n, tree))
    <2>1. Aims(n, tree) /\ Beyond(n) = Beyond(me)
      BY <1>1, <1>2, <1>8, SameAim
    <2> QED
      BY <1>1, <1>7, <1>8, <2>1 DEF Easy
  <1>9. ASSUME NEW n, Goes(p, n), n.pc = "chdir", n.state # "ERROR" \/ failed, n.status = me.status, n.names = me.names, n.root = me.root,
               n.cwd = me.cwd, n.want = me.want, n.inside = me.inside
        PROVE  EaseOK'
    <2>1. Aims(n, tree) /\ (Smooth /\ Smooth' => Easy(n, tree))
      BY <1>6, <1>8, <1>9
    <2> QED
      BY <1>1, <1>2, <1>6, <1>9, <2>1, SameTreeKeeps, EaseStep
  <1>10. CASE failed /\ Goes(p, [go EXCEPT !.state = "ERROR", !.child = "none"])
    <2> DEFINE n == [go EXCEPT !.state = "ERROR", !.child = "none"]
    <2>1. Goes(p, n) /\ n.pc = "chdir" /\ n.status = me.status /\ n.names = me.names /\ n.root = me.root /\ n.cwd = me.cwd
          /\ n.want = me.want /\ n.inside = me.inside
      BY <1>4, <1>10 DEF ProcessFields
    <2> HIDE DEF n
    <2> QED
      BY <1>9, <1>10, <2>1
  <1>11. CASE Goes(p, [go EXCEPT !.state = "FD", !.saved = TRUE])
    <2> DEFINE n == [go EXCEPT !.state = "FD", !.saved = TRUE]
    <2>1. Goes(p, n) /\ n.pc = "chdir" /\ n.state = "FD" /\ n.status = me.status /\ n.names = me.names /\ n.root = me.root /\ n.cwd = me.cwd
          /\ n.want = me.want /\ n.inside = me.inside
      BY <1>4, <1>11 DEF ProcessFields
    <2> HIDE DEF n
    <2> QED
      BY <1>9, <2>1
  <1>12. CASE Goes(p, go)
    <2>1. me.state = "ERROR" => ~Smooth
      BY <1>7 DEF Easy
    <2>2. Aims(go, tree) /\ (Smooth => Easy(go, tree))
      BY <1>4, <1>8, <2>1
    <2> QED
      BY <1>1, <1>2, <1>4, <1>6, <1>12, <2>2, SameTreeKeeps, EaseStep
  <1>13. CASE Fork(p, me)
    <2> DEFINE a == [me EXCEPT !.pc = "restore", !.state = "FORKING", !.child = "child", !.fd = FALSE]
               b == [me EXCEPT !.pc = "chdir", !.state = "FORKING", !.child = "self"]
    <2>1. a.pc = "restore" /\ a.state = "FORKING" /\ a.status = me.status
      BY <1>2 DEF Good, ProcessFields
    <2>2. b.pc = "chdir" /\ b.state = "FORKING" /\ b.status = me.status /\ b.names = me.names /\ b.root = me.root /\ b.cwd = me.cwd
          /\ b.want = me.want /\ b.inside = me.inside
      BY <1>2 DEF Good, ProcessFields
    <2>3. ps' = [parent |-> a, child |-> b]
      BY <1>13 DEF Fork
    <2> HIDE DEF a, b
    <2>4. Aims(a, tree)
      BY <2>1 DEF Aims, AtLast, Setting
    <2>5. Smooth => Easy(a, tree)
      BY <1>7, <2>1 DEF Easy
    <2>6. Aims(b, tree) /\ (Smooth => Easy(b, tree))
      BY <1>8, <2>2
    <2> QED
      BY <1>1, <1>2, <1>6, <2>1, <2>3, <2>4, <2>5, <2>6, EasePair
  <1> QED
    BY <1>5, <1>10, <1>11, <1>12, <1>13

\* The working directory is changed.
LEMMA ChdirEase ==
  ASSUME MkOK, MoreOK, EaseOK, line.parents, NEW p \in Both, Chdir(p)
  PROVE  EaseOK'
  <1>0. PICK me : me = ps[p]
    OBVIOUS
  <1> DEFINE from == From(me)
             name == Head(me.names)
             names == Aim(me)
             next == Entry(from, name)
  <1>1. Running(p) /\ me.pc = "chdir" /\ UNCHANGED <<tree, line>>
    BY <1>0 DEF Chdir
  <1>2. Good(me, tree) /\ line.prog = "mkdir" /\ BudgetOK(budget) /\ Ready(me) /\ Aims(me, tree) /\ me.pc \in Busy /\ ~me.inside
    BY <1>0, <1>1, RunningFacts DEF Busy, MoreOK, ModesOK, EaseOK, Running, Ready
  <1>3. PICK dir : dir = Lookup(tree, from, names).dir
    OBVIOUS
  <1>4. PICK able \in BOOLEAN : able = (ChdirError(tree, from, names) = "ok")
    OBVIOUS
  <1>5. PICK state : state = AfterChdir(me.state)
    OBVIOUS
  <1>6. PICK there : there = [me EXCEPT !.cwd = dir, !.state = state]
    OBVIOUS
  <1>7. PICK failed \in BOOLEAN :
          Trouble(failed) /\ Spend(failed) /\ IF able /\ ~failed THEN Changed(p, there) ELSE NotChanged(p, me)
    BY <1>0, <1>2, <1>3, <1>4, <1>5, <1>6 DEF Chdir, Good, ProcessFields
  <1>8. BudgetOK(budget') /\ budget'.fails <= budget.fails /\ (failed => ~Smooth')
    BY <1>2, <1>7, FailureEnds
  <1>9. from \in DOMAIN tree /\ from \in Paths /\ name \in STRING /\ names = <<name>> /\ Beyond(me) = next
    BY <1>0, <1>1, <1>2, LooksFrom DEF Beyond
  <1>10. ChdirError(tree, from, names) = IF Lookup(tree, from, names).err # "ok" THEN Lookup(tree, from, names).err ELSE Search(tree, dir)
    BY <1>3 DEF ChdirError
  <1> HIDE DEF from, name, names, next
  <1>11. Smooth => able
    <2>1. SUFFICES ASSUME Smooth
                   PROVE  able
      OBVIOUS
    <2>2. next \in DOMAIN tree
      BY <1>0, <1>1, <1>2, <1>9, <2>1 DEF EaseOK, Running, Easy
    <2>3. Search(tree, from) = "ok" /\ Search(tree, next) = "ok"
      BY <1>9, <2>1, <2>2, AllOpen
    <2>4. Lookup(tree, from, names).err = "ok" /\ Lookup(tree, from, names).dir = next
      BY <1>9, <2>2, <2>3, LookHere DEF next
    <2> QED
      BY <1>3, <1>4, <1>10, <2>3, <2>4
  <1>12. CASE ~(able /\ ~failed)
    <2>1. NotChanged(p, me) /\ ~(Smooth /\ Smooth')
      BY <1>7, <1>8, <1>11, <1>12
    <2> QED
      BY <1>0, <1>1, <1>8, <2>1, NotChangedEase
  <1>13. CASE able /\ ~failed
    <2>1. Changed(p, there)
      BY <1>7, <1>13
    <2>2. dir = next
      <3>1. Lookup(tree, from, names).err = "ok"
        BY <1>4, <1>10, <1>13
      <3> QED
        BY <1>3, <1>9, <3>1, LooksUp DEF next
    <2>3. state = me.state \/ state = "FDPOST"
      BY <1>5 DEF AfterChdir
    <2>4. DOMAIN there = ProcessFields /\ there.state = state /\ there.status = me.status /\ there.want = me.want /\ there.cwd = dir
      BY <1>2, <1>6 DEF Good, ProcessFields
    <2>5. Smooth => me.status = 0 /\ me.state # "ERROR"
      BY <1>0, <1>1, <1>2 DEF EaseOK, Running, Easy
    <2>6. ASSUME NEW n, Goes(p, n), n.pc \in {"ancestor", "chmod"}, n.state = state, n.status = me.status, Aims(n, tree)
          PROVE  EaseOK'
      <3>1. Smooth => Easy(n, tree)
        BY <2>3, <2>5, <2>6 DEF Easy
      <3> QED
        BY <1>1, <1>2, <1>8, <2>6, <3>1, SameTreeKeeps, EaseStep
    <2>7. CASE ~there.want
      <3> DEFINE tail == Tail(there.names)
                 n == [CloseDir(there) EXCEPT !.pc = "ancestor", !.names = tail, !.root = FALSE]
      <3>1. Goes(p, n)
        BY <2>1, <2>4, <2>7 DEF Changed, CloseDir, ProcessFields
      <3> HIDE DEF tail
      <3>2. n.pc = "ancestor" /\ n.state = state /\ n.status = me.status
        BY <2>4 DEF CloseDir, ProcessFields
      <3> HIDE DEF n
      <3>3. Aims(n, tree)
        BY <3>2 DEF Aims, AtLast, Setting
      <3> QED
        BY <2>6, <3>1, <3>2, <3>3
    <2>8. CASE there.want
      <3> DEFINE n == [there EXCEPT !.pc = "chmod", !.inside = TRUE]
      <3>1. Goes(p, n)
        BY <2>1, <2>8 DEF Changed, SetUp
      <3>2. n.pc = "chmod" /\ n.state = state /\ n.status = me.status /\ n.inside /\ n.cwd = dir
        BY <2>4 DEF ProcessFields
      <3> HIDE DEF n
      <3>3. Setting(me)
        BY <1>1, <2>4, <2>8 DEF Setting
      <3>4. dir \in DOMAIN tree /\ tree[dir].by = "mkdir"
        BY <1>2, <1>9, <2>2, <3>3 DEF Aims
      <3>5. Aims(n, tree)
        BY <3>2, <3>4 DEF Aims, AtLast, Setting
      <3> QED
        BY <2>6, <3>1, <3>2, <3>5
    <2> QED
      BY <2>7, <2>8
  <1> QED
    BY <1>12, <1>13

\* A file that mkdir or mkancesdirs() makes is there, and all others as before.
LEMMA MadeKeeps ==
  ASSUME MkOK, EaseOK, line.prog = "mkdir", line.parents, NEW dir \in Paths, NEW name \in STRING, NEW names, names = <<name>>,
         MakeError(tree, dir, names) = "ok", NEW mode \in SUBSET CHMOD_MODE_BITS, NEW by \in {"ancestor", "mkdir"},
         tree' = Made(tree, dir, names, "dir", mode, by), by = "ancestor" => mode = ancestor_mode
  PROVE  /\ Keeps(tree, tree') /\ Others(tree')
         /\ Entry(dir, name) \in DOMAIN tree' /\ tree'[Entry(dir, name)] = [kind |-> "dir", mode |-> mode, by |-> by]
         /\ Smooth => ((by = "mkdir" => Accessible(mode)) => Own(tree'))
  <1> DEFINE k == "dir"
             none == <<>>
  <1>1. TreeOK(tree) /\ names \in Paths /\ names # <<>>
    BY DEF MkOK, Paths
  <1>2. PICK new : new = NewName(tree, dir, names)
    OBVIOUS
  <1>3. PICK file : file = [kind |-> k, mode |-> mode, by |-> by]
    OBVIOUS
  <1>4. k \in {"dir", "reg", "nod"} /\ by \in {"before", "other", "ancestor", "mkdir"} /\ tree' = Made(tree, dir, names, k, mode, by)
    OBVIOUS
  <1>5. file.kind = "dir" /\ file.mode = mode /\ file.by = by
    BY <1>3
  <1>6. Adds(tree', tree, new, file)
    <2> HIDE DEF k
    <2>1. PICK s : s = names
      OBVIOUS
    <2>2. Adds(Made(tree, dir, s, k, mode, by), tree, NewName(tree, dir, s), [kind |-> k, mode |-> mode, by |-> by])
      BY <1>1, <1>4, <2>1, MadeFacts
    <2> QED
      BY <1>2, <1>3, <1>4, <2>1, <2>2
  <1>7. new = Entry(dir, name)
    <2>1. Front(names) = none /\ Last(names) = name
      <3>1. none \in Seq(STRING) /\ Append(none, name) = names
        OBVIOUS
      <3> HIDE DEF none
      <3> QED
        BY <3>1, AppendFront
    <2>2. Lookup(tree, dir, none).dir = dir
      <3>1. none \in Paths
        BY DEF Paths
      <3> QED
        BY <3>1, LookupFacts
    <2>3. NewName(tree, dir, names) = Entry(Lookup(tree, dir, Front(names)).dir, Last(names))
      BY <1>1, MakeFacts
    <2> QED
      BY <1>2, <2>1, <2>2, <2>3
  <1>8. DOMAIN tree' = DOMAIN tree \cup {new} /\ new \notin DOMAIN tree /\ tree'[new] = file /\ \A x \in DOMAIN tree : tree'[x] = tree[x]
    BY <1>6 DEF Adds
  <1>9. Keeps(tree, tree')
    BY <1>8 DEF Keeps
  <1>10. Others(tree')
    BY <1>5, <1>8 DEF EaseOK, Others
  <1>11. Smooth => ((by = "mkdir" => Accessible(mode)) => Own(tree'))
    BY <1>5, <1>8 DEF EaseOK, Own
  <1> QED
    BY <1>3, <1>7, <1>8, <1>9, <1>10, <1>11

\* The directory above one that is there is there.
LEMMA DotsThere ==
  ASSUME NEW t, TreeOK(t), NEW dir \in DOMAIN t
  PROVE  Entry(dir, "..") \in DOMAIN t
  BY DEF TreeOK, Entry

\* An ancestor is made, or passed.
LEMMA AncestorEase ==
  ASSUME MkOK, MoreOK, EaseOK, line.parents, NEW p \in Both, mkancesdirs(p)
  PROVE  EaseOK'
  <1>0. PICK me : me = ps[p]
    OBVIOUS
  <1> DEFINE tail == Tail(me.names)
  <1>1. Running(p) /\ me.pc = "ancestor" /\ UNCHANGED <<line, budget>>
    BY <1>0 DEF mkancesdirs
  <1>2. Good(me, tree) /\ TreeOK(tree) /\ line.prog = "mkdir" /\ ~me.want /\ me.pc \in Busy /\ LineOK
    BY <1>0, <1>1, RunningFacts DEF Busy, MoreOK, ModesOK, Running, Ready
  <1>3. PICK from : from = From(me)
    OBVIOUS
  <1>4. PICK name : name = Head(me.names)
    OBVIOUS
  <1>5. PICK names : names = <<name>>
    OBVIOUS
  <1>6. PICK err : err = MakeError(tree, from, names)
    OBVIOUS
  <1>7. PICK makes \in BOOLEAN : makes = (name # ".." /\ err = "ok")
    OBVIOUS
  <1>8. PICK made : made = CASE name = ".." -> FALSE [] name # ".." /\ err = "ok" -> TRUE [] OTHER -> me.made
    OBVIOUS
  <1>9. PICK readable \in BOOLEAN : readable = (name # ".." /\ err = "ok" /\ "ur" \in ancestor_mode)
    OBVIOUS
  <1>10. \/ Len(me.names) = 1 /\ Goes(p, [me EXCEPT !.pc = "mkdir"]) /\ UNCHANGED tree
         \/ Goes(p, [me EXCEPT !.names = tail]) /\ UNCHANGED tree
         \/ /\ tree' = IF makes THEN Made(tree, from, names, "dir", ancestor_mode, "ancestor") ELSE tree
            /\ Goes(p, [me EXCEPT !.pc = "open", !.made = made, !.nofollow = made, !.readable = readable])
    BY <1>0, <1>2, <1>3, <1>4, <1>5, <1>6, <1>7, <1>8, <1>9 DEF mkancesdirs, Good, ProcessFields
  <1>11. BudgetOK(budget') /\ budget'.fails <= budget.fails
    BY <1>1, NoFailure
  <1>12. from \in Paths /\ name \in STRING /\ from \in DOMAIN tree
    BY <1>2, <1>3, <1>4, AimFacts DEF From, Good, TreeOK
  <1>13. Smooth => me.status = 0 /\ me.state # "ERROR"
    BY <1>0, <1>1, <1>2 DEF EaseOK, Running, Easy
  <1>14. CASE Len(me.names) = 1 /\ Goes(p, [me EXCEPT !.pc = "mkdir"]) /\ UNCHANGED tree
    <2> DEFINE n == [me EXCEPT !.pc = "mkdir"]
    <2>1. Goes(p, n) /\ n.pc = "mkdir" /\ n.status = me.status /\ n.state = me.state /\ n.names = me.names
      BY <1>2, <1>14 DEF Good, ProcessFields
    <2> HIDE DEF n
    <2>2. Aims(n, tree')
      BY <1>14, <2>1 DEF Aims, AtLast, Setting
    <2>3. Smooth => Easy(n, tree')
      BY <1>13, <2>1 DEF Easy
    <2> QED
      BY <1>1, <1>2, <1>11, <1>14, <2>1, <2>2, <2>3, SameTreeKeeps, EaseStep
  <1>15. CASE Goes(p, [me EXCEPT !.names = tail]) /\ UNCHANGED tree
    <2> DEFINE n == [me EXCEPT !.names = tail]
    <2>1. Goes(p, n) /\ n.pc = "ancestor" /\ n.status = me.status /\ n.state = me.state
      BY <1>1, <1>2, <1>15 DEF Good, ProcessFields
    <2> HIDE DEF n
    <2>2. Aims(n, tree')
      BY <2>1 DEF Aims, AtLast, Setting
    <2>3. Smooth => Easy(n, tree')
      BY <1>13, <2>1 DEF Easy
    <2> QED
      BY <1>1, <1>2, <1>11, <1>15, <2>1, <2>2, <2>3, SameTreeKeeps, EaseStep
  <1>16. CASE /\ tree' = IF makes THEN Made(tree, from, names, "dir", ancestor_mode, "ancestor") ELSE tree
              /\ Goes(p, [me EXCEPT !.pc = "open", !.made = made, !.nofollow = made, !.readable = readable])
    <2>1. PICK n : n = [me EXCEPT !.pc = "open", !.made = made, !.nofollow = made, !.readable = readable]
      OBVIOUS
    <2>2. Goes(p, n) /\ n.pc = "open" /\ n.status = me.status /\ n.state = me.state /\ n.names = me.names /\ n.root = me.root /\ n.cwd = me.cwd
          /\ n.want = me.want /\ n.readable = readable
      BY <1>2, <1>16, <2>1 DEF Good, ProcessFields
    <2>3. Beyond(n) = Entry(from, name)
      BY <1>3, <1>4, <2>2 DEF Beyond, From
    <2>4. Aims(n, tree')
      BY <1>2, <2>2 DEF Aims, AtLast, Setting
    <2>5. CASE makes
      <3> DEFINE by == "ancestor"
                 mode == ancestor_mode
      <3>1. mode \in SUBSET CHMOD_MODE_BITS
        BY <1>2 DEF LineOK, ancestor_mode, CHMOD_MODE_BITS, S_IRWXUGO, S_IRUGO, S_IWUGO, S_IXUGO
      <3>2. MakeError(tree, from, names) = "ok" /\ by \in {"ancestor", "mkdir"} /\ tree' = Made(tree, from, names, "dir", mode, by)
            /\ mode = ancestor_mode /\ by # "mkdir"
        BY <1>6, <1>7, <1>16, <2>5
      <3> HIDE DEF by, mode
      <3>3. /\ Keeps(tree, tree') /\ Others(tree') /\ (Smooth => Own(tree'))
            /\ Entry(from, name) \in DOMAIN tree' /\ tree'[Entry(from, name)] = [kind |-> "dir", mode |-> mode, by |-> by]
        BY <1>2, <1>5, <1>12, <3>1, <3>2, MadeKeeps
      <3>4. readable => "ur" \in tree'[Entry(from, name)].mode
        <4>1. tree'[Entry(from, name)].mode = mode
          BY <3>3
        <4> QED
          BY <1>9, <3>2, <4>1
      <3>5. Smooth => Easy(n, tree')
        BY <1>13, <2>2, <2>3, <3>3, <3>4 DEF Easy
      <3> QED
        BY <1>1, <1>11, <2>2, <2>4, <3>3, <3>5, EaseStep
    <2>6. CASE ~makes
      <3>1. tree' = tree /\ ~readable
        BY <1>7, <1>9, <1>16, <2>6
      <3>2. Smooth => Entry(from, name) \in DOMAIN tree
        <4>1. CASE name = ".."
          BY <1>2, <1>12, <4>1, DotsThere
        <4>2. ASSUME name # "..", Smooth, Entry(from, name) \notin DOMAIN tree
              PROVE  FALSE
          <5>1. Search(tree, from) = "ok" /\ "uw" \in tree[from].mode
            BY <1>12, <4>2, AllOpen
          <5>2. err = "ok"
            BY <1>5, <1>6, <1>12, <4>2, <5>1, LookHere
          <5> QED
            BY <1>7, <2>6, <4>2, <5>2
        <4> QED
          BY <4>1, <4>2
      <3>3. Smooth => Easy(n, tree')
        BY <1>13, <2>2, <2>3, <3>1, <3>2 DEF Easy
      <3> QED
        BY <1>1, <1>2, <1>11, <2>2, <2>4, <3>1, <3>3, SameTreeKeeps, EaseStep
    <2> QED
      BY <2>5, <2>6
  <1> QED
    BY <1>10, <1>14, <1>15, <1>16

\* The directory itself is made, or something is there.
LEMMA MakeDirEase ==
  ASSUME MkOK, MoreOK, EaseOK, line.parents, NEW p \in Both, MakeDir(p)
  PROVE  EaseOK'
  <1>0. PICK me : me = ps[p]
    OBVIOUS
  <1> DEFINE m == mkdir_mode \ (line.set.umask \cup SetIds)
  <1>1. Running(p) /\ me.pc = "mkdir" /\ UNCHANGED <<line, budget>>
    BY <1>0 DEF MakeDir
  <1>2. Good(me, tree) /\ TreeOK(tree) /\ LineOK /\ SetOK /\ line.prog = "mkdir" /\ Ready(me) /\ Aims(me, tree) /\ me.pc \in Busy
        /\ ~me.want /\ ~me.inside /\ AtLast(me)
    BY <1>0, <1>1, RunningFacts DEF Busy, MoreOK, ModesOK, EaseOK, Running, Ready, AtLast
  <1>3. PICK from : from = From(me)
    OBVIOUS
  <1>4. PICK name : name = Head(me.names)
    OBVIOUS
  <1>5. PICK names : names = me.names
    OBVIOUS
  <1>6. from \in DOMAIN tree /\ from \in Paths /\ name \in STRING /\ names = <<name>> /\ Beyond(me) = Entry(from, name)
    BY <1>0, <1>1, <1>2, <1>3, <1>4, <1>5, LooksFrom DEF Beyond
  <1>7. PICK err : err = MakeError(tree, from, names)
    OBVIOUS
  <1>8. PICK readable : readable = ("ur" \in line.set.mode)
    OBVIOUS
  <1>9. \/ err # "ok" /\ Goes(p, [me EXCEPT !.pc = "stat", !.err = err]) /\ UNCHANGED tree
        \/ /\ err = "ok" /\ tree' = Made(tree, from, names, "dir", m, "mkdir")
           /\ \/ Acted(p, me, TRUE)
              \/ Goes(p, [me EXCEPT !.pc = "open", !.want = TRUE, !.nofollow = TRUE, !.readable = readable])
    BY <1>0, <1>3, <1>5, <1>7, <1>8 DEF MakeDir
  <1>10. BudgetOK(budget') /\ budget'.fails <= budget.fails
    BY <1>1, NoFailure
  <1>11. Smooth => me.status = 0 /\ me.state # "ERROR"
    BY <1>0, <1>1, <1>2 DEF EaseOK, Running, Easy
  <1>12. CASE err # "ok" /\ Goes(p, [me EXCEPT !.pc = "stat", !.err = err]) /\ UNCHANGED tree
    <2> DEFINE n == [me EXCEPT !.pc = "stat", !.err = err]
    <2>1. Goes(p, n) /\ n.pc = "stat" /\ n.err = err /\ n.status = me.status /\ n.state = me.state /\ n.names = me.names /\ n.root = me.root
          /\ n.cwd = me.cwd
      BY <1>2, <1>12 DEF Good, ProcessFields
    <2> HIDE DEF n
    <2>2. Beyond(n) = Beyond(me)
      BY <2>1 DEF Beyond, From
    <2>3. Aims(n, tree')
      BY <1>2, <2>1 DEF Aims, AtLast, Setting
    <2>4. Smooth => err = "EEXIST" /\ Entry(from, name) \in DOMAIN tree
      <3>1. SUFFICES ASSUME Smooth
                     PROVE  err = "EEXIST" /\ Entry(from, name) \in DOMAIN tree
        OBVIOUS
      <3>2. Search(tree, from) = "ok" /\ "uw" \in tree[from].mode
        BY <1>6, <3>1, AllOpen
      <3> QED
        BY <1>6, <1>7, <1>12, <3>2, LookHere
    <2>5. Smooth => Easy(n, tree')
      BY <1>6, <1>11, <1>12, <2>1, <2>2, <2>4 DEF Easy
    <2> QED
      BY <1>1, <1>2, <1>10, <1>12, <2>1, <2>3, <2>5, SameTreeKeeps, EaseStep
  <1>13. CASE /\ err = "ok" /\ tree' = Made(tree, from, names, "dir", m, "mkdir")
              /\ \/ Acted(p, me, TRUE)
                 \/ Goes(p, [me EXCEPT !.pc = "open", !.want = TRUE, !.nofollow = TRUE, !.readable = readable])
    <2> DEFINE by == "mkdir"
    <2>1. PICK mode : mode = m
      OBVIOUS
    <2>2. mode \in SUBSET CHMOD_MODE_BITS
      BY <1>2, <2>1 DEF mkdir_mode, SetOK
    <2>3. Smooth => Accessible(mode)
      BY <1>2, <2>1 DEF EaseOK, Smooth, Accessible, mkdir_mode, SetIds
    <2>4. MakeError(tree, from, names) = "ok" /\ by \in {"ancestor", "mkdir"} /\ tree' = Made(tree, from, names, "dir", mode, by)
          /\ by # "ancestor" /\ by = "mkdir"
      BY <1>7, <1>13, <2>1
    <2> HIDE DEF m, by
    <2>5. /\ Keeps(tree, tree') /\ Others(tree') /\ (Smooth => Own(tree'))
          /\ Entry(from, name) \in DOMAIN tree' /\ tree'[Entry(from, name)] = [kind |-> "dir", mode |-> mode, by |-> by]
      BY <1>2, <1>6, <2>2, <2>3, <2>4, MadeKeeps
    <2>6. CASE Acted(p, me, TRUE)
      <3> DEFINE ok == TRUE
      <3>1. ok \in BOOLEAN /\ ok /\ Acted(p, me, ok) /\ DOMAIN me = ProcessFields
        BY <1>2, <2>6 DEF Good
      <3> HIDE DEF ok
      <3> QED
        BY <1>0, <1>1, <1>2, <1>10, <2>5, <3>1, ActedEase
    <2>7. CASE Goes(p, [me EXCEPT !.pc = "open", !.want = TRUE, !.nofollow = TRUE, !.readable = readable])
      <3>1. PICK n : n = [me EXCEPT !.pc = "open", !.want = TRUE, !.nofollow = TRUE, !.readable = readable]
        OBVIOUS
      <3>2. Goes(p, n) /\ n.pc = "open" /\ n.status = me.status /\ n.state = me.state /\ n.names = me.names /\ n.root = me.root /\ n.cwd = me.cwd
            /\ n.inside = me.inside /\ n.readable = readable
        BY <1>2, <2>7, <3>1 DEF Good, ProcessFields
      <3>3. Beyond(n) = Entry(from, name)
        BY <1>6, <3>2 DEF Beyond, From
      <3>4. Aims(n, tree')
        BY <1>2, <2>4, <2>5, <3>2, <3>3 DEF Aims, AtLast, Setting
      <3>5. Smooth => "ur" \in tree'[Entry(from, name)].mode
        BY <2>3, <2>5 DEF Accessible
      <3>6. Smooth => Easy(n, tree')
        BY <1>11, <2>5, <3>2, <3>3, <3>5 DEF Easy
      <3> QED
        BY <1>1, <1>10, <2>5, <3>2, <3>4, <3>6, EaseStep
    <2> QED
      BY <1>13, <2>6, <2>7
  <1> QED
    BY <1>9, <1>12, <1>13

\* What is there already is looked at.
LEMMA ExistingEase ==
  ASSUME MkOK, MoreOK, EaseOK, line.parents, NEW p \in Both, Existing(p)
  PROVE  EaseOK'
  <1>0. PICK me : me = ps[p]
    OBVIOUS
  <1> DEFINE e == [me EXCEPT !.err = "ok"]
  <1>1. Running(p) /\ me.pc = "stat" /\ UNCHANGED <<tree, line, budget>>
    BY <1>0 DEF Existing
  <1>2. Good(me, tree) /\ line.prog = "mkdir" /\ me.pc \in Busy /\ ~me.inside /\ AtLast(me)
    BY <1>0, <1>1, RunningFacts DEF Busy, MoreOK, ModesOK, Running, Ready, AtLast
  <1>3. PICK ok \in BOOLEAN : ok = TakesExisting(me)
    BY DEF TakesExisting
  <1>4. Acted(p, e, ok)
    BY <1>0, <1>3 DEF Existing
  <1>5. DOMAIN e = ProcessFields /\ e.state = me.state /\ e.status = me.status
    BY <1>2 DEF Good, ProcessFields
  <1> HIDE DEF e
  <1>6. Smooth => ok
    <2>1. SUFFICES ASSUME Smooth
                   PROVE  ok
      OBVIOUS
    <2>2. PICK from : from = From(me)
      OBVIOUS
    <2>3. PICK name : name = Head(me.names)
      OBVIOUS
    <2>4. PICK names : names = me.names
      OBVIOUS
    <2>5. from \in DOMAIN tree /\ from \in Paths /\ name \in STRING /\ names = <<name>> /\ Beyond(me) = Entry(from, name)
      BY <1>0, <1>1, <1>2, <2>2, <2>3, <2>4, LooksFrom DEF Beyond
    <2>6. me.err = "EEXIST" /\ Entry(from, name) \in DOMAIN tree
      BY <1>0, <1>1, <1>2, <2>1, <2>5 DEF EaseOK, Running, Easy
    <2>7. Search(tree, from) = "ok" /\ tree[Entry(from, name)].kind = "dir"
      BY <2>1, <2>5, <2>6, AllOpen
    <2>8. Lookup(tree, from, names).err = "ok" /\ Lookup(tree, from, names).dir = Entry(from, name)
      BY <2>5, <2>6, <2>7, LookHere
    <2> QED
      BY <1>3, <2>2, <2>4, <2>6, <2>7, <2>8 DEF TakesExisting
  <1>7. BudgetOK(budget') /\ budget'.fails <= budget.fails
    BY <1>1, NoFailure
  <1> QED
    BY <1>0, <1>1, <1>2, <1>4, <1>5, <1>6, <1>7, SameTreeKeeps, ActedEase

\* The mode of a directory that mkdir has made is set.
LEMMA DirchownmodEase ==
  ASSUME MkOK, MoreOK, EaseOK, line.parents, NEW p \in Both, dirchownmod(p)
  PROVE  EaseOK'
  <1>0. PICK me : me = ps[p]
    OBVIOUS
  <1>1. Running(p) /\ me.pc = "chmod" /\ UNCHANGED line
    BY <1>0 DEF dirchownmod
  <1>2. Good(me, tree) /\ TreeOK(tree) /\ line.prog = "mkdir" /\ BudgetOK(budget) /\ Ready(me) /\ Aims(me, tree) /\ me.pc \in Busy /\ Setting(me)
    BY <1>0, <1>1, RunningFacts DEF Busy, MoreOK, ModesOK, EaseOK, Running, Ready, Setting
  <1>3. PICK dir : dir = IF me.inside THEN me.cwd ELSE Lookup(tree, From(me), me.names).dir
    OBVIOUS
  <1>4. PICK mode : mode = line.set.mode \cup (tree[dir].mode \ line.set.bits)
    OBVIOUS
  <1>5. PICK failed \in BOOLEAN :
          /\ Trouble(failed) /\ Spend(failed) /\ Acted(p, CloseDir(me), ~failed)
          /\ tree' = [tree EXCEPT ![dir].mode = mode] \/ tree' = tree
    BY <1>0, <1>3, <1>4 DEF dirchownmod
  <1>6. BudgetOK(budget') /\ budget'.fails <= budget.fails /\ (failed => ~Smooth')
    BY <1>2, <1>5, FailureEnds
  <1>7. dir \in DOMAIN tree /\ tree[dir].by = "mkdir"
    <2>1. CASE me.inside
      BY <1>2, <1>3, <2>1 DEF Aims
    <2>2. CASE ~me.inside
      <3>1. PICK from : from = From(me)
        OBVIOUS
      <3>2. PICK name : name = Head(me.names)
        OBVIOUS
      <3>3. PICK names : names = me.names
        OBVIOUS
      <3>4. AtLast(me)
        BY <1>2, <2>2 DEF AtLast
      <3>5. from \in Paths /\ name \in STRING /\ names = <<name>> /\ Beyond(me) = Entry(from, name)
        BY <1>0, <1>1, <1>2, <2>2, <3>1, <3>2, <3>3, <3>4, LooksFrom DEF Beyond
      <3>6. Lookup(tree, from, names).err = "ok"
        BY <1>2, <2>2, <3>1, <3>3 DEF Ready
      <3>7. dir = Entry(from, name)
        BY <1>3, <2>2, <3>1, <3>3, <3>5, <3>6, LooksUp
      <3> QED
        BY <1>2, <2>2, <3>5, <3>7 DEF Aims
    <2> QED
      BY <2>1, <2>2
  <1>8. /\ DOMAIN tree' = DOMAIN tree /\ \A x \in DOMAIN tree : tree'[x].kind = tree[x].kind /\ tree'[x].by = tree[x].by
        /\ \A x \in DOMAIN tree : x # dir => tree'[x] = tree[x]
        /\ tree'[dir].mode \in {mode, tree[dir].mode}
    <2>1. CASE tree' = [tree EXCEPT ![dir].mode = mode]
      <3>1. \A x \in DOMAIN tree : tree[x] \in FileTypes
        BY <1>2 DEF TreeOK
      <3>2. ASSUME NEW x \in DOMAIN tree
            PROVE  tree'[x].kind = tree[x].kind /\ tree'[x].by = tree[x].by /\ (x # dir => tree'[x] = tree[x])
        BY <2>1, <3>1 DEF FileTypes
      <3>3. tree'[dir].mode = mode
        BY <1>7, <2>1, <3>1 DEF FileTypes
      <3> QED
        BY <2>1, <3>2, <3>3
    <2> QED
      BY <1>5, <2>1
  <1>9. Smooth => Accessible(mode)
    BY <1>4 DEF Smooth, Accessible
  <1>10. Keeps(tree, tree')
    BY <1>7, <1>8, <1>9 DEF Keeps, Accessible
  <1>11. Others(tree')
    BY <1>2, <1>7, <1>8 DEF EaseOK, Others
  <1>12. Smooth => Own(tree')
    BY <1>2, <1>7, <1>8, <1>9 DEF EaseOK, Own, Accessible
  <1>13. PICK e : e = CloseDir(me)
    OBVIOUS
  <1>14. DOMAIN e = ProcessFields /\ e.state = me.state /\ e.status = me.status
    BY <1>2, <1>13 DEF Good, ProcessFields, CloseDir
  <1> DEFINE ok == ~failed
  <1>15. ok \in BOOLEAN /\ Acted(p, e, ok) /\ (Smooth' => ok)
    BY <1>5, <1>6, <1>13
  <1> HIDE DEF ok
  <1> QED
    BY <1>0, <1>1, <1>2, <1>6, <1>10, <1>11, <1>12, <1>14, <1>15, ActedEase

\* main() clears the umask for mkdir -p.
LEMMA MainEase ==
  ASSUME MkOK, MoreOK, EaseOK, MainFails \/ mkdir_main \/ rmdir_main \/ nod_main
  PROVE  EaseOK'
  <1>0. PICK me : me = ps.parent
    OBVIOUS
  <1>1. me.pc = "main" /\ UNCHANGED tree
    BY <1>0 DEF MainFails, mkdir_main, rmdir_main, nod_main
  <1>2. Good(me, tree) /\ DOMAIN line = LineFields \cup {"set"} /\ DOMAIN ps = Both /\ ps.child.pc = "none" /\ line.set = Unset
    BY <1>0, <1>1, AloneFacts DEF LineOK, LineFields, MkOK, ProcsOK
  <1>3. \/ Exits(1) /\ UNCHANGED line
        \/ \E set : line' = [line EXCEPT !.set = set] /\ Goes("parent", [me EXCEPT !.pc = "next"])
                    /\ (line.prog = "mkdir" /\ line.parents => set.umask = {})
    <2>1. ASSUME NEW mode, NEW bits, Starts(mode, bits, umask_cleared)
          PROVE  \E set : line' = [line EXCEPT !.set = set] /\ Goes("parent", [me EXCEPT !.pc = "next"])
                          /\ (line.prog = "mkdir" /\ line.parents => set.umask = {})
      <3>1. PICK set : set = [mode |-> mode, bits |-> bits, umask |-> umask_cleared]
        OBVIOUS
      <3>2. line' = [line EXCEPT !.set = set] /\ Goes("parent", [me EXCEPT !.pc = "next"])
        BY <1>0, <2>1, <3>1 DEF Starts
      <3>3. line.prog = "mkdir" /\ line.parents => set.umask = {}
        BY <3>1 DEF umask_cleared
      <3> QED
        BY <3>2, <3>3
    <2>2. ASSUME NEW mode, NEW bits, NEW umask, Starts(mode, bits, umask), line.prog # "mkdir"
          PROVE  \E set : line' = [line EXCEPT !.set = set] /\ Goes("parent", [me EXCEPT !.pc = "next"])
                          /\ (line.prog = "mkdir" /\ line.parents => set.umask = {})
      BY <1>0, <2>2 DEF Starts
    <2>3. CASE MainFails
      BY <2>3 DEF MainFails
    <2>4. CASE mkdir_main
      BY <2>1, <2>4, Zenon DEF mkdir_main
    <2>5. CASE rmdir_main
      <3>1. line.prog # "mkdir" /\ Starts({}, {}, {})
        BY <2>5 DEF rmdir_main
      <3> QED
        BY <2>2, <3>1
    <2>6. CASE nod_main
      BY <2>1, <2>6, Zenon DEF nod_main
    <2> QED
      BY <2>3, <2>4, <2>5, <2>6
  <1>4. line'.prog = line.prog /\ line'.parents = line.parents /\ line'.umask = line.umask
    BY <1>2, <1>3 DEF LineFields
  <1> SUFFICES ASSUME line.prog = "mkdir", line.parents
               PROVE  EaseOK'
    BY <1>4 DEF EaseOK
  <1>5. ~Started
    BY <1>2 DEF Started
  <1>6. Others(tree) /\ me.status = 0 /\ me.state = "INITIAL" /\ (\A x \in DOMAIN tree : tree[x].by # "mkdir")
    BY <1>0, <1>1 DEF EaseOK, MoreOK, ModesOK
  <1>7. Others(tree)'
    BY <1>1, <1>4, <1>6 DEF Others, ancestor_mode
  <1>8. Own(tree)'
    BY <1>1, <1>6 DEF Own
  <1>9. PICK n : /\ Goes("parent", n) /\ n.pc \in {"next", "exit"}
                 /\ (line' = line \/ (line'.set.umask = {} /\ n.status = 0 /\ n.state = "INITIAL"))
    <2>1. CASE Exits(1) /\ UNCHANGED line
      <3> DEFINE n == [me EXCEPT !.pc = "exit", !.status = 1]
      <3>1. Goes("parent", n) /\ n.pc = "exit"
        BY <1>0, <1>2, <2>1 DEF Exits, Good, ProcessFields
      <3> HIDE DEF n
      <3> QED
        BY <2>1, <3>1
    <2>2. ASSUME NEW set, line' = [line EXCEPT !.set = set], Goes("parent", [me EXCEPT !.pc = "next"]), set.umask = {}
          PROVE  \E n : /\ Goes("parent", n) /\ n.pc \in {"next", "exit"}
                        /\ (line' = line \/ (line'.set.umask = {} /\ n.status = 0 /\ n.state = "INITIAL"))
      <3> DEFINE n == [me EXCEPT !.pc = "next"]
      <3>1. Goes("parent", n) /\ n.pc = "next" /\ n.status = 0 /\ n.state = "INITIAL"
        BY <1>2, <1>6, <2>2 DEF Good, ProcessFields
      <3>2. line'.set = set
        BY <1>2, <2>2
      <3> HIDE DEF n
      <3> QED
        BY <2>2, <3>1, <3>2
    <2> QED
      BY <1>3, <2>1, <2>2
  <1>10. ps'["parent"] = n /\ ps'["child"].pc = "none" /\ ps'.parent = n
    BY <1>2, <1>9 DEF Goes, Both
  <1>11. (Started => line.set.umask = {})'
    BY <1>5, <1>9 DEF Started
  <1>12. Smooth' => n.status = 0 /\ n.state = "INITIAL"
    BY <1>5, <1>9 DEF Smooth, Started
  <1>13. ASSUME NEW q \in Both, ps'[q].pc # "none"
         PROVE  Aims(ps[q], tree)' /\ (Smooth' => Easy(ps[q], tree)')
    <2>1. ps'[q] = n
      BY <1>10, <1>13 DEF Both
    <2>2. Aims(n, tree')
      BY <1>9 DEF Aims, AtLast, Setting
    <2>3. Smooth' => Easy(n, tree')
      BY <1>9, <1>12 DEF Easy
    <2> QED
      BY <2>1, <2>2, <2>3 DEF Aims, AtLast, Setting, Beyond, From, Easy
  <1>14. (ps.parent.pc = "main" => ps.parent.status = 0 /\ ps.parent.state = "INITIAL")'
    BY <1>9, <1>10
  <1>15. \A q \in Both : (ps[q].pc # "none")' <=> ps'[q].pc # "none"
    OBVIOUS
  <1> QED
    BY <1>7, <1>8, <1>11, <1>13, <1>14, <1>15 DEF EaseOK

\* It all holds when a program starts.
LEMMA EaseInit ==
  ASSUME MkInit
  PROVE  EaseOK
  <1>1. tree \in Trees /\ ps = [parent |-> Process, child |-> Nobody] /\ line \in Lines
    BY DEF MkInit
  <1>2. line.set = Unset /\ \A x \in DOMAIN tree : tree[x].by = "before"
    BY <1>1, LinesAssumption, TreesAssumption
  <1> DEFINE me == Process
             none == Nobody
  <1>3. me.pc = "main" /\ me.status = 0 /\ me.state = "INITIAL" /\ none.pc = "none"
    BY DEF Process, Nobody
  <1>4. ps["parent"] = me /\ ps["child"] = none /\ ps.parent = me
    BY <1>1
  <1> HIDE DEF me, none
  <1>5. Others(tree) /\ ~Started /\ ~Smooth
    BY <1>2 DEF Others, Started, Smooth
  <1>6. Aims(me, tree)
    BY <1>3 DEF Aims, AtLast, Setting
  <1> QED
    BY <1>3, <1>4, <1>5, <1>6 DEF EaseOK, Both

\* Every step of the four programs.
LEMMA EaseNext ==
  ASSUME MkOK, MoreOK, EaseOK, MkNext
  PROVE  EaseOK'
  <1>1. ASSUME NEW p \in Both, MkdirStep(p), line.parents
        PROVE  EaseOK'
    BY <1>1, ActingEase, RestoreEase, ChdirOpenEase, SaveEase, ChdirEase, AncestorEase, MakeDirEase, ExistingEase, DirchownmodEase
       DEF MkdirStep
  <1>2. ASSUME line' = line, ~(line.prog = "mkdir" /\ line.parents)
        PROVE  EaseOK'
    BY <1>2 DEF EaseOK
  <1>3. CASE make_nods \/ Removal \/ Judge \/ LoopEnds
    BY <1>2, <1>3 DEF make_nods, Removal, Judge, LoopEnds
  <1>4. CASE KillChild
    BY <1>2, <1>4, KillEase DEF KillChild
  <1>5. ASSUME NEW p \in Both, MkdirStep(p)
        PROVE  line' = line
    <2>1. CASE savewd_finish(p) \/ ActOn(p) \/ Leaves(p) \/ savewd_restore(p)
      BY <2>1 DEF savewd_finish, ActOn, Leaves, savewd_restore
    <2>2. CASE ChdirOpen(p) \/ savewd_save(p) \/ Chdir(p)
      BY <2>2 DEF ChdirOpen, savewd_save, Chdir
    <2>3. CASE mkancesdirs(p) \/ MakeDir(p) \/ Existing(p) \/ dirchownmod(p)
      BY <2>3 DEF mkancesdirs, MakeDir, Existing, dirchownmod
    <2> QED
      BY <1>5, <2>1, <2>2, <2>3 DEF MkdirStep
  <1>6. ASSUME NEW p \in Both, MkdirStep(p)
        PROVE  EaseOK'
    BY <1>1, <1>2, <1>5, <1>6
  <1> QED
    BY <1>3, <1>4, <1>6, OtherEase, MainEase DEF MkNext, Both

\* No program of MakeDirs runs, or mkdir -p goes on without trouble as long as
\* nothing is in its way.
EaseInv == MkIdle \/ (MkOK /\ MoreOK /\ EaseOK)

\* The other programs leave it alone.
LEMMA EaseRests ==
  ASSUME EaseOK, UNCHANGED mkvars
  PROVE  EaseOK'
  <1>1. tree' = tree /\ ps' = ps /\ line' = line /\ budget' = budget
    BY DEF mkvars
  <1>2. Smooth' <=> Smooth
    BY <1>1 DEF Smooth, Started, Accessible, NothingInTheWay
  <1>3. Others(tree)' <=> Others(tree)
    BY <1>1 DEF Others, ancestor_mode
  <1>4. Own(tree)' <=> Own(tree)
    BY <1>1 DEF Own, Accessible
  <1>5. ASSUME NEW p \in Both
        PROVE  /\ ps'[p].pc = ps[p].pc /\ (Aims(ps[p], tree)' <=> Aims(ps[p], tree)) /\ (Easy(ps[p], tree)' <=> Easy(ps[p], tree))
    BY <1>1 DEF Aims, AtLast, Setting, Beyond, From, Easy
  <1> QED
    BY <1>1, <1>2, <1>3, <1>4, <1>5 DEF EaseOK, Started

\* It holds at first, and every step keeps it.
LEMMA EaseInvHolds ==
  /\ CoreInit => EaseInv
  /\ EaseInv /\ [CoreNext]_<<vars, mkvars>> => EaseInv'
  <1>1. CoreInit => EaseInv
    BY MkInitOK, MoreInit, EaseInit DEF CoreInit, EaseInv
  <1>2. ASSUME EaseInv, UNCHANGED mkvars
        PROVE  EaseInv'
    <2>1. MkIdle => MkIdle'
      BY <1>2 DEF MkIdle, mkvars
    <2> QED
      BY <1>2, <2>1, MkStaysOK, MoreStays, EaseRests DEF EaseInv
  <1>3. ASSUME EaseInv, MkNext
        PROVE  EaseInv'
    <2>1. MkOK /\ MoreOK /\ EaseOK
      BY <1>3, MkIdleStays DEF EaseInv
    <2> QED
      BY <1>3, <2>1, MkNextOK, MoreNext, EaseNext DEF EaseInv
  <1>4. EaseInv /\ [CoreNext]_<<vars, mkvars>> => EaseInv'
    <2>1. [CoreNext]_<<vars, mkvars>> => UNCHANGED mkvars \/ MkNext
      BY DEF CoreNext
    <2> QED
      BY <1>2, <1>3, <2>1
  <1> QED
    BY <1>1, <1>4

\* mkdir -p exits with 0 when nothing stands in its way: whatever is there
\* already, whoever makes the same directories at the same time, and also where
\* a child has to stand in for a parent that cannot come back.
THEOREM ParentsCorrect == CoreSpec => []ParentsSucceed
  <1>1. EaseInv => ParentsSucceed
    <2>1. ASSUME MkIdle
          PROVE  ParentsSucceed
      <3>1. line.prog = "other"
        BY <2>1, MkIdleFacts
      <3> QED
        BY <3>1 DEF ParentsSucceed
    <2>2. ASSUME MkOK, EaseOK
          PROVE  ParentsSucceed
      <3> SUFFICES ASSUME Smooth, ps.parent.pc = "exit"
                   PROVE  ps.parent.status = 0
        BY DEF ParentsSucceed, Smooth, Parent
      <3>1. Easy(ps["parent"], tree)
        BY <2>2 DEF EaseOK, Smooth, Both
      <3> QED
        BY <3>1 DEF Easy
    <2> QED
      BY <2>1, <2>2 DEF EaseInv
  <1> QED
    BY <1>1, EaseInvHolds, PTL DEF CoreSpec
=============================================================================
