------------------------- MODULE CommandLineProofs --------------------------
(***************************************************************************)
(* The commands of the client work on the words of their own line, and the *)
(* binary search finds every command: for any buffer, any words and any    *)
(* number of them.                                                         *)
(***************************************************************************)
EXTENDS CommandLine, Loops, SequenceTheorems

-----------------------------------------------------------------------------
(* The binary search. *)

\* One round of it, when g says what the rounds after it return.
Probe(g, word, low, high) ==
  LET mid  == (low + high) \div 2
      cond == strcmp(word, commands[mid + 1])
  IN  IF low > high THEN -1
      ELSE IF cond < 0 THEN g[<<low, mid - 1>>]
      ELSE IF cond > 0 THEN g[<<mid + 1, high>>]
      ELSE mid

Bounds(n) == (0..n) \X (-1..(n - 1))
Left(r) == r[2] - r[1] + 1

\* The bounds of the next round are closer.
LEMMA Narrows ==
  ASSUME NEW n \in Nat, NEW r \in Bounds(n), r[1] <= r[2], NEW mid, mid = (r[1] + r[2]) \div 2
  PROVE  /\ mid \in 0..(n - 1) /\ r[1] <= mid /\ mid <= r[2]
         /\ <<r[1], mid - 1>> \in Bounds(n) /\ Left(<<r[1], mid - 1>>) < Left(r)
         /\ <<mid + 1, r[2]>> \in Bounds(n) /\ Left(<<mid + 1, r[2]>>) < Left(r)
  <1>1. r[1] \in 0..n /\ r[2] \in -1..(n - 1)
    BY DEF Bounds
  <1>2. mid \in Int /\ r[1] <= mid /\ mid <= r[2]
    BY <1>1
  <1> QED
    BY <1>1, <1>2 DEF Bounds, Left

\* A round looks only at rounds with closer bounds.
LEMMA ProbeAgrees ==
  ASSUME NEW n \in Nat, NEW word, NEW r \in Bounds(n), NEW g, NEW h,
         \A s \in Bounds(n) : Left(s) < Left(r) => g[s] = h[s]
  PROVE  Probe(g, word, r[1], r[2]) = Probe(h, word, r[1], r[2])
  <1> DEFINE mid == (r[1] + r[2]) \div 2
  <1>1. CASE r[1] > r[2]
    BY <1>1 DEF Probe
  <1>2. CASE ~(r[1] > r[2])
    <2>1. r[1] <= r[2]
      BY <1>2 DEF Bounds
    <2>2. g[<<r[1], mid - 1>>] = h[<<r[1], mid - 1>>] /\ g[<<mid + 1, r[2]>>] = h[<<mid + 1, r[2]>>]
      BY <2>1, Narrows
    <2> QED
      BY <2>2 DEF Probe
  <1> QED
    BY <1>1, <1>2

Filled(g, word, n, m) == \A r \in Bounds(n) : Left(r) <= m => g[r] = Probe(g, word, r[1], r[2])

\* A table of what the rounds return exists: it is filled by the number of entries
\* that are left to search.
LEMMA SearchExists ==
  ASSUME NEW n \in Nat, NEW word
  PROVE  \E g : g = [r \in Bounds(n) |-> Probe(g, word, r[1], r[2])]
  <1> DEFINE S == {m \in 0..n : \E g : Filled(g, word, n, m)}
  <1>1. 0 \in S
    <2> DEFINE g == [r \in Bounds(n) |-> -1]
    <2>1. ASSUME NEW r \in Bounds(n), Left(r) <= 0
          PROVE  g[r] = Probe(g, word, r[1], r[2])
      <3>1. r[1] > r[2]
        BY <2>1 DEF Bounds, Left
      <3> QED
        BY <3>1 DEF Probe
    <2> HIDE DEF g
    <2>2. Filled(g, word, n, 0)
      BY <2>1 DEF Filled
    <2> QED
      BY <2>2
  <1>2. ASSUME NEW m \in 1..n, m - 1 \in S
        PROVE  m \in S
    <2>1. PICK g : Filled(g, word, n, m - 1)
      BY <1>2
    <2> DEFINE h == [r \in Bounds(n) |-> IF Left(r) <= m - 1 THEN g[r] ELSE Probe(g, word, r[1], r[2])]
    <2>2. ASSUME NEW r \in Bounds(n), Left(r) <= m
          PROVE  h[r] = Probe(h, word, r[1], r[2])
      <3>0. \A s \in Bounds(n) : Left(s) \in Int
        BY DEF Bounds, Left
      <3>1. h[r] = Probe(g, word, r[1], r[2])
        BY <2>1 DEF Filled
      <3>2. \A s \in Bounds(n) : Left(s) < Left(r) => g[s] = h[s]
        BY <2>2, <3>0
      <3> HIDE DEF h
      <3> QED
        BY <3>1, <3>2, ProbeAgrees
    <2> HIDE DEF h
    <2>3. Filled(h, word, n, m)
      BY <2>2 DEF Filled
    <2> QED
      BY <2>3
  <1>3. n \in S
    <2> HIDE DEF S
    <2> QED
      BY <1>1, <1>2, Induction
  <1>4. PICK g : Filled(g, word, n, n)
    BY <1>3
  <1> DEFINE h == [r \in Bounds(n) |-> g[r]]
  <1>5. ASSUME NEW r \in Bounds(n)
        PROVE  h[r] = Probe(h, word, r[1], r[2])
    <2>1. Left(r) <= n
      BY DEF Left, Bounds
    <2>2. h[r] = Probe(g, word, r[1], r[2])
      BY <1>4, <2>1 DEF Filled
    <2>3. \A s \in Bounds(n) : g[s] = h[s]
      OBVIOUS
    <2> HIDE DEF h
    <2> QED
      BY <2>2, <2>3, ProbeAgrees
  <1>6. h = [r \in Bounds(n) |-> h[r]]
    OBVIOUS
  <1> HIDE DEF h
  <1>7. h = [r \in Bounds(n) |-> Probe(h, word, r[1], r[2])]
    BY <1>5, <1>6
  <1> QED
    BY <1>7

\* Where an entry that decides the comparison may be among the entries low to high.
Found(word, low, high, at) ==
  \/ at = -1 /\ \A i \in low..high : Ascii(word) # Ascii(commands[i + 1])
  \/ at \in low..high /\ Ascii(word) = Ascii(commands[at + 1])

\* The characters that decide the comparisons, and their order.
LEMMA AsciiTable ==
  /\ Ascii("?") = 63 /\ Ascii("ascii") = 97 /\ Ascii("binary") = 98 /\ Ascii("connect") = 99
  /\ Ascii("exit") = 101 /\ Ascii("get") = 103 /\ Ascii("help") = 104 /\ Ascii("mode") = 109
  /\ Ascii("put") = 112 /\ Ascii("quit") = 113 /\ Ascii("status") = 115 /\ Ascii("verbose") = 118
  BY DEF Ascii

\* The twelve commands.
LEMMA CommandList ==
  /\ ncmds = 12 /\ DOMAIN commands = 1..12
  /\ commands[1] = "?" /\ commands[2] = "ascii" /\ commands[3] = "binary" /\ commands[4] = "connect"
  /\ commands[5] = "exit" /\ commands[6] = "get" /\ commands[7] = "help" /\ commands[8] = "mode"
  /\ commands[9] = "put" /\ commands[10] = "quit" /\ commands[11] = "status" /\ commands[12] = "verbose"
  BY DEF commands, ncmds

\* Words are compared by numbers.
LEMMA AsciiInt == ASSUME NEW w PROVE Ascii(w) \in Int
  BY DEF Ascii

\* A word that no command is like is none.
LEMMA AsciiTells ==
  ASSUME NEW w, NEW i \in 1..12, Ascii(w) = Ascii(commands[i])
  PROVE  w = commands[i]
  <1>1. Ascii(w) # 110
    BY AsciiTable, CommandList
  <1>2. w \in {"?", "ascii", "binary", "connect", "exit", "get", "help", "mode", "put", "quit", "status", "verbose"}
    BY <1>1 DEF Ascii
  <1> QED
    BY <1>2, AsciiTable, CommandList

\* The table is in alphabetical order.
LEMMA Sorted == \A i, j \in 1..12 : i < j => Ascii(commands[i]) < Ascii(commands[j])
  <1>1. \A i \in 1..12 : Ascii(commands[i]) = <<63, 97, 98, 99, 101, 103, 104, 109, 112, 113, 115, 118>>[i]
    BY AsciiTable, CommandList
  <1> QED
    BY <1>1

\* A round that finds the entry, or does as well as the rounds after it.
LEMMA ProbeFinds ==
  ASSUME NEW word, NEW r \in Bounds(ncmds), NEW g,
         \A s \in Bounds(ncmds) : Left(s) < Left(r) => Found(word, s[1], s[2], g[s])
  PROVE  Found(word, r[1], r[2], Probe(g, word, r[1], r[2]))
  <1> DEFINE low == r[1]
             high == r[2]
             mid == (low + high) \div 2
  <1>1. CASE low > high
    <2>1. low..high = {}
      BY <1>1 DEF Bounds
    <2>2. Probe(g, word, low, high) = -1
      BY <1>1 DEF Probe
    <2> QED
      BY <2>1, <2>2 DEF Found
  <1>2. CASE ~(low > high)
    <2>0. low \in 0..12 /\ high \in -1..11 /\ low <= high
      BY <1>2, CommandList DEF Bounds
    <2>1. /\ mid \in 0..11 /\ low <= mid /\ mid <= high
          /\ <<low, mid - 1>> \in Bounds(ncmds) /\ Left(<<low, mid - 1>>) < Left(r)
          /\ <<mid + 1, high>> \in Bounds(ncmds) /\ Left(<<mid + 1, high>>) < Left(r)
      BY <2>0, CommandList, Narrows
    <2>2. Found(word, low, mid - 1, g[<<low, mid - 1>>]) /\ Found(word, mid + 1, high, g[<<mid + 1, high>>])
      BY <2>1
    <2>3. /\ Ascii(word) \in Int /\ Ascii(commands[mid + 1]) \in Int
          /\ strcmp(word, commands[mid + 1]) = Ascii(word) - Ascii(commands[mid + 1])
      BY AsciiInt DEF strcmp
    <2> HIDE DEF mid
    <2>m. mid = (r[1] + r[2]) \div 2
      BY DEF mid
    <2>4. CASE Ascii(word) < Ascii(commands[mid + 1])
      <3>1. Probe(g, word, low, high) = g[<<low, mid - 1>>]
        BY <2>0, <2>3, <2>4, <2>m DEF Probe
      <3>2. \A i \in mid..high : Ascii(word) < Ascii(commands[i + 1])
        <4> SUFFICES ASSUME NEW i \in mid..high PROVE Ascii(word) < Ascii(commands[i + 1])
          OBVIOUS
        <4>1. i \in 0..11 /\ i + 1 \in 1..12 /\ mid + 1 \in 1..12 /\ (i = mid \/ mid + 1 < i + 1)
          BY <2>0, <2>1
        <4>2. i = mid \/ Ascii(commands[mid + 1]) < Ascii(commands[i + 1])
          BY <4>1, Sorted
        <4> QED
          BY <4>2, <2>3, <2>4, AsciiInt
      <3>3. \A i \in mid..high : Ascii(word) # Ascii(commands[i + 1])
        BY <3>2, AsciiInt
      <3> QED
        BY <2>0, <2>1, <2>2, <3>1, <3>3 DEF Found
    <2>5. CASE Ascii(word) > Ascii(commands[mid + 1])
      <3>1. Probe(g, word, low, high) = g[<<mid + 1, high>>]
        BY <2>0, <2>3, <2>5, <2>m DEF Probe
      <3>2. \A i \in low..mid : Ascii(word) > Ascii(commands[i + 1])
        <4> SUFFICES ASSUME NEW i \in low..mid PROVE Ascii(word) > Ascii(commands[i + 1])
          OBVIOUS
        <4>1. i \in 0..11 /\ i + 1 \in 1..12 /\ mid + 1 \in 1..12 /\ (i = mid \/ i + 1 < mid + 1)
          BY <2>0, <2>1
        <4>2. i = mid \/ Ascii(commands[i + 1]) < Ascii(commands[mid + 1])
          BY <4>1, Sorted
        <4> QED
          BY <4>2, <2>3, <2>5, AsciiInt
      <3>3. \A i \in low..mid : Ascii(word) # Ascii(commands[i + 1])
        BY <3>2, AsciiInt
      <3> QED
        BY <2>0, <2>1, <2>2, <3>1, <3>3 DEF Found
    <2>6. CASE Ascii(word) = Ascii(commands[mid + 1])
      <3>1. Probe(g, word, low, high) = mid
        BY <2>0, <2>3, <2>6, <2>m DEF Probe
      <3> QED
        BY <2>0, <2>1, <2>6, <3>1 DEF Found
    <2> QED
      BY <2>3, <2>4, <2>5, <2>6
  <1> QED
    BY <1>1, <1>2

\* The search misses no command and finds nothing else.
LEMMA BinaryFinds ==
  ASSUME NEW word
  PROVE  \/ binary(word, ncmds) = -1 /\ word \notin ToSet(commands)
         \/ binary(word, ncmds) \in 0..11 /\ word = commands[binary(word, ncmds) + 1]
  <1> DEFINE g == CHOOSE g : g = [r \in Bounds(ncmds) |-> Probe(g, word, r[1], r[2])]
             S == {m \in 0..12 : \A r \in Bounds(ncmds) : Left(r) <= m => Found(word, r[1], r[2], g[r])}
  <1>0. ncmds \in Nat /\ ncmds = 12
    BY CommandList
  <1>1. g = [r \in Bounds(ncmds) |-> Probe(g, word, r[1], r[2])]
    BY <1>0, SearchExists
  <1>2. binary(word, ncmds) = g[<<0, ncmds - 1>>]
    BY DEF binary, Probe, Bounds
  <1> HIDE DEF g
  <1>3. \A r \in Bounds(ncmds) : g[r] = Probe(g, word, r[1], r[2])
    BY <1>1
  <1>4. \A r \in Bounds(ncmds) : Left(r) \in Int
    BY <1>0 DEF Bounds, Left
  <1>5. 0 \in S
    <2>1. ASSUME NEW r \in Bounds(ncmds), Left(r) <= 0
          PROVE  Found(word, r[1], r[2], g[r])
      <3>1. r[1] > r[2] /\ r[1]..r[2] = {}
        BY <2>1 DEF Bounds, Left
      <3>2. g[r] = -1
        BY <1>3, <3>1 DEF Probe
      <3> QED
        BY <3>1, <3>2 DEF Found
    <2> QED
      BY <2>1
  <1>6. ASSUME NEW m \in 1..12, m - 1 \in S
        PROVE  m \in S
    <2>1. ASSUME NEW r \in Bounds(ncmds), Left(r) <= m
          PROVE  Found(word, r[1], r[2], g[r])
      <3>1. \A s \in Bounds(ncmds) : Left(s) < Left(r) => Found(word, s[1], s[2], g[s])
        BY <1>4, <1>6, <2>1
      <3> QED
        BY <1>3, <3>1, ProbeFinds
    <2> QED
      BY <2>1
  <1>7. 12 \in S
    <2> HIDE DEF S
    <2> QED
      BY <1>5, <1>6, Induction
  <1>8. <<0, 11>> \in Bounds(ncmds) /\ Left(<<0, 11>>) <= 12
    BY <1>0 DEF Bounds, Left
  <1>9. Found(word, 0, 11, g[<<0, 11>>])
    BY <1>7, <1>8
  <1>10. binary(word, ncmds) = g[<<0, 11>>]
    BY <1>0, <1>2
  <1>11. CASE g[<<0, 11>>] = -1 /\ \A i \in 0..11 : Ascii(word) # Ascii(commands[i + 1])
    <2>1. \A i \in 1..12 : word # commands[i]
      <3> SUFFICES ASSUME NEW i \in 1..12 PROVE word # commands[i]
        OBVIOUS
      <3>1. i - 1 \in 0..11 /\ (i - 1) + 1 = i
        OBVIOUS
      <3> QED
        BY <1>11, <3>1
    <2>2. word \notin ToSet(commands)
      BY <2>1, CommandList DEF ToSet
    <2> QED
      BY <1>10, <1>11, <2>2
  <1>12. CASE g[<<0, 11>>] \in 0..11 /\ Ascii(word) = Ascii(commands[g[<<0, 11>>] + 1])
    BY <1>10, <1>12, AsciiTells
  <1> QED
    BY <1>9, <1>11, <1>12 DEF Found

-----------------------------------------------------------------------------
(* The tokens of a line. *)

WordSet == Verbs \cup Args
Chars == WordSet \cup {SP, NL, EOS}

\* The last cell that ever holds anything but a null byte.
Z == 2 * MaxArgs + 2

\* The static buffer, which every line is read into.
Buffer == line \in [1..MAXLINE -> Chars] /\ \A i \in 1..MAXLINE : i > Z => line[i] = EOS

\* The marks that separate words are different, and no words.
LEMMA Marks ==
  /\ SP # NL /\ SP # EOS /\ NL # EOS
  /\ \A w \in WordSet : ~Blank(w) /\ w # NULL
  /\ MaxArgs \in Nat /\ MAXLINE \in Nat /\ MAXLINE >= Z + 5 /\ Z \in Nat /\ Z > 1
  <1>1. SP # NL /\ SP # EOS /\ NL # EOS
    BY DEF SP, NL, EOS
  <1>2. \A w \in WordSet : ~Blank(w) /\ w # NULL
    BY CommandLineAssumption DEF WordSet, Blank
  <1>3. MaxArgs \in Nat /\ MAXLINE \in Nat /\ MAXLINE >= Z + 5 /\ Z \in Nat /\ Z > 1
    BY CommandLineAssumption DEF Z
  <1> QED
    BY <1>1, <1>2, <1>3

\* Some cell is the first of its kind.
LEMMA FirstCell ==
  ASSUME NEW B, B \subseteq 1..MAXLINE, B # {}
  PROVE  \E x \in B : \A y \in B : x <= y
  <1>1. B \subseteq Nat
    BY Marks
  <1>2. PICK x \in B : \A y \in B : ~(y < x)
    BY <1>1, LeastNumber
  <1> QED
    BY <1>1, <1>2

Start(i) == First(i, LAMBDA c : c # SP)
End(i) == First(i, Blank)

\* White space is skipped to the first cell that has none; there is one, because
\* the last cells are null bytes.
LEMMA StartFacts ==
  ASSUME Buffer, NEW i \in 1..MAXLINE
  PROVE  /\ Start(i) \in i..MAXLINE /\ line[Start(i)] # SP
         /\ \A k \in i..(Start(i) - 1) : line[k] = SP
  <1> DEFINE B == {j \in i..MAXLINE : line[j] # SP}
  <1>1. MAXLINE \in B /\ B \subseteq 1..MAXLINE
    BY Marks DEF Buffer
  <1>2. PICK x \in B : \A y \in B : x <= y
    <2> HIDE DEF B
    <2> QED
      BY <1>1, FirstCell
  <1>3. x \in i..MAXLINE /\ line[x] # SP /\ \A k \in i..(x - 1) : ~(line[k] # SP)
    <2> SUFFICES ASSUME NEW k \in i..(x - 1) PROVE line[k] = SP
      OBVIOUS
    <2> QED
      BY <1>2, Marks
  <1>4. \E j \in i..MAXLINE : line[j] # SP /\ \A k \in i..(j - 1) : ~(line[k] # SP)
    BY <1>3
  <1> QED
    BY <1>4 DEF Start, First

\* A word ends at the first blank cell.
LEMMA EndFacts ==
  ASSUME Buffer, NEW i \in 1..MAXLINE
  PROVE  /\ End(i) \in i..MAXLINE /\ Blank(line[End(i)])
         /\ \A k \in i..(End(i) - 1) : ~Blank(line[k])
  <1> DEFINE B == {j \in i..MAXLINE : Blank(line[j])}
  <1>1. MAXLINE \in B /\ B \subseteq 1..MAXLINE
    BY Marks DEF Buffer, Blank
  <1>2. PICK x \in B : \A y \in B : x <= y
    <2> HIDE DEF B
    <2> QED
      BY <1>1, FirstCell
  <1>3. x \in i..MAXLINE /\ Blank(line[x]) /\ \A k \in i..(x - 1) : ~Blank(line[k])
    <2> SUFFICES ASSUME NEW k \in i..(x - 1) PROVE ~Blank(line[k])
      OBVIOUS
    <2> QED
      BY <1>2, Marks
  <1>4. \E j \in i..MAXLINE : Blank(line[j]) /\ \A k \in i..(j - 1) : ~Blank(line[k])
    BY <1>3
  <1> QED
    BY <1>4 DEF End, First

\* What a token is, and the cell after it.
LEMMA GetToken ==
  ASSUME NEW i
  PROVE  gettoken(i) = IF line[Start(i)] \in {NL, EOS} THEN [tok |-> NULL, ptr |-> Start(i) + 1]
                       ELSE [tok |-> line[Start(i)], ptr |-> End(Start(i)) + 1]
  BY DEF gettoken, Start, End

\* A token is a word, and gettoken() goes on by one cell at a time once it is
\* behind everything that was ever written.
LEMMA TokenBounds ==
  ASSUME Buffer, NEW i \in 1..MAXLINE
  PROVE  /\ gettoken(i).tok \in WordSet \cup {NULL}
         /\ gettoken(i).ptr \in (i + 1)..(IF i > Z THEN i + 1 ELSE Z + 2)
  <1> DEFINE s == Start(i)
             e == End(s)
  <1>1. s \in i..MAXLINE /\ line[s] # SP /\ \A k \in i..(s - 1) : line[k] = SP
    BY StartFacts
  <1>2. s \in 1..MAXLINE
    BY <1>1
  <1>3. e \in s..MAXLINE /\ Blank(line[e]) /\ \A k \in s..(e - 1) : ~Blank(line[k])
    <2> HIDE DEF s
    <2> QED
      BY <1>2, EndFacts
  <1>4. gettoken(i) = IF line[s] \in {NL, EOS} THEN [tok |-> NULL, ptr |-> s + 1]
                      ELSE [tok |-> line[s], ptr |-> e + 1]
    BY GetToken
  <1> HIDE DEF s, e
  <1>5. line[s] \in WordSet \cup {NL, EOS}
    BY <1>1, <1>2 DEF Buffer, Chars
  <1>6. \A k \in 1..MAXLINE : k > Z => line[k] = EOS
    BY DEF Buffer
  <1>7. CASE i > Z
    <2>1. line[i] = EOS /\ i \in Int
      BY <1>6, <1>7
    <2>2. s = i
      <3>1. s > i => i \in i..(s - 1)
        BY <1>1
      <3> QED
        BY <1>1, <2>1, <3>1, Marks
    <2> QED
      BY <1>4, <1>7, <2>1, <2>2
  <1>8. CASE ~(i > Z)
    <2>1. i \in 1..Z /\ Z + 1 \in 1..MAXLINE /\ line[Z + 1] = EOS
      BY <1>6, <1>8, Marks
    <2>2. s <= Z + 1
      <3>1. s > Z + 1 => Z + 1 \in i..(s - 1)
        BY <1>1, <2>1, Marks
      <3> QED
        BY <1>1, <2>1, <3>1, Marks
    <2>3. e <= Z + 1
      <3>1. e > Z + 1 => Z + 1 \in s..(e - 1)
        BY <1>2, <1>3, <2>2, Marks
      <3> QED
        BY <1>2, <1>3, <2>1, <3>1, Marks DEF Blank
    <2>4. CASE line[s] \in {NL, EOS}
      BY <1>1, <1>4, <1>8, <2>1, <2>2, <2>4, Marks
    <2>5. CASE line[s] \notin {NL, EOS}
      BY <1>1, <1>3, <1>4, <1>5, <1>8, <2>1, <2>3, <2>5, Marks
    <2> QED
      BY <2>4, <2>5
  <1> QED
    BY <1>7, <1>8

\* The tokens up to the n-th one.
TokenRun(g, n) == g = [k \in 1..n |-> IF k = 1 THEN gettoken(lineptr) ELSE gettoken(g[k - 1].ptr)]

\* gettoken() can be called any number of times.
LEMMA TokensExist ==
  ASSUME NEW n \in Nat
  PROVE  \E g : TokenRun(g, n)
  <1> DEFINE S == {m \in 0..n : \E g : TokenRun(g, m)}
  <1>1. 0 \in S
    <2> DEFINE g == [k \in 1..0 |-> NULL]
    <2>1. TokenRun(g, 0)
      BY DEF TokenRun
    <2> QED
      BY <2>1
  <1>2. ASSUME NEW m \in 1..n, m - 1 \in S
        PROVE  m \in S
    <2>1. PICK g : TokenRun(g, m - 1)
      BY <1>2
    <2> DEFINE h == [k \in 1..m |-> IF k < m THEN g[k]
                                    ELSE IF k = 1 THEN gettoken(lineptr) ELSE gettoken(g[m - 1].ptr)]
    <2>2. ASSUME NEW k \in 1..m
          PROVE  h[k] = IF k = 1 THEN gettoken(lineptr) ELSE gettoken(h[k - 1].ptr)
      <3>1. CASE k < m
        <4>1. k \in 1..(m - 1) /\ h[k] = g[k] /\ (k # 1 => k - 1 \in 1..m /\ h[k - 1] = g[k - 1])
          BY <3>1
        <4>2. g[k] = IF k = 1 THEN gettoken(lineptr) ELSE gettoken(g[k - 1].ptr)
          BY <2>1, <4>1 DEF TokenRun
        <4> HIDE DEF h
        <4> QED
          BY <4>1, <4>2
      <3>2. CASE k = m
        <4>1. k # 1 => k - 1 \in 1..m /\ k - 1 < m /\ h[k - 1] = g[m - 1]
          BY <3>2
        <4>2. h[k] = IF k = 1 THEN gettoken(lineptr) ELSE gettoken(g[m - 1].ptr)
          BY <3>2
        <4> HIDE DEF h
        <4> QED
          BY <4>1, <4>2
      <3> QED
        BY <3>1, <3>2
    <2>3. h = [k \in 1..m |-> h[k]]
      OBVIOUS
    <2> HIDE DEF h
    <2>4. TokenRun(h, m)
      BY <2>2, <2>3 DEF TokenRun
    <2> QED
      BY <2>4
  <1>3. n \in S
    <2> HIDE DEF S
    <2> QED
      BY <1>1, <1>2, Induction
  <1> QED
    BY <1>3

\* Each token begins where the one before it has ended.
LEMMA TokenStep ==
  /\ Token(1) = gettoken(lineptr)
  /\ \A n \in Nat : n >= 1 => Token(n + 1) = gettoken(Token(n).ptr)
  <1> DEFINE T(n) == CHOOSE g : TokenRun(g, n)
  <1>1. ASSUME NEW n \in Nat
        PROVE  TokenRun(T(n), n)
    BY TokensExist
  <1>2. \A n : Token(n) = T(n)[n]
    BY DEF Token, TokenRun
  <1> HIDE DEF T
  <1>3. Token(1) = gettoken(lineptr)
    <2>1. TokenRun(T(1), 1)
      BY <1>1
    <2> QED
      BY <1>2, <2>1 DEF TokenRun
  <1>4. ASSUME NEW n \in Nat, n >= 1
        PROVE  Token(n + 1) = gettoken(Token(n).ptr)
    <2> DEFINE g == T(n)
               h == T(n + 1)
    <2>1. TokenRun(g, n) /\ TokenRun(h, n + 1)
      BY <1>1
    <2> HIDE DEF g, h
    <2> DEFINE S == {k \in 0..n : k = 0 \/ g[k] = h[k]}
    <2>2. ASSUME NEW k \in 1..n, k - 1 \in S
          PROVE  g[k] = h[k]
      <3>1. g[k] = IF k = 1 THEN gettoken(lineptr) ELSE gettoken(g[k - 1].ptr)
        BY <2>1 DEF TokenRun
      <3>2. h[k] = IF k = 1 THEN gettoken(lineptr) ELSE gettoken(h[k - 1].ptr)
        <4>1. k \in 1..(n + 1)
          OBVIOUS
        <4> QED
          BY <2>1, <4>1 DEF TokenRun
      <3>3. k # 1 => g[k - 1] = h[k - 1]
        BY <2>2
      <3> QED
        BY <3>1, <3>2, <3>3
    <2>3. n \in S
      <3>1. 0 \in S /\ \A k \in 1..n : k - 1 \in S => k \in S
        BY <2>2
      <3> HIDE DEF S
      <3> QED
        BY <3>1, Induction
    <2>4. g[n] = h[n]
      BY <1>4, <2>3
    <2>5. h[n + 1] = gettoken(h[n].ptr)
      <3>1. n + 1 \in 1..(n + 1) /\ n + 1 # 1 /\ (n + 1) - 1 = n
        BY <1>4
      <3> QED
        BY <2>1, <3>1 DEF TokenRun
    <2> QED
      BY <1>2, <2>4, <2>5 DEF g, h
  <1> QED
    BY <1>3, <1>4

-----------------------------------------------------------------------------
(* Lines. *)

\* A command line has words, and not more of them than the bound.
LEMMA CommandFacts ==
  ASSUME NEW ws \in Commands
  PROVE  ws \in Seq(WordSet) /\ Len(ws) \in 1..(MaxArgs + 1)
  <1>1. PICK n \in 1..(MaxArgs + 1) : ws \in [1..n -> WordSet]
    <2>1. ws \in UNION {[1..n -> WordSet] : n \in 1..(MaxArgs + 1)}
      BY DEF Commands, WordSet
    <2> QED
      BY <2>1
  <1>2. n \in Nat /\ ws \in Seq(WordSet) /\ Len(ws) = n
    BY <1>1, Marks
  <1> QED
    BY <1>1, <1>2

\* What a line the user types is made of.
LEMMA LineFacts ==
  ASSUME NEW t \in Lines
  PROVE  /\ t.words \in Seq(WordSet) /\ Len(t.words) <= MaxArgs + 1
         /\ t.ended \in BOOLEAN /\ t.cells = Cells(t.words, t.ended)
         /\ t.words = <<>> => t.ended
  <1>1. \/ \E ws \in Commands \cup {<<>>} : t = Typed(ws, TRUE)
        \/ \E ws \in Commands : t = Typed(ws, FALSE)
    BY Zenon DEF Lines
  <1>2. \A ws \in Commands \cup {<<>>} : ws \in Seq(WordSet) /\ Len(ws) <= MaxArgs + 1
    <2>1. <<>> \in Seq(WordSet) /\ Len(<<>>) <= MaxArgs + 1
      BY Marks
    <2>2. \A ws \in Commands : ws \in Seq(WordSet) /\ Len(ws) <= MaxArgs + 1
      BY CommandFacts, Marks
    <2> QED
      BY <2>1, <2>2
  <1>3. \A ws \in Commands : ws # <<>>
    BY CommandFacts
  <1>4. \A ws, nl : Typed(ws, nl).words = ws /\ Typed(ws, nl).ended = nl /\ Typed(ws, nl).cells = Cells(ws, nl)
    BY Zenon DEF Typed
  <1>5. CASE \E ws \in Commands \cup {<<>>} : t = Typed(ws, TRUE)
    <2>1. PICK ws \in Commands \cup {<<>>} : t = Typed(ws, TRUE)
      BY <1>5
    <2>2. t.words = ws /\ t.ended = TRUE /\ t.cells = Cells(ws, TRUE)
      BY <1>4, <2>1, Zenon
    <2> QED
      BY <1>2, <2>2, Zenon
  <1>6. CASE \E ws \in Commands : t = Typed(ws, FALSE)
    <2>1. PICK ws \in Commands : t = Typed(ws, FALSE)
      BY <1>6
    <2>2. t.words = ws /\ t.ended = FALSE /\ t.cells = Cells(ws, FALSE)
      BY <1>4, <2>1, Zenon
    <2> QED
      BY <1>2, <1>3, <2>2, Zenon
  <1> QED
    BY <1>1, <1>5, <1>6

\* Where the words, the blanks between them and the newline are.
CellsOf(c, ws, n, nl) ==
  /\ c \in [1..Len(c) -> Chars] /\ Len(c) \in 1..Z
  /\ Len(c) = IF n = 0 THEN 1 ELSE IF nl THEN 2 * n ELSE 2 * n - 1
  /\ \A k \in 1..n : c[2 * k - 1] = ws[k]
  /\ \A k \in 1..(n - 1) : c[2 * k] = SP
  /\ nl /\ n > 0 => c[2 * n] = NL
  /\ n = 0 => c[1] = NL

\* The cells a line takes: its words with a blank between them, and a newline.
LEMMA CellFacts ==
  ASSUME NEW ws \in Seq(WordSet), NEW nl \in BOOLEAN, Len(ws) <= MaxArgs + 1, ws = <<>> => nl
  PROVE  CellsOf(Cells(ws, nl), ws, Len(ws), nl)
  <1> DEFINE n == Len(ws)
             size == IF n = 0 THEN 1 ELSE 2 * n - (IF nl THEN 0 ELSE 1)
             c == Cells(ws, nl)
  <1>1. n \in Nat /\ MaxArgs \in Nat /\ n <= MaxArgs + 1
    BY Marks
  <1>2. size \in 1..Z
    BY <1>1 DEF Z
  <1>3. c = [i \in 1..size |-> IF i % 2 = 1 /\ i < 2 * n THEN ws[(i + 1) \div 2] ELSE IF i = size THEN NL ELSE SP]
    BY DEF Cells
  <1>4. ASSUME NEW i \in 1..size
        PROVE  c[i] \in Chars
    <2>1. i % 2 = 1 /\ i < 2 * n => (i + 1) \div 2 \in 1..n
      BY <1>1, <1>2
    <2>2. i % 2 = 1 /\ i < 2 * n => ws[(i + 1) \div 2] \in WordSet
      BY <2>1
    <2> HIDE DEF n, size
    <2> QED
      BY <1>3, <2>2 DEF Chars
  <1>5. \A k \in 1..n : 2 * k - 1 \in 1..size /\ (2 * k - 1) % 2 = 1 /\ 2 * k - 1 < 2 * n /\ ((2 * k - 1) + 1) \div 2 = k
    BY <1>1
  <1>6. \A k \in 1..(n - 1) : 2 * k \in 1..size /\ (2 * k) % 2 # 1 /\ 2 * k # size
    BY <1>1
  <1>7. nl /\ n > 0 => 2 * n = size /\ size \in 1..size /\ size % 2 # 1
    <2>1. (2 * n) % 2 # 1 /\ (n > 0 => 2 * n \in 1..(2 * n))
      BY <1>1
    <2>2. nl /\ n > 0 => size = 2 * n
      BY <1>1
    <2> HIDE DEF size
    <2> QED
      BY <2>1, <2>2
  <1>8. n = 0 => size = 1 /\ 1 \in 1..size /\ ~(1 < 2 * n)
    BY <1>1
  <1>9. size = IF n = 0 THEN 1 ELSE IF nl THEN 2 * n ELSE 2 * n - 1
    BY <1>1
  <1> HIDE DEF n, size, c
  <1>10. Len(c) = size /\ c \in [1..Len(c) -> Chars]
    <2>1. c \in [1..size -> Chars]
      BY <1>3, <1>4
    <2> QED
      BY <1>2, <2>1
  <1>11. \A k \in 1..n : c[2 * k - 1] = ws[k]
    BY <1>3, <1>5
  <1>12. \A k \in 1..(n - 1) : c[2 * k] = SP
    BY <1>3, <1>6
  <1>13. (nl /\ n > 0 => c[2 * n] = NL) /\ (n = 0 => c[1] = NL)
    BY <1>3, <1>7, <1>8
  <1> QED
    BY <1>2, <1>9, <1>10, <1>11, <1>12, <1>13 DEF n, c, CellsOf

\* The buffer holds the line t, and a null byte behind it.
Holds(t) == line[Len(t.cells) + 1] = EOS /\ \A i \in 1..Len(t.cells) : line[i] = t.cells[i]

\* Where the words are in the buffer.
LEMMA BufferFacts ==
  ASSUME Buffer, NEW t \in Lines, Holds(t)
  PROVE  LET n == Len(t.words)
         IN  /\ n \in 0..(MaxArgs + 1)
             /\ \A k \in 1..n : /\ 2 * k - 1 \in 1..MAXLINE /\ 2 * k \in 1..MAXLINE /\ line[2 * k - 1] = t.words[k]
                                /\ t.words[k] \in WordSet /\ Blank(line[2 * k])
             /\ t.ended => 2 * n + 1 \in 1..MAXLINE /\ line[2 * n + 1] \in {NL, EOS}
  <1> DEFINE n == Len(t.words)
             c == t.cells
  <1>1. /\ t.words \in Seq(WordSet) /\ n <= MaxArgs + 1
        /\ t.ended \in BOOLEAN /\ c = Cells(t.words, t.ended)
        /\ t.words = <<>> => t.ended
    BY LineFacts
  <1>2. /\ c \in [1..Len(c) -> Chars] /\ Len(c) \in 1..Z
        /\ Len(c) = IF n = 0 THEN 1 ELSE IF t.ended THEN 2 * n ELSE 2 * n - 1
        /\ \A k \in 1..n : c[2 * k - 1] = t.words[k]
        /\ \A k \in 1..(n - 1) : c[2 * k] = SP
        /\ t.ended /\ n > 0 => c[2 * n] = NL
        /\ n = 0 => c[1] = NL
    <2>1. CellsOf(c, t.words, n, t.ended)
      BY <1>1, CellFacts, Zenon
    <2> QED
      BY <2>1, Zenon DEF CellsOf
  <1>3. n \in Nat /\ (n = 0 => t.ended)
    BY <1>1
  <1>4. line[Len(c) + 1] = EOS /\ \A i \in 1..Len(c) : line[i] = c[i]
    BY DEF Holds
  <1>5. \A k \in 1..n : t.words[k] \in WordSet
    BY <1>1
  <1> HIDE DEF n, c
  <1>6. ASSUME NEW k \in 1..n
        PROVE  /\ 2 * k - 1 \in 1..MAXLINE /\ 2 * k \in 1..MAXLINE /\ line[2 * k - 1] = t.words[k]
               /\ t.words[k] \in WordSet /\ Blank(line[2 * k])
    <2>1. 2 * k - 1 \in 1..Len(c) /\ 2 * k \in 1..(Len(c) + 1) /\ Len(c) + 1 \in 1..MAXLINE
      BY <1>2, <1>3, Marks
    <2>2. line[2 * k - 1] = t.words[k]
      BY <1>2, <1>4, <2>1
    <2>3. Blank(line[2 * k])
      <3>1. CASE k < n
        <4>1. 2 * k \in 1..Len(c) /\ k \in 1..(n - 1)
          BY <1>2, <1>3, <3>1
        <4> QED
          BY <1>2, <1>4, <4>1 DEF Blank
      <3>2. CASE k = n /\ t.ended
        <4>1. 2 * k \in 1..Len(c) /\ n > 0
          BY <1>2, <1>3, <3>2
        <4> QED
          BY <1>2, <1>4, <3>2, <4>1 DEF Blank
      <3>3. CASE k = n /\ ~t.ended
        <4>1. 2 * k = Len(c) + 1
          BY <1>2, <1>3, <3>3
        <4> QED
          BY <1>4, <4>1 DEF Blank
      <3> QED
        BY <1>3, <3>1, <3>2, <3>3
    <2>4. 2 * k - 1 \in 1..MAXLINE /\ 2 * k \in 1..MAXLINE
      <3>1. Len(c) \in Nat /\ MAXLINE \in Nat
        BY <1>2, Marks
      <3>2. k \in Int /\ Len(c) <= MAXLINE - 1
        BY <2>1, <3>1
      <3> HIDE DEF Holds
      <3> QED
        BY <2>1, <3>1, <3>2
    <2>5. t.words[k] \in WordSet
      BY <1>5
    <2> QED
      BY <2>2, <2>3, <2>4, <2>5
  <1>7. ASSUME t.ended
        PROVE  2 * n + 1 \in 1..MAXLINE /\ line[2 * n + 1] \in {NL, EOS}
    <2>1. CASE n = 0
      <3>1. 1 \in 1..Len(c) /\ 2 * n + 1 = 1 /\ 1 \in 1..MAXLINE
        BY <1>2, <2>1, Marks
      <3> QED
        BY <1>2, <1>4, <2>1, <3>1
    <2>2. CASE n # 0
      <3>1. Len(c) + 1 = 2 * n + 1 /\ Len(c) + 1 \in 1..MAXLINE
        BY <1>2, <1>3, <1>7, <2>2, Marks
      <3> QED
        BY <1>4, <3>1
    <2> QED
      BY <2>1, <2>2
  <1>8. n \in 0..(MaxArgs + 1)
    BY <1>1, <1>3, Marks DEF n
  <1> QED
    BY <1>6, <1>7, <1>8 DEF n

\* gettoken() at the k-th word, and behind the last one.
LEMMA TokenAt ==
  ASSUME Buffer, NEW t \in Lines, Holds(t)
  PROVE  /\ \A k \in 1..Len(t.words) : gettoken(2 * k - 1) = [tok |-> t.words[k], ptr |-> 2 * k + 1]
         /\ t.ended => gettoken(2 * Len(t.words) + 1).tok = NULL
  <1> DEFINE n == Len(t.words)
  <1>1. /\ n \in Nat
        /\ \A k \in 1..n : /\ 2 * k - 1 \in 1..MAXLINE /\ 2 * k \in 1..MAXLINE /\ line[2 * k - 1] = t.words[k]
                           /\ t.words[k] \in WordSet /\ Blank(line[2 * k])
        /\ t.ended => 2 * n + 1 \in 1..MAXLINE /\ line[2 * n + 1] \in {NL, EOS}
    BY BufferFacts, Marks
  <1> HIDE DEF n
  <1>2. ASSUME NEW k \in 1..n
        PROVE  gettoken(2 * k - 1) = [tok |-> t.words[k], ptr |-> 2 * k + 1]
    <2> DEFINE i == 2 * k - 1
               s == Start(i)
               e == End(i)
    <2>1. /\ i \in 1..MAXLINE /\ i + 1 \in 1..MAXLINE /\ line[i] = t.words[k] /\ i + 1 = 2 * k
          /\ ~Blank(line[i]) /\ Blank(line[i + 1])
      <3>1. i + 1 = 2 * k
        BY <1>1
      <3> QED
        BY <1>1, <3>1, Marks
    <2>2. line[i] # SP /\ line[i] \notin {NL, EOS}
      BY <2>1 DEF Blank
    <2> HIDE DEF i
    <2>3. s = i
      <3>1. s \in i..MAXLINE /\ line[s] # SP /\ \A j \in i..(s - 1) : line[j] = SP
        BY <2>1, StartFacts
      <3>2. s > i => i \in i..(s - 1)
        BY <2>1, <3>1
      <3> QED
        BY <2>1, <2>2, <3>1, <3>2
    <2>4. e = i + 1
      <3>1. e \in i..MAXLINE /\ Blank(line[e]) /\ \A j \in i..(e - 1) : ~Blank(line[j])
        BY <2>1, EndFacts
      <3>2. e > i + 1 => i + 1 \in i..(e - 1)
        BY <2>1, <3>1
      <3>3. e # i
        BY <2>1, <3>1
      <3> QED
        BY <2>1, <3>1, <3>2, <3>3
    <2>5. gettoken(i) = [tok |-> line[i], ptr |-> (i + 1) + 1]
      BY <2>2, <2>3, <2>4, GetToken
    <2>6. (i + 1) + 1 = 2 * k + 1
      BY <1>1, <2>1
    <2> QED
      BY <2>1, <2>5, <2>6 DEF i
  <1>3. ASSUME t.ended
        PROVE  gettoken(2 * n + 1).tok = NULL
    <2> DEFINE i == 2 * n + 1
               s == Start(i)
    <2>1. i \in 1..MAXLINE /\ line[i] \in {NL, EOS}
      BY <1>1, <1>3
    <2> HIDE DEF i
    <2>2. s = i
      <3>1. s \in i..MAXLINE /\ line[s] # SP /\ \A j \in i..(s - 1) : line[j] = SP
        BY <2>1, StartFacts
      <3>2. s > i => i \in i..(s - 1)
        BY <2>1, <3>1
      <3>3. line[i] # SP
        BY <2>1, Marks
      <3> QED
        BY <2>1, <3>1, <3>2, <3>3
    <2> QED
      BY <2>1, <2>2, GetToken DEF i
  <1> QED
    BY <1>2, <1>3 DEF n

\* The tokens of a line that has just been read are its words.
LEMMA TokensOfLine ==
  ASSUME Buffer, NEW t \in Lines, Holds(t), lineptr = 1
  PROVE  /\ \A k \in 1..Len(t.words) : Token(k).tok = t.words[k]
         /\ t.ended => Token(Len(t.words) + 1).tok = NULL
  <1> DEFINE n == Len(t.words)
             S == {k \in 0..n : k = 0 \/ Token(k) = [tok |-> t.words[k], ptr |-> 2 * k + 1]}
  <1>1. n \in Nat
    BY BufferFacts, Marks
  <1>2. \A k \in 1..n : gettoken(2 * k - 1) = [tok |-> t.words[k], ptr |-> 2 * k + 1]
    BY TokenAt
  <1>3. t.ended => gettoken(2 * n + 1).tok = NULL
    BY TokenAt
  <1> HIDE DEF n
  <1>4. ASSUME NEW k \in 1..n, k - 1 \in S
        PROVE  Token(k) = gettoken(2 * k - 1)
    <2>1. CASE k = 1
      <3>1. 2 * k - 1 = 1
        BY <2>1
      <3> QED
        BY <2>1, <3>1, TokenStep
    <2>2. CASE k # 1
      <3>1. k - 1 \in Nat /\ k - 1 >= 1 /\ (k - 1) + 1 = k /\ 2 * (k - 1) + 1 = 2 * k - 1 /\ k - 1 # 0
        BY <2>2
      <3>2. Token(k - 1).ptr = 2 * (k - 1) + 1
        BY <1>4, <3>1
      <3>3. Token((k - 1) + 1) = gettoken(Token(k - 1).ptr)
        BY <3>1, TokenStep
      <3> QED
        BY <3>1, <3>2, <3>3
    <2> QED
      BY <2>1, <2>2
  <1>5. \A k \in 0..n : k \in S
    <2>1. 0 \in S
      BY <1>1
    <2>2. ASSUME NEW k \in 1..n, k - 1 \in S
          PROVE  k \in S
      <3>1. Token(k) = gettoken(2 * k - 1)
        BY <1>4, <2>2
      <3>2. Token(k) = [tok |-> t.words[k], ptr |-> 2 * k + 1] /\ k \in 0..n
        BY <1>2, <3>1
      <3> QED
        BY <3>2
    <2> HIDE DEF S
    <2> QED
      BY <1>1, <2>1, <2>2, Induction
  <1>6. \A k \in 1..n : Token(k) = [tok |-> t.words[k], ptr |-> 2 * k + 1]
    BY <1>5
  <1>7. ASSUME t.ended
        PROVE  Token(n + 1).tok = NULL
    <2>1. CASE n = 0
      <3>1. n + 1 = 1 /\ 2 * n + 1 = 1
        BY <2>1
      <3> QED
        BY <1>3, <1>7, <3>1, TokenStep
    <2>2. CASE n # 0
      <3>1. n \in 1..n /\ n >= 1
        BY <1>1, <2>2
      <3>2. Token(n).ptr = 2 * n + 1
        BY <1>6, <3>1
      <3> QED
        BY <1>1, <1>3, <1>7, <3>1, <3>2, TokenStep
    <2> QED
      BY <2>1, <2>2
  <1> QED
    BY <1>6, <1>7 DEF n

\* The first tokens, whatever the buffer holds.
LEMMA FirstTokens ==
  ASSUME Buffer, lineptr = 1
  PROVE  \A k \in 1..4 : Token(k).tok \in WordSet \cup {NULL} /\ Token(k).ptr \in 1..MAXLINE
  <1>0. Z \in Nat /\ MAXLINE \in Nat /\ MAXLINE >= Z + 5 /\ 1 \in 1..MAXLINE /\ ~(1 > Z)
    BY Marks
  <1>1. Token(1).tok \in WordSet \cup {NULL} /\ Token(1).ptr \in 1..(Z + 2)
    <2>1. Token(1) = gettoken(1)
      BY TokenStep
    <2>2. gettoken(1).tok \in WordSet \cup {NULL} /\ gettoken(1).ptr \in (1 + 1)..(IF 1 > Z THEN 1 + 1 ELSE Z + 2)
      BY <1>0, TokenBounds
    <2> QED
      BY <1>0, <2>1, <2>2
  <1>2. ASSUME NEW k \in 1..3, Token(k).ptr \in 1..(Z + 1 + k)
        PROVE  Token(k + 1).tok \in WordSet \cup {NULL} /\ Token(k + 1).ptr \in 1..(Z + 1 + (k + 1))
    <2> DEFINE i == Token(k).ptr
    <2>1. Token(k + 1) = gettoken(i)
      BY TokenStep
    <2>2. i \in 1..MAXLINE /\ i \in 1..(Z + 1 + k)
      BY <1>0, <1>2
    <2> HIDE DEF i
    <2>3. gettoken(i).tok \in WordSet \cup {NULL} /\ gettoken(i).ptr \in (i + 1)..(IF i > Z THEN i + 1 ELSE Z + 2)
      BY <2>2, TokenBounds
    <2> QED
      BY <1>0, <2>1, <2>2, <2>3
  <1>3. Token(2).tok \in WordSet \cup {NULL} /\ Token(2).ptr \in 1..(Z + 3)
    <2>1. 1 \in 1..3 /\ 1 + 1 = 2 /\ Z + 1 + 1 = Z + 2 /\ Z + 1 + 2 = Z + 3
      BY <1>0
    <2> QED
      BY <1>1, <1>2, <2>1
  <1>4. Token(3).tok \in WordSet \cup {NULL} /\ Token(3).ptr \in 1..(Z + 4)
    <2>1. 2 \in 1..3 /\ 2 + 1 = 3 /\ Z + 1 + 2 = Z + 3 /\ Z + 1 + 3 = Z + 4
      BY <1>0
    <2> QED
      BY <1>2, <1>3, <2>1
  <1>5. Token(4).tok \in WordSet \cup {NULL} /\ Token(4).ptr \in 1..(Z + 5)
    <2>1. 3 \in 1..3 /\ 3 + 1 = 4 /\ Z + 1 + 3 = Z + 4 /\ Z + 1 + 4 = Z + 5
      BY <1>0
    <2> QED
      BY <1>2, <1>4, <2>1
  <1>6. ASSUME NEW k \in 1..4
        PROVE  Token(k).tok \in WordSet \cup {NULL} /\ Token(k).ptr \in 1..MAXLINE
    <2>1. k = 1 \/ k = 2 \/ k = 3 \/ k = 4
      OBVIOUS
    <2> QED
      BY <1>0, <1>1, <1>3, <1>4, <1>5, <2>1
  <1> QED
    BY <1>6

-----------------------------------------------------------------------------
(* The inductive invariant. *)

SettingsOK ==
  /\ hostname \in {NULL} \cup Verbs \cup Args
  /\ port \in {0, 7} /\ modetype \in ModeWords /\ verboseflag \in BOOLEAN

LineOK ==
  /\ pc \in {"prompt", "docmd", "done", "exit"} /\ lineptr \in 1..MAXLINE
  /\ Buffer
  /\ typed \in Lines \cup {None}
  /\ pc = "docmd" => lineptr = 1 /\ typed \in Lines /\ Holds(typed)
  /\ pc = "done" => typed \in Lines
  /\ ArgsTyped /\ NothingUnread /\ UnknownIsUnknown

LineInv == LineOK /\ SettingsOK

\* The first tokens of a line that has been read.
LEMMA LineRead ==
  ASSUME LineInv, pc = "docmd"
  PROVE  /\ typed \in Lines /\ typed.words \in Seq(WordSet)
         /\ \A k \in 1..4 : Token(k).tok \in WordSet \cup {NULL} /\ Token(k).ptr \in 1..MAXLINE
         /\ \A k \in 1..Len(typed.words) : Token(k).tok = typed.words[k] /\ Token(k).tok # NULL
         /\ typed.ended => Token(Len(typed.words) + 1).tok = NULL
         /\ typed.words = <<>> <=> Token(1).tok = NULL
         /\ typed.words # <<>> => Head(typed.words) = Token(1).tok
  <1>1. Buffer /\ lineptr = 1 /\ typed \in Lines /\ Holds(typed)
    BY DEF LineInv, LineOK
  <1>2. typed.words \in Seq(WordSet) /\ (typed.words = <<>> => typed.ended)
    BY <1>1, LineFacts
  <1>3. \A k \in 1..4 : Token(k).tok \in WordSet \cup {NULL} /\ Token(k).ptr \in 1..MAXLINE
    BY <1>1, FirstTokens
  <1>4. /\ \A k \in 1..Len(typed.words) : Token(k).tok = typed.words[k]
        /\ typed.ended => Token(Len(typed.words) + 1).tok = NULL
    BY <1>1, TokensOfLine
  <1>5. \A k \in 1..Len(typed.words) : Token(k).tok # NULL
    BY <1>2, <1>4, Marks
  <1>6. CASE typed.words = <<>>
    <2>1. Len(typed.words) + 1 = 1
      BY <1>6
    <2>2. Token(1).tok = NULL
      BY <1>2, <1>4, <1>6, <2>1
    <2> QED
      BY <1>1, <1>2, <1>3, <1>4, <1>5, <1>6, <2>2
  <1>7. CASE typed.words # <<>>
    <2>1. 1 \in 1..Len(typed.words) /\ Head(typed.words) = typed.words[1]
      BY <1>2, <1>7
    <2>2. Token(1).tok # NULL /\ Token(1).tok = Head(typed.words)
      BY <1>4, <1>5, <2>1
    <2> QED
      BY <1>1, <1>2, <1>3, <1>4, <1>5, <1>7, <2>2
  <1> QED
    BY <1>6, <1>7

\* What a command has got are words of its line, from the second on, and all of
\* them if no token is left.
LEMMA TakenTyped ==
  ASSUME LineInv, pc = "docmd", NEW n \in 1..3, Token(1).tok # NULL,
         \A j \in 1..(n - 1) : Token(j).tok # NULL, typed.ended
  PROVE  /\ IsPrefix(Taken(n), Tail(typed.words))
         /\ Token(n + 1).tok = NULL => Taken(n) = Tail(typed.words)
  <1> DEFINE ws == typed.words
             m == Len(ws)
             len == IF Token(n).tok = NULL THEN n - 2 ELSE n - 1
             tail == Tail(ws)
  <1>1. /\ ws \in Seq(WordSet) /\ ws # <<>>
        /\ \A k \in 1..m : Token(k).tok = ws[k] /\ Token(k).tok # NULL
        /\ Token(m + 1).tok = NULL
    BY LineRead
  <1>2. m \in Nat /\ m >= 1 /\ len \in 0..2
    BY <1>1
  <1>3. tail \in Seq(WordSet) /\ Len(tail) = m - 1 /\ \A k \in 1..(m - 1) : tail[k] = ws[k + 1]
    BY <1>1, <1>2
  <1>4. len <= m - 1
    <2>1. m + 1 >= n
      BY <1>1, <1>2
    <2>2. Token(n).tok # NULL => m >= n
      <3>1. m + 1 = n => Token(n).tok = NULL
        BY <1>1
      <3> QED
        BY <1>2, <2>1, <3>1
    <2> QED
      BY <1>2, <2>1, <2>2
  <1>5. Token(n + 1).tok = NULL => len = m - 1
    <2>1. Token(n).tok = NULL => m < n
      BY <1>1, <1>2
    <2>2. Token(n + 1).tok = NULL => m < n + 1
      BY <1>1, <1>2
    <2> QED
      BY <1>2, <1>4, <2>1, <2>2
  <1>6. Taken(n) = [k \in 1..len |-> Token(k + 1).tok]
    BY DEF Taken
  <1> HIDE DEF ws, m, len, tail
  <1>7. Taken(n) = [k \in 1..len |-> tail[k]]
    <2>1. \A k \in 1..len : k + 1 \in 1..m /\ k \in 1..(m - 1)
      BY <1>2, <1>4
    <2>2. \A k \in 1..len : Token(k + 1).tok = tail[k]
      BY <1>1, <1>3, <2>1
    <2> QED
      BY <1>6, <2>2
  <1>8. Taken(n) \in Seq(WordSet) /\ Len(Taken(n)) = len /\ \A k \in 1..len : Taken(n)[k] = tail[k]
    <2>1. \A k \in 1..len : tail[k] \in WordSet
      BY <1>2, <1>3, <1>4
    <2> QED
      BY <1>2, <1>7, <2>1
  <1>9. IsPrefix(Taken(n), tail)
    <2>1. SubSeq(Taken(n), 1, len) = [k \in 1..len |-> tail[k]] /\ SubSeq(tail, 1, len) = [k \in 1..len |-> tail[k]]
      BY <1>2, <1>3, <1>4, <1>8
    <2> QED
      BY <1>2, <1>3, <1>4, <1>8, <2>1 DEF IsPrefix
  <1>10. Token(n + 1).tok = NULL => Taken(n) = tail
    <2> SUFFICES ASSUME Token(n + 1).tok = NULL
                 PROVE  Taken(n) = tail
      OBVIOUS
    <2>1. len = Len(tail) /\ tail = [k \in 1..Len(tail) |-> tail[k]]
      BY <1>2, <1>3, <1>5
    <2> QED
      BY <1>7, <2>1
  <1> QED
    BY <1>9, <1>10 DEF ws, tail

\* When a command ends, in whichever way, what it has got is known.
LEMMA CommandEnds ==
  ASSUME LineInv, pc = "docmd", UNCHANGED <<line, typed>>, pc' \in {"done", "exit"},
         NEW n \in 1..3, NEW k \in {n, n + 1}, lineptr' = Token(k).ptr, args' = Taken(n),
         Token(1).tok # NULL, \A j \in 1..(n - 1) : Token(j).tok # NULL,
         result' = "ok" => Token(n + 1).tok = NULL,
         result' = "unknown" <=> Token(1).tok \notin ToSet(commands)
  PROVE  LineOK'
  <1>1. /\ typed \in Lines /\ typed.words # <<>> /\ Head(typed.words) = Token(1).tok
        /\ \A j \in 1..4 : Token(j).ptr \in 1..MAXLINE
    BY LineRead
  <1>2. Buffer'
    BY DEF LineInv, LineOK, Buffer
  <1>3. typed' \in Lines /\ pc' \in {"prompt", "docmd", "done", "exit"} /\ pc' # "docmd"
    BY <1>1
  <1>4. lineptr' \in 1..MAXLINE
    <2>1. k \in 1..4
      OBVIOUS
    <2> QED
      BY <1>1, <2>1
  <1>5. ArgsTyped' /\ NothingUnread'
    BY TakenTyped DEF ArgsTyped, NothingUnread
  <1>6. UnknownIsUnknown'
    BY <1>1 DEF UnknownIsUnknown
  <1> QED
    BY <1>2, <1>3, <1>4, <1>5, <1>6 DEF LineOK

\* The ways a command ends that goes through checkend(), or ends the client.
LEMMA Endings ==
  ASSUME LineInv, pc = "docmd", Token(1).tok \in ToSet(commands), NEW n \in 1..3,
         Token(1).tok # NULL, \A j \in 1..(n - 1) : Token(j).tok # NULL
  PROVE  /\ checkend(n) => LineOK'
         /\ err_quit(n) => LineOK'
  <1>1. checkend(n) => LineOK'
    <2> SUFFICES ASSUME checkend(n)
                 PROVE  LineOK'
      OBVIOUS
    <2>1. /\ pc' \in {"done", "exit"} /\ lineptr' = Token(n + 1).ptr /\ args' = Taken(n)
          /\ UNCHANGED <<line, typed>> /\ (result' = "ok" => Token(n + 1).tok = NULL) /\ result' # "unknown"
      BY DEF checkend
    <2>2. n + 1 \in {n, n + 1}
      OBVIOUS
    <2> QED
      BY <2>1, <2>2, CommandEnds
  <1>2. err_quit(n) => LineOK'
    <2> SUFFICES ASSUME err_quit(n)
                 PROVE  LineOK'
      OBVIOUS
    <2>1. /\ pc' \in {"done", "exit"} /\ lineptr' = Token(n).ptr /\ args' = Taken(n)
          /\ UNCHANGED <<line, typed>> /\ result' # "ok" /\ result' # "unknown"
      BY DEF err_quit
    <2>2. n \in {n, n + 1}
      OBVIOUS
    <2> QED
      BY <2>1, <2>2, CommandEnds
  <1> QED
    BY <1>1, <1>2

\* The other errors.
LEMMA ErrorEnds ==
  ASSUME LineInv, pc = "docmd", Token(1).tok \in ToSet(commands), NEW n \in 1..3,
         Token(1).tok # NULL, \A j \in 1..(n - 1) : Token(j).tok # NULL,
         pc' = "done", lineptr' = Token(n).ptr, args' = Taken(n), UNCHANGED <<line, typed>>,
         result' # "ok", result' # "unknown"
  PROVE  LineOK'
  <1>1. pc' \in {"done", "exit"}
    OBVIOUS
  <1>2. n \in {n, n + 1}
    OBVIOUS
  <1> QED
    BY <1>1, <1>2, CommandEnds

\* A command is called only by its name.
LEMMA CalledFacts ==
  ASSUME LineInv, NEW names, Called(names), NULL \notin names
  PROVE  pc = "docmd" /\ Token(1).tok \in ToSet(commands) /\ Token(1).tok \in names /\ Token(1).tok # NULL
  <1> DEFINE w == Token(1).tok
             i == binary(w, ncmds)
  <1>1. pc = "docmd" /\ i >= 0 /\ commands[i + 1] \in names
    BY DEF Called
  <1>2. \/ i = -1 /\ w \notin ToSet(commands)
        \/ i \in 0..11 /\ w = commands[i + 1]
    BY BinaryFinds
  <1> HIDE DEF w, i
  <1>3. i \in 0..11 /\ w = commands[i + 1]
    BY <1>1, <1>2
  <1>4. i + 1 \in 1..12 /\ DOMAIN commands = 1..12
    BY <1>3, CommandList
  <1>5. w \in ToSet(commands)
    BY <1>3, <1>4 DEF ToSet
  <1> QED
    BY <1>1, <1>3, <1>5 DEF w

-----------------------------------------------------------------------------
(* One lemma for each action. *)

LEMMA InitLine == Init => LineInv
  <1> SUFFICES ASSUME Init
               PROVE  LineInv
    OBVIOUS
  <1>1. pc = "prompt" /\ lineptr = 1 /\ typed = None
    BY DEF Init
  <1>2. Buffer
    BY Marks DEF Init, Buffer, Chars
  <1>3. SettingsOK
    BY DEF Init, SettingsOK, ModeWords
  <1>4. LineOK
    BY <1>1, <1>2, Marks DEF LineOK, ArgsTyped, NothingUnread, UnknownIsUnknown
  <1> QED
    BY <1>3, <1>4 DEF LineInv

\* fgets() writes the line over the buffer, and a null byte behind it.
LEMMA GetLine == ASSUME LineInv, NEW t \in Lines, get_line(t) PROVE LineInv'
  <1> DEFINE c == t.cells
  <1>1. /\ pc' = "docmd" /\ lineptr' = 1 /\ typed' = t /\ UNCHANGED settings
        /\ line' = [i \in 1..MAXLINE |-> IF i <= Len(c) THEN c[i] ELSE IF i = Len(c) + 1 THEN EOS ELSE line[i]]
    BY DEF get_line
  <1>2. /\ t.words \in Seq(WordSet) /\ Len(t.words) <= MaxArgs + 1
        /\ t.ended \in BOOLEAN /\ c = Cells(t.words, t.ended) /\ (t.words = <<>> => t.ended)
    BY LineFacts
  <1>3. c \in [1..Len(c) -> Chars] /\ Len(c) \in 1..Z
    <2>1. CellsOf(c, t.words, Len(t.words), t.ended)
      BY <1>2, CellFacts, Zenon
    <2> QED
      BY <2>1, Zenon DEF CellsOf
  <1>4. line \in [1..MAXLINE -> Chars] /\ \A i \in 1..MAXLINE : i > Z => line[i] = EOS
    BY DEF LineInv, LineOK, Buffer
  <1> HIDE DEF c
  <1>5. Buffer'
    <2>1. line' \in [1..MAXLINE -> Chars]
      BY <1>1, <1>3, <1>4, Marks DEF Chars
    <2>2. \A i \in 1..MAXLINE : i > Z => line'[i] = EOS
      BY <1>1, <1>3, <1>4, Marks
    <2> QED
      BY <2>1, <2>2 DEF Buffer
  <1>6. Holds(t)'
    <2>1. Len(c) + 1 \in 1..MAXLINE /\ \A i \in 1..Len(c) : i \in 1..MAXLINE
      BY <1>3, Marks
    <2>2. line'[Len(c) + 1] = EOS /\ \A i \in 1..Len(c) : line'[i] = c[i]
      BY <1>1, <1>3, <2>1, Marks
    <2> QED
      BY <2>2 DEF Holds, c
  <1>7. SettingsOK'
    BY <1>1 DEF LineInv, SettingsOK, settings
  <1>8. Holds(typed)'
    BY <1>1, <1>6 DEF Holds
  <1>9. LineOK'
    BY <1>1, <1>5, <1>8, Marks DEF LineOK, ArgsTyped, NothingUnread, UnknownIsUnknown
  <1> QED
    BY <1>7, <1>9 DEF LineInv

\* A line without words keeps the invariant.
LEMMA EmptyLine == ASSUME LineInv, empty_line PROVE LineInv'
  <1>1. /\ pc = "docmd" /\ Token(1).tok = NULL /\ pc' = "done" /\ result' = "ok"
        /\ lineptr' = Token(1).ptr /\ UNCHANGED <<line, typed>> /\ UNCHANGED settings
    BY DEF empty_line
  <1>2. typed \in Lines /\ typed.words = <<>> /\ Token(1).ptr \in 1..MAXLINE
    BY <1>1, LineRead
  <1>3. Buffer'
    BY <1>1 DEF LineInv, LineOK, Buffer
  <1>4. SettingsOK'
    BY <1>1 DEF LineInv, SettingsOK, settings
  <1>5. LineOK'
    BY <1>1, <1>2, <1>3 DEF LineOK, ArgsTyped, NothingUnread, UnknownIsUnknown
  <1> QED
    BY <1>4, <1>5 DEF LineInv

\* So does a word that is no command.
LEMMA UnknownCommand == ASSUME LineInv, unknown_command PROVE LineInv'
  <1>1. /\ pc = "docmd" /\ Token(1).tok # NULL /\ binary(Token(1).tok, ncmds) = -1
        /\ err_cmd(1, "unknown") /\ UNCHANGED settings
    BY DEF unknown_command
  <1>2. Token(1).tok \notin ToSet(commands)
    BY <1>1, BinaryFinds
  <1>3. /\ pc' \in {"done", "exit"} /\ lineptr' = Token(1).ptr /\ args' = Taken(1)
        /\ UNCHANGED <<line, typed>> /\ result' = "unknown"
    BY <1>1 DEF err_cmd
  <1>4. LineOK'
    <2>1. 1 \in 1..3 /\ 1 \in {1, 1 + 1} /\ \A j \in 1..(1 - 1) : Token(j).tok # NULL
      OBVIOUS
    <2> QED
      BY <1>1, <1>2, <1>3, <2>1, CommandEnds
  <1>5. SettingsOK'
    BY <1>1 DEF LineInv, SettingsOK, settings
  <1> QED
    BY <1>4, <1>5 DEF LineInv

\* connect keeps it,
LEMMA Connect == ASSUME LineInv, cmd_connect PROVE LineInv'
  <1>1. Called({"connect"}) /\ UNCHANGED <<modetype, verboseflag>>
    BY DEF cmd_connect
  <1>2. /\ pc = "docmd" /\ Token(1).tok \in ToSet(commands) /\ Token(1).tok # NULL
        /\ \A k \in 1..4 : Token(k).tok \in WordSet \cup {NULL}
    BY <1>1, CalledFacts, LineRead DEF NULL
  <1>3. CASE Token(2).tok = NULL
    <2>1. err_cmd(2, "missing hostname") /\ UNCHANGED <<hostname, port>>
      BY <1>3 DEF cmd_connect
    <2>2. \A j \in 1..(2 - 1) : Token(j).tok # NULL
      BY <1>2
    <2>3. /\ pc' = "done" /\ lineptr' = Token(2).ptr /\ args' = Taken(2) /\ UNCHANGED <<line, typed>>
          /\ result' # "ok" /\ result' # "unknown"
      BY <2>1 DEF err_cmd
    <2>4. LineOK'
      BY <1>2, <2>2, <2>3, ErrorEnds
    <2> QED
      BY <1>1, <2>1, <2>4 DEF LineInv, SettingsOK
  <1>4. CASE Token(2).tok # NULL
    <2>1. hostname' = Token(2).tok
      BY <1>4 DEF cmd_connect
    <2>2. \A j \in 1..(3 - 1) : Token(j).tok # NULL
      BY <1>2, <1>4
    <2>3. hostname' \in {NULL} \cup Verbs \cup Args
      BY <1>2, <2>1 DEF WordSet
    <2>4. CASE err_cmd(3, "invalid port number") /\ UNCHANGED port
      <3>1. /\ pc' = "done" /\ lineptr' = Token(3).ptr /\ args' = Taken(3) /\ UNCHANGED <<line, typed>>
            /\ result' # "ok" /\ result' # "unknown"
        BY <2>4 DEF err_cmd
      <3>2. 3 \in 1..3
        OBVIOUS
      <3>3. LineOK'
        BY <1>2, <2>2, <3>1, <3>2, ErrorEnds, Zenon
      <3> QED
        BY <1>1, <2>3, <2>4, <3>3 DEF LineInv, SettingsOK
    <2>5. CASE /\ port' = (IF Token(3).tok = NULL THEN port ELSE atoi(Token(3).tok)) /\ checkend(3)
               /\ ~(Token(3).tok # NULL /\ atoi(Token(3).tok) < 0)
      <3>1. LineOK'
        BY <1>2, <2>2, <2>5, Endings
      <3>2. port' \in {0, 7}
        BY <2>5 DEF atoi, LineInv, SettingsOK
      <3> QED
        BY <1>1, <2>3, <3>1, <3>2 DEF LineInv, SettingsOK
    <2> QED
      BY <1>4, <2>4, <2>5 DEF cmd_connect
  <1> QED
    BY <1>3, <1>4

\* cmd_get() and cmd_put() end in the same ways.
LEMMA TransferEnds ==
  ASSUME LineInv, NEW op, NEW rem, NEW loc, rem = Token(2).tok \/ rem = Token(3).tok,
         pc = "docmd", Token(1).tok \in ToSet(commands), Token(1).tok # NULL,
         Transfer(op, rem, loc), UNCHANGED <<port, modetype, verboseflag>>
  PROVE  LineInv'
  <1>1. /\ \A k \in 1..4 : Token(k).tok \in WordSet \cup {NULL}
        /\ hostname \in {NULL} \cup WordSet
    BY LineRead DEF LineInv, SettingsOK, WordSet
  <1>2. rem \in WordSet \cup {NULL}
    BY <1>1
  <1>3. CASE Token(2).tok = NULL
    <2>1. err_cmd(2, "missing filename") /\ UNCHANGED hostname
      BY <1>3 DEF Transfer
    <2>2. \A j \in 1..(2 - 1) : Token(j).tok # NULL
      OBVIOUS
    <2>3. /\ pc' = "done" /\ lineptr' = Token(2).ptr /\ args' = Taken(2) /\ UNCHANGED <<line, typed>>
          /\ result' # "ok" /\ result' # "unknown"
      BY <2>1 DEF err_cmd
    <2>4. LineOK'
      BY <2>2, <2>3, ErrorEnds
    <2> QED
      BY <2>1, <2>4 DEF LineInv, SettingsOK
  <1>4. CASE Token(2).tok # NULL
    <2>0. 3 \in 1..3
      OBVIOUS
    <2>1. \A j \in 1..(3 - 1) : Token(j).tok # NULL
      BY <1>4
    <2>2. (checkend(3) => LineOK') /\ (err_quit(3) => LineOK')
      BY <2>1, Endings
    <2>a. ASSUME NEW why \in {"missing filename", "host in local filename", "no host", "interrupted"}, err_cmd(3, why)
          PROVE  LineOK'
      <3>1. /\ pc' = "done" /\ lineptr' = Token(3).ptr /\ args' = Taken(3) /\ UNCHANGED <<line, typed>>
            /\ result' # "ok" /\ result' # "unknown"
        BY <2>a DEF err_cmd
      <3> QED
        BY <2>0, <2>1, <3>1, ErrorEnds, Zenon
    <2>3. \/ err_cmd(3, "missing filename") /\ UNCHANGED hostname
          \/ err_cmd(3, "host in local filename") /\ UNCHANGED hostname
          \/ hostname' = striphost(rem).host /\ err_cmd(3, "no host")
          \/ hostname' = striphost(rem).host /\ (checkend(3) \/ err_cmd(3, "interrupted") \/ err_quit(3))
      BY <1>4, Zenon DEF Transfer
    <2>4. hostname' \in {NULL} \cup WordSet
      BY <1>1, <1>2, <2>3 DEF striphost
    <2>5. LineOK'
      <3>1. CASE checkend(3) \/ err_quit(3)
        BY <2>2, <3>1
      <3>2. CASE \E why \in {"missing filename", "host in local filename", "no host", "interrupted"} : err_cmd(3, why)
        BY <2>a, <3>2
      <3> QED
        BY <2>3, <3>1, <3>2, Zenon
    <2> QED
      BY <2>4, <2>5 DEF LineInv, SettingsOK, WordSet
  <1> QED
    BY <1>3, <1>4

\* get,
LEMMA Get == ASSUME LineInv, cmd_get PROVE LineInv'
  <1>1. Called({"get"}) /\ Transfer("get", Token(2).tok, Token(3).tok) /\ UNCHANGED <<port, modetype, verboseflag>>
    BY DEF cmd_get
  <1>2. pc = "docmd" /\ Token(1).tok \in ToSet(commands) /\ Token(1).tok # NULL
    BY <1>1, CalledFacts DEF NULL
  <1> QED
    BY <1>1, <1>2, TransferEnds

\* put,
LEMMA Put == ASSUME LineInv, cmd_put PROVE LineInv'
  <1>1. Called({"put"}) /\ Transfer("put", Token(3).tok, Token(2).tok) /\ UNCHANGED <<port, modetype, verboseflag>>
    BY DEF cmd_put
  <1>2. pc = "docmd" /\ Token(1).tok \in ToSet(commands) /\ Token(1).tok # NULL
    BY <1>1, CalledFacts DEF NULL
  <1> QED
    BY <1>1, <1>2, TransferEnds

\* mode,
LEMMA Mode == ASSUME LineInv, cmd_mode PROVE LineInv'
  <1>1. Called({"mode"}) /\ UNCHANGED <<hostname, port, verboseflag>>
    BY DEF cmd_mode
  <1>2. pc = "docmd" /\ Token(1).tok \in ToSet(commands) /\ Token(1).tok # NULL
    BY <1>1, CalledFacts DEF NULL
  <1>3. \/ checkend(2) /\ modetype' \in ModeWords
        \/ err_cmd(2, "mode must be ascii or binary") /\ modetype' = modetype
    BY DEF cmd_mode
  <1>4. \A j \in 1..(2 - 1) : Token(j).tok # NULL
    BY <1>2
  <1>5. LineOK'
    <2>1. CASE checkend(2)
      BY <1>2, <1>4, <2>1, Endings
    <2>2. CASE err_cmd(2, "mode must be ascii or binary")
      <3>1. /\ pc' = "done" /\ lineptr' = Token(2).ptr /\ args' = Taken(2) /\ UNCHANGED <<line, typed>>
            /\ result' # "ok" /\ result' # "unknown"
        BY <2>2 DEF err_cmd
      <3> QED
        BY <1>2, <1>4, <3>1, ErrorEnds
    <2> QED
      BY <1>3, <2>1, <2>2
  <1>6. SettingsOK'
    BY <1>1, <1>3 DEF LineInv, SettingsOK
  <1> QED
    BY <1>5, <1>6 DEF LineInv

\* ascii and binary,
LEMMA AsciiBinary == ASSUME LineInv, cmd_ascii PROVE LineInv'
  <1>1. Called({"ascii", "binary"}) /\ modetype' = Token(1).tok /\ checkend(1) /\ UNCHANGED <<hostname, port, verboseflag>>
    BY DEF cmd_ascii
  <1>2. pc = "docmd" /\ Token(1).tok \in ToSet(commands) /\ Token(1).tok \in {"ascii", "binary"} /\ Token(1).tok # NULL
    BY <1>1, CalledFacts DEF NULL
  <1>3. \A j \in 1..(1 - 1) : Token(j).tok # NULL
    OBVIOUS
  <1>4. LineOK'
    BY <1>1, <1>2, <1>3, Endings
  <1>5. SettingsOK'
    BY <1>1, <1>2 DEF LineInv, SettingsOK, ModeWords
  <1> QED
    BY <1>4, <1>5 DEF LineInv

\* verbose,
LEMMA Verbose == ASSUME LineInv, cmd_verbose PROVE LineInv'
  <1>1. Called({"verbose"}) /\ verboseflag' = ~verboseflag /\ checkend(1) /\ UNCHANGED <<hostname, port, modetype>>
    BY DEF cmd_verbose
  <1>2. pc = "docmd" /\ Token(1).tok \in ToSet(commands) /\ Token(1).tok # NULL
    BY <1>1, CalledFacts DEF NULL
  <1>3. \A j \in 1..(1 - 1) : Token(j).tok # NULL
    OBVIOUS
  <1>4. LineOK'
    BY <1>1, <1>2, <1>3, Endings
  <1>5. SettingsOK'
    BY <1>1 DEF LineInv, SettingsOK
  <1> QED
    BY <1>4, <1>5 DEF LineInv

\* status and help,
LEMMA Status == ASSUME LineInv, cmd_status PROVE LineInv'
  <1>1. Called({"?", "help", "status"}) /\ checkend(1) /\ UNCHANGED settings
    BY DEF cmd_status
  <1>2. pc = "docmd" /\ Token(1).tok \in ToSet(commands) /\ Token(1).tok # NULL
    BY <1>1, CalledFacts DEF NULL
  <1>3. \A j \in 1..(1 - 1) : Token(j).tok # NULL
    OBVIOUS
  <1>4. LineOK'
    BY <1>1, <1>2, <1>3, Endings
  <1>5. SettingsOK'
    BY <1>1 DEF LineInv, SettingsOK, settings
  <1> QED
    BY <1>4, <1>5 DEF LineInv

\* exit and quit.
LEMMA Exit == ASSUME LineInv, cmd_exit PROVE LineInv'
  <1>1. Called({"exit", "quit"}) /\ pc' = "exit" /\ lineptr' = Token(1).ptr /\ UNCHANGED <<line, typed, settings>>
    BY DEF cmd_exit
  <1>2. pc = "docmd"
    BY <1>1 DEF Called
  <1>3. typed \in Lines /\ Token(1).ptr \in 1..MAXLINE
    BY <1>2, LineRead
  <1>4. Buffer'
    BY <1>1 DEF LineInv, LineOK, Buffer
  <1>5. LineOK'
    BY <1>1, <1>3, <1>4 DEF LineOK, ArgsTyped, NothingUnread, UnknownIsUnknown
  <1>6. SettingsOK'
    BY <1>1 DEF LineInv, SettingsOK, settings
  <1> QED
    BY <1>5, <1>6 DEF LineInv

\* The prompt of the main loop keeps the invariant,
LEMMA Prompt == ASSUME LineInv, prompt PROVE LineInv'
  <1>1. pc' = "prompt" /\ typed' = None /\ UNCHANGED <<line, lineptr, settings>>
    BY DEF prompt
  <1>2. Buffer' /\ lineptr' \in 1..MAXLINE
    BY <1>1 DEF LineInv, LineOK, Buffer
  <1>3. LineOK'
    BY <1>1, <1>2 DEF LineOK, ArgsTyped, NothingUnread, UnknownIsUnknown
  <1>4. SettingsOK'
    BY <1>1 DEF LineInv, SettingsOK, settings
  <1> QED
    BY <1>3, <1>4 DEF LineInv

\* the start of the client,
LEMMA Main == ASSUME LineInv, main PROVE LineInv'
  <1>1. pc' = "prompt" /\ lineptr' = 1 /\ typed' = None
    BY DEF main
  <1>2. Buffer'
    BY Marks DEF main, Buffer, Chars
  <1>3. SettingsOK'
    BY DEF main, SettingsOK, ModeWords
  <1>4. LineOK'
    BY <1>1, <1>2, Marks DEF LineOK, ArgsTyped, NothingUnread, UnknownIsUnknown
  <1> QED
    BY <1>3, <1>4 DEF LineInv

\* and a step of somebody else.
LEMMA LineStutter == ASSUME LineInv, UNCHANGED vars PROVE LineInv'
  <1>1. /\ pc' = pc /\ line' = line /\ lineptr' = lineptr /\ typed' = typed /\ args' = args /\ result' = result
        /\ UNCHANGED settings
    BY DEF vars, settings
  <1>2. Buffer' /\ (pc' = "docmd" => Holds(typed)')
    BY <1>1 DEF LineInv, LineOK, Buffer, Holds
  <1>3. ArgsTyped' /\ NothingUnread' /\ UnknownIsUnknown'
    BY <1>1 DEF LineInv, LineOK, ArgsTyped, NothingUnread, UnknownIsUnknown
  <1>4. LineOK'
    BY <1>1, <1>2, <1>3 DEF LineInv, LineOK
  <1>5. SettingsOK'
    BY <1>1 DEF LineInv, SettingsOK, settings
  <1> QED
    BY <1>4, <1>5 DEF LineInv

-----------------------------------------------------------------------------
(* The theorems. *)

\* The invariant is inductive.
LEMMA LineInvariant == Spec => []LineInv
  <1>1. ASSUME LineInv, [Next]_vars
        PROVE  LineInv'
    <2>1. CASE Next
      BY <1>1, <2>1, GetLine, EmptyLine, UnknownCommand, Connect, Get, Put, Mode, AsciiBinary, Verbose, Status, Exit, Prompt, Main DEF Next
    <2>2. CASE UNCHANGED vars
      BY <1>1, <2>2, LineStutter
    <2> QED
      BY <1>1, <2>1, <2>2
  <1> QED
    BY <1>1, InitLine, PTL DEF Spec

\* Whatever earlier lines left in the buffer of mainloop(), a command gets the
\* words of its own line, and checkend() lets none of them pass unread.
THEOREM WordsCorrect == Spec => []WordsOfItsLine
  <1>1. LineInv => WordsOfItsLine
    BY DEF LineInv, LineOK, SettingsOK, WordsOfItsLine, TypeOK
  <1> QED
    BY <1>1, LineInvariant, PTL

\* A line is reported as unknown just if its first word is no command's name:
\* the binary search of docmd() finds every entry of its table.
THEOREM UnknownCorrect == Spec => []UnknownIsUnknown
  <1>1. LineInv => UnknownIsUnknown
    BY DEF LineInv, LineOK
  <1> QED
    BY <1>1, LineInvariant, PTL
=============================================================================
