--------------------------- MODULE NetasciiProofs ---------------------------
(***************************************************************************)
(* What the netascii conversions do to files and blocks of any length.     *)
(*                                                                         *)
(* The loops of file_read() and file_write() are recursive functions.  A   *)
(* character read and a character written together keep what the file is   *)
(* made of; so does a block, by induction; and from that the invariant     *)
(* NetInv follows, and from NetInv the properties of Netascii.             *)
(***************************************************************************)
EXTENDS Netascii, Loops, SequenceTheorems

-----------------------------------------------------------------------------
(* The loops of file_read() and file_write(). *)

Bytes == Chars \cup {NoChar}
ReadStates == [buf : Seq(Chars), rest : Contents, next : Bytes]
WriteStates == [out : Seq(Chars), lastcr : BOOLEAN, err : BOOLEAN]

\* A file is a sequence of characters, and so is what is left of it.
LEMMA ContentsSeq ==
  ASSUME NEW s \in Contents
  PROVE  /\ s \in Seq(Chars)
         /\ s # <<>> => /\ Head(s) \in Chars /\ Tail(s) \in Contents
                        /\ s = <<Head(s)>> \o Tail(s)
  <1>1. PICK n \in 0..MaxLen : s \in [1..n -> Chars]
    BY DEF Contents
  <1>2. s \in Seq(Chars) /\ Len(s) = n
    BY <1>1, NetasciiAssumption
  <1>3. ASSUME s # <<>>
        PROVE  Head(s) \in Chars /\ Tail(s) \in Contents
    <2>1. Head(s) \in Chars /\ Tail(s) \in Seq(Chars) /\ Len(Tail(s)) = n - 1
      BY <1>2, <1>3
    <2>2. Tail(s) \in [1..(n - 1) -> Chars] /\ n - 1 \in 0..MaxLen
      <3>1. n # 0
        BY <1>2, <1>3
      <3>2. n - 1 \in 0..MaxLen
        BY <3>1, NetasciiAssumption
      <3>3. PICK t \in Seq(Chars) : t = Tail(s)
        BY <2>1
      <3>4. t \in [1..(n - 1) -> Chars]
        BY <2>1, <3>3, LenProperties
      <3> QED
        BY <3>2, <3>3, <3>4
    <2> QED
      BY <2>1, <2>2 DEF Contents
  <1>4. ASSUME s # <<>>
        PROVE  s = <<Head(s)>> \o Tail(s)
    BY <1>2, <1>4
  <1> QED
    BY <1>2, <1>3, <1>4

\* A round of either loop leaves a state of that loop.
LEMMA RoundTypes ==
  /\ \A r \in ReadStates : ReadChar(r) \in ReadStates
  /\ \A w \in WriteStates, c \in Chars : WriteChar(w, c) \in WriteStates
  <1>1. ASSUME NEW r \in ReadStates
        PROVE  ReadChar(r) \in ReadStates
    <2>1. r.buf \in Seq(Chars) /\ r.rest \in Contents /\ r.next \in Bytes
      BY DEF ReadStates
    <2>2. CASE r.next # NoChar
      <3>1. Append(r.buf, r.next) \in Seq(Chars)
        BY <2>1, <2>2 DEF Bytes
      <3> QED
        BY <2>1, <2>2, <3>1 DEF ReadChar, ReadStates, Bytes
    <2>3. CASE r.next = NoChar /\ r.rest = <<>>
      BY <2>3 DEF ReadChar
    <2>4. CASE r.next = NoChar /\ r.rest # <<>>
      <3>1. Head(r.rest) \in Chars /\ Tail(r.rest) \in Contents
        BY <2>1, <2>4, ContentsSeq
      <3>2. \A c \in Chars : Append(r.buf, c) \in Seq(Chars)
        BY <2>1
      <3> QED
        BY <2>4, <3>1, <3>2 DEF ReadChar, ReadStates, Bytes, Chars
    <2> QED
      BY <2>2, <2>3, <2>4
  <1>2. ASSUME NEW w \in WriteStates, NEW c \in Chars
        PROVE  WriteChar(w, c) \in WriteStates
    <2>1. /\ w.out \in Seq(Chars) /\ w.lastcr \in BOOLEAN
          /\ \A d \in Chars : Append(w.out, d) \in Seq(Chars)
      BY DEF WriteStates
    <2> QED
      BY <2>1 DEF WriteChar, WriteStates, Chars
  <1> QED
    BY <1>1, <1>2

\* file_read() makes MAXDATA rounds.
LEMMA ReadRun ==
  ASSUME NEW start \in ReadStates
  PROVE  \E g \in [0..MAXDATA -> ReadStates] :
           /\ g[0] = start /\ \A k \in 1..MAXDATA : g[k] = ReadChar(g[k - 1])
           /\ Rounds(start) = g[MAXDATA]
  <1> DEFINE F == [k \in 1..MAXDATA |-> [r \in ReadStates |-> ReadChar(r)]]
             Is(g) == g = [k \in 0..MAXDATA |-> IF k = 0 THEN start ELSE ReadChar(g[k - 1])]
             round == CHOOSE g : Is(g)
  <1>0. MAXDATA \in Nat
    BY NetasciiAssumption
  <1>1. \A k \in 1..MAXDATA, d \in ReadStates : F[k][d] = ReadChar(d)
    OBVIOUS
  <1>2. PICK g : IsRun(g, MAXDATA, ReadStates, start, F)
    <2>1. F \in [1..MAXDATA -> [ReadStates -> ReadStates]]
      BY RoundTypes
    <2> HIDE DEF F
    <2> QED
      BY <1>0, <2>1, RunExists
  <1>3. \A k \in 1..MAXDATA : g[k] = ReadChar(g[k - 1])
    <2>1. \A k \in 1..MAXDATA : g[k - 1] \in ReadStates
      BY <1>0, <1>2 DEF IsRun
    <2> HIDE DEF F
    <2> QED
      BY <1>1, <1>2, <2>1 DEF IsRun
  <1>4. Is(g)
    BY <1>0, <1>2, <1>3 DEF IsRun
  <1>5. Is(round)
    BY <1>4
  <1>6. Rounds(start) = round[MAXDATA]
    BY DEF Rounds
  <1> HIDE DEF round
  <1>7. round[0] = start /\ \A k \in 1..MAXDATA : round[k] = ReadChar(round[k - 1])
    BY <1>0, <1>5
  <1>8. round[MAXDATA] = g[MAXDATA]
    <2>1. g[0] = round[0] /\ \A k \in 1..MAXDATA : round[k - 1] = g[k - 1] => round[k] = g[k]
      BY <1>2, <1>3, <1>7 DEF IsRun
    <2> HIDE DEF F
    <2> QED
      BY <1>0, <2>1, RunsAgree
  <1> QED
    BY <1>2, <1>3, <1>6, <1>8 DEF IsRun

\* file_write() makes a round for every character.
LEMMA WriteRun ==
  ASSUME NEW start \in WriteStates, NEW buf \in Seq(Chars)
  PROVE  \E g \in [0..Len(buf) -> WriteStates] :
           /\ g[0] = start /\ \A k \in 1..Len(buf) : g[k] = WriteChar(g[k - 1], buf[k])
           /\ Written(start, buf) = g[Len(buf)]
  <1> DEFINE F == [k \in 1..Len(buf) |-> [w \in WriteStates |-> WriteChar(w, buf[k])]]
             Is(g) == g = [k \in 0..Len(buf) |-> IF k = 0 THEN start
                                                 ELSE WriteChar(g[k - 1], buf[k])]
             round == CHOOSE g : Is(g)
  <1>0. Len(buf) \in Nat /\ \A k \in 1..Len(buf) : buf[k] \in Chars
    OBVIOUS
  <1>1. \A k \in 1..Len(buf), d \in WriteStates : F[k][d] = WriteChar(d, buf[k])
    OBVIOUS
  <1>2. PICK g : IsRun(g, Len(buf), WriteStates, start, F)
    <2>1. F \in [1..Len(buf) -> [WriteStates -> WriteStates]]
      BY <1>0, RoundTypes
    <2> HIDE DEF F
    <2> QED
      BY <1>0, <2>1, RunExists
  <1>3. \A k \in 1..Len(buf) : g[k] = WriteChar(g[k - 1], buf[k])
    <2>1. \A k \in 1..Len(buf) : g[k - 1] \in WriteStates
      BY <1>0, <1>2 DEF IsRun
    <2> HIDE DEF F
    <2> QED
      BY <1>1, <1>2, <2>1 DEF IsRun
  <1>4. Is(g)
    BY <1>0, <1>2, <1>3 DEF IsRun
  <1>5. Is(round)
    BY <1>4
  <1>6. Written(start, buf) = round[Len(buf)]
    BY DEF Written
  <1> HIDE DEF round
  <1>7. round[0] = start /\ \A k \in 1..Len(buf) : round[k] = WriteChar(round[k - 1], buf[k])
    BY <1>0, <1>5
  <1>8. round[Len(buf)] = g[Len(buf)]
    <2>1. g[0] = round[0] /\ \A k \in 1..Len(buf) : round[k - 1] = g[k - 1] => round[k] = g[k]
      BY <1>2, <1>3, <1>7 DEF IsRun
    <2> HIDE DEF F
    <2> QED
      BY <1>0, <2>1, RunsAgree
  <1> QED
    BY <1>2, <1>3, <1>6, <1>8 DEF IsRun

\* So a character more is a round more.
LEMMA WrittenAppend ==
  ASSUME NEW start \in WriteStates
  PROVE  /\ Written(start, <<>>) = start
         /\ \A buf \in Seq(Chars) : Written(start, buf) \in WriteStates
         /\ \A buf \in Seq(Chars), c \in Chars :
              Written(start, Append(buf, c)) = WriteChar(Written(start, buf), c)
  <1>1. Written(start, <<>>) = start
    <2>1. PICK b : b = <<>>
      OBVIOUS
    <2>2. b \in Seq(Chars)
      BY <2>1
    <2>3. PICK g : g[0] = start /\ Written(start, b) = g[Len(b)]
      BY <2>2, WriteRun
    <2>4. Len(b) = 0
      BY <2>1
    <2> QED
      BY <2>1, <2>3, <2>4
  <1>2. \A buf \in Seq(Chars) : Written(start, buf) \in WriteStates
    <2> SUFFICES ASSUME NEW buf \in Seq(Chars)
                 PROVE  Written(start, buf) \in WriteStates
      OBVIOUS
    <2>1. Len(buf) \in Nat
      OBVIOUS
    <2> QED
      BY <2>1, WriteRun
  <1>3. ASSUME NEW buf \in Seq(Chars), NEW c \in Chars
        PROVE  Written(start, Append(buf, c)) = WriteChar(Written(start, buf), c)
    <2>1. PICK n \in Nat : n = Len(buf)
      OBVIOUS
    <2>2. PICK b : b = Append(buf, c)
      OBVIOUS
    <2>0. b \in Seq(Chars)
      BY <2>2
    <2>3. Len(b) = n + 1 /\ b[n + 1] = c /\ \A k \in 1..n : b[k] = buf[k]
      BY <2>1, <2>2
    <2>4. PICK g : /\ g[0] = start /\ \A k \in 1..n : g[k] = WriteChar(g[k - 1], buf[k])
                   /\ Written(start, buf) = g[n]
      BY <2>1, WriteRun
    <2>5. PICK h : /\ h[0] = start /\ \A k \in 1..Len(b) : h[k] = WriteChar(h[k - 1], b[k])
                   /\ Written(start, b) = h[Len(b)]
      BY <2>0, WriteRun
    <2>6. \A k \in 1..n : g[k - 1] = h[k - 1] => g[k] = h[k]
      BY <2>3, <2>4, <2>5
    <2>7. g[n] = h[n]
      BY <2>4, <2>5, <2>6, RunsAgree
    <2>8. h[n + 1] = WriteChar(h[n], c)
      BY <2>3, <2>5
    <2>9. Written(start, b) = WriteChar(Written(start, buf), c)
      BY <2>3, <2>4, <2>5, <2>7, <2>8
    <2> QED
      BY <2>2, <2>9, Zenon
  <1> QED
    BY <1>1, <1>2, <1>3

-----------------------------------------------------------------------------
(* A character that is read and written. *)

\* What of the file is neither written nor still to be read, when nextchar
\* holds next: the character next belongs to, or next itself if no CR went before.
Held(lastcr, next) ==
  IF next = NoChar THEN <<>> ELSE IF lastcr /\ next # LF THEN <<CR>> ELSE <<next>>

\* Nothing of the text is lost between a reader r and a writer w.
Conveys(r, w, text) ==
  /\ ~w.err
  /\ r.next \in {LF, NUL, NoChar}
  /\ w.lastcr => r.next # NoChar
  /\ w.out \o Held(w.lastcr, r.next) \o r.rest = text

\* The receiver holds a CR back exactly when the sender holds the rest of the pair.
InPairs(r, w) == w.lastcr <=> r.next # NoChar

\* Concatenations that differ in the place of their parentheses.
LEMMA Shifts ==
  ASSUME NEW o \in Seq(Chars), NEW s \in Seq(Chars), NEW c \in Chars
  PROVE  /\ o \o <<>> \o s = o \o s
         /\ Append(o, c) \o <<>> \o s = o \o <<c>> \o s
         /\ o \o <<c>> \o s = o \o <<>> \o (<<c>> \o s)
  <1>1. <<c>> \in Seq(Chars) /\ <<>> \in Seq(Chars)
    OBVIOUS
  <1>2. Append(o, c) = o \o <<c>> /\ o \o <<>> = o
    BY AppendIsConcat, ConcatEmptySeq
  <1>3. Append(o, c) \o <<>> = Append(o, c)
    BY ConcatEmptySeq, AppendProperties
  <1>4. (o \o <<c>>) \o s = o \o (<<c>> \o s)
    BY <1>1, ConcatAssociative
  <1> QED
    BY <1>2, <1>3, <1>4

\* A round of file_read() fills one place of the buffer, or the file has ended.
LEMMA ReadsOne ==
  ASSUME NEW r \in ReadStates
  PROVE  \/ ReadChar(r) = r /\ r.next = NoChar /\ r.rest = <<>>
         \/ \E c \in Chars : ReadChar(r).buf = Append(r.buf, c)
  <1>1. r.buf \in Seq(Chars) /\ r.rest \in Contents /\ r.next \in Bytes
    BY DEF ReadStates
  <1>2. CASE r.next # NoChar
    BY <1>1, <1>2 DEF ReadChar, ReadStates, Bytes
  <1>3. CASE r.next = NoChar /\ r.rest = <<>>
    BY <1>3 DEF ReadChar
  <1>4. CASE r.next = NoChar /\ r.rest # <<>>
    <2>1. Head(r.rest) \in Chars
      BY <1>1, <1>4, ContentsSeq
    <2>2. ReadChar(r).buf = Append(r.buf, IF Head(r.rest) = LF THEN CR ELSE Head(r.rest))
      BY <1>4 DEF ReadChar
    <2> QED
      BY <2>1, <2>2 DEF Chars
  <1> QED
    BY <1>2, <1>3, <1>4

\* file_write() undoes what file_read() does, character by character.
LEMMA CharConveys ==
  ASSUME NEW r \in ReadStates, NEW w \in WriteStates, NEW text, Conveys(r, w, text),
         NEW c \in Chars, ReadChar(r).buf = Append(r.buf, c)
  PROVE  Conveys(ReadChar(r), WriteChar(w, c), text) /\ InPairs(ReadChar(r), WriteChar(w, c))
  <1>0. r.buf \in Seq(Chars) /\ r.rest \in Contents /\ w.out \in Seq(Chars) /\ w.lastcr \in BOOLEAN
    BY DEF ReadStates, WriteStates
  <1>1. r.rest \in Seq(Chars)
    BY <1>0, ContentsSeq
  <1>2. CASE r.next # NoChar
    <2>1. ReadChar(r) = [r EXCEPT !.buf = Append(r.buf, r.next), !.next = NoChar]
      BY <1>2 DEF ReadChar
    <2>2. r.next = c
      BY <2>1, <1>0, <1>2 DEF ReadStates, Bytes
    <2>3. ReadChar(r).next = NoChar /\ ReadChar(r).rest = r.rest
      BY <2>1 DEF ReadStates
    <2>4. PICK d \in Chars : Held(w.lastcr, r.next) = <<d>> /\ WriteChar(w, c).out = Append(w.out, d)
      <3>1. PICK d \in Chars : d = IF w.lastcr /\ c # LF THEN CR ELSE c
        BY DEF Chars
      <3>2. WriteChar(w, c).out = Append(w.out, d)
        BY <3>1, <2>2, <1>2 DEF Conveys, WriteChar, WriteStates, LF, CR, NUL, NoChar
      <3> QED
        BY <3>1, <3>2, <2>2, <1>2 DEF Held
    <2>5. ~WriteChar(w, c).err /\ ~WriteChar(w, c).lastcr
      BY <2>2, <1>2 DEF Conveys, WriteChar, WriteStates, LF, CR, NUL, NoChar
    <2>6. w.out \o <<d>> \o r.rest = text
      BY <2>4 DEF Conveys
    <2>7. Append(w.out, d) \o <<>> \o r.rest = text
      BY <2>6, <1>0, <1>1, Shifts
    <2> QED
      BY <2>3, <2>4, <2>5, <2>7 DEF Conveys, InPairs, Held, LF, CR, NUL, NoChar
  <1>3. CASE r.next = NoChar /\ r.rest = <<>>
    <2>1. Append(r.buf, c) = r.buf
      BY <1>3 DEF ReadChar
    <2> QED
      BY <2>1, <1>0
  <1>4. CASE r.next = NoChar /\ r.rest # <<>>
    <2>1. PICK h \in Chars, t \in Seq(Chars) :
            h = Head(r.rest) /\ t = Tail(r.rest) /\ r.rest = <<h>> \o t
      BY <1>0, <1>4, ContentsSeq
    <2>2. /\ ReadChar(r).buf = Append(r.buf, IF h = LF THEN CR ELSE h)
          /\ ReadChar(r).rest = t
          /\ ReadChar(r).next = (CASE h = LF -> LF [] h = CR -> NUL [] OTHER -> NoChar)
      BY <2>1, <1>4 DEF ReadChar
    <2>3. c = IF h = LF THEN CR ELSE h
      <3>1. PICK d \in Chars : d = IF h = LF THEN CR ELSE h
        BY DEF Chars
      <3>2. Append(r.buf, c) = Append(r.buf, d)
        BY <3>1, <2>2
      <3>3. c = d
        BY <3>2, <1>0, AppendInjective
      <3> QED
        BY <3>1, <3>3
    <2>4. ~w.err /\ ~w.lastcr /\ w.out \o <<>> \o (<<h>> \o t) = text
      BY <2>1, <1>4 DEF Conveys, Held
    <2>5. /\ WriteChar(w, c).out = IF c = CR THEN w.out ELSE Append(w.out, c)
          /\ ~WriteChar(w, c).err /\ (WriteChar(w, c).lastcr <=> c = CR)
      BY <2>4 DEF WriteChar, WriteStates
    <2>6. /\ w.out \o <<h>> \o t = text
          /\ Append(w.out, h) \o <<>> \o t = text
      <3>1. PICK o \in Seq(Chars) : o = w.out
        BY <1>0
      <3>2. /\ Append(o, h) \o <<>> \o t = o \o <<h>> \o t
            /\ o \o <<h>> \o t = o \o <<>> \o (<<h>> \o t)
        BY Shifts, Zenon
      <3>3. o \o <<>> \o (<<h>> \o t) = text
        BY <3>1, <2>4, Zenon
      <3> QED
        BY <3>1, <3>2, <3>3, Zenon
    <2>7. CASE c = CR
      BY <2>2, <2>3, <2>5, <2>6, <2>7 DEF Conveys, InPairs, Held, LF, CR, NUL, NoChar
    <2>8. CASE c # CR
      BY <2>2, <2>3, <2>5, <2>6, <2>8 DEF Conveys, InPairs, Held, LF, CR, NUL, NoChar
    <2> QED
      BY <2>7, <2>8
  <1> QED
    BY <1>2, <1>3, <1>4

\* A CR that was held back from another transfer: file_write() cannot convert the
\* first character, unless it is a null byte, which then ends up as a CR.
LEMMA CharStale ==
  ASSUME NEW r \in ReadStates, NEW w \in WriteStates, ~w.err, w.lastcr, w.out = <<>>,
         r.next = NoChar, r.rest # <<>>,
         NEW c \in Chars, ReadChar(r).buf = Append(r.buf, c)
  PROVE  \/ WriteChar(w, c).err
         \/ /\ Conveys(ReadChar(r), WriteChar(w, c), <<CR>> \o Tail(r.rest))
            /\ InPairs(ReadChar(r), WriteChar(w, c))
  <1>0. r.buf \in Seq(Chars) /\ r.rest \in Contents
    BY DEF ReadStates
  <1>1. PICK h \in Chars, t \in Seq(Chars) : h = Head(r.rest) /\ t = Tail(r.rest)
    BY <1>0, ContentsSeq
  <1>2. /\ ReadChar(r).buf = Append(r.buf, IF h = LF THEN CR ELSE h)
        /\ ReadChar(r).rest = t
        /\ h = NUL => ReadChar(r).next = NoChar
    BY <1>1 DEF ReadChar, LF, CR, NUL
  <1>3. c = IF h = LF THEN CR ELSE h
    <2>1. PICK d \in Chars : d = IF h = LF THEN CR ELSE h
      BY DEF Chars
    <2>2. Append(r.buf, c) = Append(r.buf, d)
      BY <2>1, <1>2
    <2> QED
      BY <2>1, <2>2, <1>0, AppendInjective
  <1>4. CASE h # NUL
    <2>1. c # LF /\ c # NUL
      BY <1>3, <1>4 DEF LF, CR, NUL
    <2> QED
      BY <2>1 DEF WriteChar, WriteStates
  <1>5. CASE h = NUL
    <2>1. c = NUL
      BY <1>3, <1>5 DEF LF, NUL
    <2>2. /\ WriteChar(w, c).out = Append(<<>>, CR)
          /\ ~WriteChar(w, c).err /\ ~WriteChar(w, c).lastcr
      BY <2>1 DEF WriteChar, WriteStates, LF, CR, NUL
    <2>3. Append(<<>>, CR) \o <<>> \o t = <<CR>> \o t
      <3>1. <<>> \in Seq(Chars) /\ CR \in Chars /\ Append(<<>>, CR) = <<CR>>
        BY DEF Chars
      <3>2. <<CR>> \in Seq(Chars)
        BY <3>1
      <3> QED
        BY <3>1, <3>2, ConcatEmptySeq
    <2> QED
      BY <1>1, <1>2, <1>5, <2>2, <2>3 DEF Conveys, InPairs, Held
  <1> QED
    BY <1>4, <1>5

-----------------------------------------------------------------------------
(* A block. *)

\* What holds of a round's number and its state when each round keeps it.
LEMMA RoundsKeep ==
  ASSUME NEW start \in ReadStates, NEW I \in [0..MAXDATA -> SUBSET ReadStates],
         start \in I[0],
         \A k \in 1..MAXDATA : \A r \in I[k - 1] : ReadChar(r) \in I[k]
  PROVE  Rounds(start) \in I[MAXDATA]
  <1>1. PICK g \in [0..MAXDATA -> ReadStates] :
          /\ g[0] = start /\ \A k \in 1..MAXDATA : g[k] = ReadChar(g[k - 1])
          /\ Rounds(start) = g[MAXDATA]
    BY ReadRun
  <1> DEFINE S == {k \in 0..MAXDATA : g[k] \in I[k]}
  <1>2. MAXDATA \in Nat
    BY NetasciiAssumption
  <1>3. 0 \in S /\ \A k \in 1..MAXDATA : k - 1 \in S => k \in S
    BY <1>1, <1>2
  <1>4. \A k \in 0..MAXDATA : k \in S
    <2> HIDE DEF S
    <2> QED
      BY <1>2, <1>3, Induction
  <1> QED
    BY <1>1, <1>2, <1>4

\* The state of file_write() when the buffer of r has been written.
After(start, r) == Written(start, r.buf)

\* After k rounds the buffer has k characters, or the file has ended.
Fills(k, r) ==
  Len(r.buf) = k \/ (Len(r.buf) <= k /\ r.rest = <<>> /\ r.next = NoChar)

\* A round of file_read() fills one more place of the buffer, up to the end of the file.
LEMMA RoundFills ==
  ASSUME NEW r \in ReadStates, NEW k \in Nat, Fills(k, r)
  PROVE  Fills(k + 1, ReadChar(r))
  <1>0. r.buf \in Seq(Chars)
    BY DEF ReadStates
  <1>1. CASE Len(r.buf) = k
    <2>1. CASE ReadChar(r) = r /\ r.next = NoChar /\ r.rest = <<>>
      BY <1>1, <2>1 DEF Fills
    <2>2. ASSUME NEW c \in Chars, ReadChar(r).buf = Append(r.buf, c)
          PROVE  Fills(k + 1, ReadChar(r))
      BY <1>0, <1>1, <2>2 DEF Fills
    <2> QED
      BY <2>1, <2>2, ReadsOne
  <1>2. CASE Len(r.buf) <= k /\ r.rest = <<>> /\ r.next = NoChar
    BY <1>0, <1>2 DEF Fills, ReadChar
  <1> QED
    BY <1>1, <1>2 DEF Fills

\* A block that is read and written.
Block(start, w0, r, w) ==
  /\ start \in ReadStates /\ start.buf = <<>> /\ w0 \in WriteStates
  /\ r = Rounds(start) /\ w = Written(w0, r.buf)

\* What a block keeps, if each of its characters does: a state of the reader with
\* its round's number.
LEMMA BlockKeeps ==
  ASSUME NEW start, NEW w0, NEW r, NEW w, Block(start, w0, r, w),
         NEW I \in [0..MAXDATA -> SUBSET ReadStates], start \in I[0],
         \A k \in 1..MAXDATA : \A q \in I[k - 1] : Fills(k - 1, q) => ReadChar(q) \in I[k]
  PROVE  r \in I[MAXDATA] /\ r \in ReadStates /\ w \in WriteStates /\ Fills(MAXDATA, r)
  <1> DEFINE J == [k \in 0..MAXDATA |-> {q \in I[k] : Fills(k, q)}]
  <1>0. MAXDATA \in Nat
    BY NetasciiAssumption
  <1>1. start \in ReadStates /\ start.buf = <<>> /\ w0 \in WriteStates
        /\ r = Rounds(start) /\ w = Written(w0, r.buf)
    BY DEF Block
  <1>2. J \in [0..MAXDATA -> SUBSET ReadStates]
    BY <1>0
  <1>3. start \in J[0]
    BY <1>0, <1>1 DEF Fills
  <1>4. ASSUME NEW k \in 1..MAXDATA, NEW q \in J[k - 1]
        PROVE  ReadChar(q) \in J[k]
    <2>1. k - 1 \in 0..MAXDATA /\ k \in 0..MAXDATA /\ k - 1 \in Nat
      BY <1>0
    <2>2. q \in I[k - 1] /\ Fills(k - 1, q) /\ q \in ReadStates
      BY <1>4, <2>1
    <2>3. Fills((k - 1) + 1, ReadChar(q))
      BY <2>1, <2>2, RoundFills
    <2>4. (k - 1) + 1 = k
      OBVIOUS
    <2> QED
      BY <2>1, <2>2, <2>3, <2>4
  <1>5. r \in J[MAXDATA]
    <2> HIDE DEF J
    <2> QED
      BY <1>1, <1>2, <1>3, <1>4, RoundsKeep
  <1>6. r \in I[MAXDATA] /\ Fills(MAXDATA, r)
    BY <1>0, <1>5
  <1>7. r \in ReadStates
    BY <1>0, <1>6
  <1>8. r.buf \in Seq(Chars)
    BY <1>7 DEF ReadStates
  <1> QED
    BY <1>1, <1>6, <1>7, <1>8, WrittenAppend

\* file_write() undoes what file_read() does, wherever the block ends.
LEMMA BlockConveys ==
  ASSUME NEW start, NEW w0, NEW r, NEW w, Block(start, w0, r, w),
         NEW text, Conveys(start, w0, text)
  PROVE  /\ r \in ReadStates /\ w \in WriteStates /\ Fills(MAXDATA, r)
         /\ Conveys(r, w, text)
         /\ InPairs(start, w0) => InPairs(r, w)
  <1> DEFINE Good(q) == Conveys(q, After(w0, q), text)
                        /\ (InPairs(start, w0) => InPairs(q, After(w0, q)))
             I == [k \in 0..MAXDATA |-> {q \in ReadStates : Good(q)}]
  <1>0. MAXDATA \in Nat
    BY NetasciiAssumption
  <1>1. start \in ReadStates /\ start.buf = <<>> /\ w0 \in WriteStates /\ w = After(w0, r)
    BY DEF Block, After
  <1>2. After(w0, start) = w0
    BY <1>1, WrittenAppend DEF After
  <1>3. Good(start)
    BY <1>2
  <1>4. ASSUME NEW q \in ReadStates, Good(q)
        PROVE  ReadChar(q) \in ReadStates /\ Good(ReadChar(q))
    <2>1. ReadChar(q) \in ReadStates
      BY RoundTypes
    <2>2. CASE ReadChar(q) = q
      BY <1>4, <2>2
    <2>3. ASSUME NEW c \in Chars, ReadChar(q).buf = Append(q.buf, c)
          PROVE  Good(ReadChar(q))
      <3>1. q.buf \in Seq(Chars)
        BY DEF ReadStates
      <3>2. After(w0, q) \in WriteStates /\ After(w0, ReadChar(q)) = WriteChar(After(w0, q), c)
        BY <3>1, <1>1, <2>3, WrittenAppend DEF After
      <3>3. Conveys(ReadChar(q), WriteChar(After(w0, q), c), text)
            /\ InPairs(ReadChar(q), WriteChar(After(w0, q), c))
        BY <1>4, <2>3, <3>2, CharConveys
      <3> QED
        BY <3>2, <3>3
    <2> QED
      BY <2>1, <2>2, <2>3, ReadsOne
  <1> HIDE DEF Good
  <1>5. I \in [0..MAXDATA -> SUBSET ReadStates] /\ start \in I[0]
        /\ \A k \in 1..MAXDATA : \A q \in I[k - 1] : ReadChar(q) \in I[k]
    BY <1>0, <1>1, <1>3, <1>4
  <1>6. r \in I[MAXDATA] /\ r \in ReadStates /\ w \in WriteStates /\ Fills(MAXDATA, r)
    <2> HIDE DEF I
    <2> QED
      BY <1>5, BlockKeeps
  <1>7. Good(r)
    BY <1>0, <1>6
  <1> QED
    BY <1>1, <1>6, <1>7 DEF Good

\* After an interrupted get: the first block fails, or replaces a null byte.
LEMMA BlockStale ==
  ASSUME NEW start, NEW w0, NEW r, NEW w, Block(start, w0, r, w),
         ~w0.err, w0.lastcr, w0.out = <<>>, start.next = NoChar, start.rest # <<>>
  PROVE  /\ r \in ReadStates /\ w \in WriteStates /\ Fills(MAXDATA, r)
         /\ w.err \/ (Conveys(r, w, <<CR>> \o Tail(start.rest)) /\ InPairs(r, w))
  <1> DEFINE Good(q) == \/ After(w0, q).err
                        \/ /\ Conveys(q, After(w0, q), <<CR>> \o Tail(start.rest))
                           /\ InPairs(q, After(w0, q))
             I == [k \in 0..MAXDATA |-> IF k = 0 THEN {start} ELSE {q \in ReadStates : Good(q)}]
  <1>0. MAXDATA \in Nat \ {0}
    BY NetasciiAssumption
  <1>1. start \in ReadStates /\ start.buf = <<>> /\ w0 \in WriteStates /\ w = After(w0, r)
    BY DEF Block, After
  <1>2. After(w0, start) = w0
    BY <1>1, WrittenAppend DEF After
  <1>3. ASSUME NEW q \in ReadStates, q = start \/ Good(q)
        PROVE  ReadChar(q) \in ReadStates /\ Good(ReadChar(q))
    <2>1. ReadChar(q) \in ReadStates
      BY RoundTypes
    <2>2. CASE ReadChar(q) = q /\ q.next = NoChar /\ q.rest = <<>>
      BY <1>3, <2>2
    <2>3. ASSUME NEW c \in Chars, ReadChar(q).buf = Append(q.buf, c)
          PROVE  Good(ReadChar(q))
      <3>1. q.buf \in Seq(Chars)
        BY DEF ReadStates
      <3>2. After(w0, q) \in WriteStates /\ After(w0, ReadChar(q)) = WriteChar(After(w0, q), c)
        BY <3>1, <1>1, <2>3, WrittenAppend DEF After
      <3>3. CASE q = start
        <4>1. \/ WriteChar(w0, c).err
              \/ /\ Conveys(ReadChar(q), WriteChar(w0, c), <<CR>> \o Tail(start.rest))
                 /\ InPairs(ReadChar(q), WriteChar(w0, c))
          BY <1>1, <2>3, <3>3, CharStale
        <4> QED
          BY <1>2, <3>2, <3>3, <4>1
      <3>4. CASE After(w0, q).err
        BY <3>2, <3>4 DEF WriteChar
      <3>5. CASE Conveys(q, After(w0, q), <<CR>> \o Tail(start.rest))
        BY <2>3, <3>2, <3>5, CharConveys
      <3> QED
        BY <1>3, <3>3, <3>4, <3>5
    <2> QED
      BY <2>1, <2>2, <2>3, ReadsOne
  <1> HIDE DEF Good
  <1>4. I \in [0..MAXDATA -> SUBSET ReadStates] /\ start \in I[0]
        /\ \A k \in 1..MAXDATA : \A q \in I[k - 1] : ReadChar(q) \in I[k]
    BY <1>0, <1>1, <1>3
  <1>5. r \in I[MAXDATA] /\ r \in ReadStates /\ w \in WriteStates /\ Fills(MAXDATA, r)
    <2> HIDE DEF I
    <2> QED
      BY <1>4, BlockKeeps
  <1>6. Good(r)
    BY <1>0, <1>5
  <1> QED
    BY <1>1, <1>5, <1>6 DEF Good

\* At the end of the file nothing is read or written.
LEMMA BlockEmpty ==
  ASSUME NEW start, NEW w0, NEW r, NEW w, Block(start, w0, r, w),
         start.next = NoChar, start.rest = <<>>
  PROVE  r = start /\ w = w0
  <1> DEFINE I == [k \in 0..MAXDATA |-> {start}]
  <1>0. MAXDATA \in Nat
    BY NetasciiAssumption
  <1>1. start \in ReadStates /\ start.buf = <<>> /\ w0 \in WriteStates /\ w = Written(w0, r.buf)
    BY DEF Block
  <1>2. ReadChar(start) = start
    BY DEF ReadChar
  <1>3. I \in [0..MAXDATA -> SUBSET ReadStates] /\ start \in I[0]
        /\ \A k \in 1..MAXDATA : \A q \in I[k - 1] : ReadChar(q) \in I[k]
    BY <1>0, <1>1, <1>2
  <1>4. r \in I[MAXDATA]
    <2> HIDE DEF I
    <2> QED
      BY <1>3, BlockKeeps
  <1>5. r = start
    BY <1>0, <1>4
  <1> QED
    BY <1>1, <1>5, WrittenAppend

-----------------------------------------------------------------------------
(* The netascii form of a file. *)

\* Concatenation, of which the provers need only know these facts.
Cat(s, t) == s \o t

\* Cat() is associative, has the empty sequence as unit, and Append() is its special case.
LEMMA CatFacts ==
  /\ \A s, t \in Seq(Chars) : Cat(s, t) \in Seq(Chars)
  /\ \A s \in Seq(Chars) : Cat(s, <<>>) = s /\ Cat(<<>>, s) = s
  /\ \A s, t, u \in Seq(Chars) : Cat(Cat(s, t), u) = Cat(s, Cat(t, u))
  /\ \A s \in Seq(Chars), c \in Chars : <<c>> \in Seq(Chars) /\ Append(s, c) = Cat(s, <<c>>)
  <1>1. \A s, t \in Seq(Chars) : Cat(s, t) \in Seq(Chars)
    BY ConcatProperties DEF Cat
  <1>2. \A s \in Seq(Chars) : Cat(s, <<>>) = s /\ Cat(<<>>, s) = s
    BY ConcatEmptySeq, Zenon DEF Cat
  <1>3. \A s, t, u \in Seq(Chars) : Cat(Cat(s, t), u) = Cat(s, Cat(t, u))
    <2> SUFFICES ASSUME NEW s \in Seq(Chars), NEW t \in Seq(Chars), NEW u \in Seq(Chars)
                 PROVE  Cat(Cat(s, t), u) = Cat(s, Cat(t, u))
      OBVIOUS
    <2> QED
      BY ConcatAssociative DEF Cat
  <1>4. \A s \in Seq(Chars), c \in Chars : <<c>> \in Seq(Chars) /\ Append(s, c) = Cat(s, <<c>>)
    BY AppendIsConcat DEF Cat
  <1> QED
    BY <1>1, <1>2, <1>3, <1>4

\* FlattenSeq() appends one sequence after another.
LEMMA FlattenRun ==
  ASSUME NEW ss \in Seq(Seq(Chars)), NEW n \in Nat, n = Len(ss)
  PROVE  \E g \in [0..n -> Seq(Chars)] :
           /\ g[0] = <<>> /\ \A k \in 1..n : g[k] = Cat(g[k - 1], ss[k])
           /\ FlattenSeq(ss) = g[n]
  <1> DEFINE F == [k \in 1..n |-> [s \in Seq(Chars) |-> Cat(s, ss[k])]]
             Is(g) == g = [i \in 1..Len(ss) |-> IF i = 1 THEN ss[i] ELSE g[i - 1] \o ss[i]]
             flatten == CHOOSE g : Is(g)
  <1>1. \A k \in 1..n : ss[k] \in Seq(Chars)
    OBVIOUS
  <1>2. <<>> \in Seq(Chars)
    OBVIOUS
  <1>3. PICK g : IsRun(g, n, Seq(Chars), <<>>, F)
    <2>1. F \in [1..n -> [Seq(Chars) -> Seq(Chars)]]
      BY <1>1, CatFacts
    <2> HIDE DEF F
    <2> QED
      BY <1>2, <2>1, RunExists
  <1>4. g \in [0..n -> Seq(Chars)] /\ g[0] = <<>>
    BY <1>3 DEF IsRun
  <1>5. \A k \in 1..n : g[k] = Cat(g[k - 1], ss[k])
    <2>1. \A k \in 1..n : g[k] = F[k][g[k - 1]]
      <3> HIDE DEF F
      <3> QED
        BY <1>3 DEF IsRun
    <2>2. \A k \in 1..n : g[k - 1] \in Seq(Chars)
      BY <1>4, RunRange
    <2> QED
      BY <2>1, <2>2
  <1>6. CASE n = 0
    <2>1. Len(ss) = 0 /\ ss = <<>>
      BY <1>6, EmptySeq
    <2>2. FlattenSeq(ss) = ss
      BY <2>1, Zenon DEF FlattenSeq
    <2> QED
      BY <1>4, <1>5, <1>6, <2>1, <2>2
  <1>7. CASE n # 0
    <2> DEFINE h == [i \in 1..n |-> g[i]]
    <2>1. ASSUME NEW i \in 1..n
          PROVE  h[i] = IF i = 1 THEN ss[i] ELSE Cat(h[i - 1], ss[i])
      <3>1. CASE i = 1
        <4>1. g[1] = Cat(<<>>, ss[1]) /\ ss[1] \in Seq(Chars)
          BY <1>1, <1>4, <1>5, <1>7, <3>1
        <4> QED
          BY <4>1, <3>1, CatFacts
      <3>2. CASE i # 1
        BY <1>5, <3>2
      <3> QED
        BY <3>1, <3>2
    <2>2. Is(h)
      <3>1. h = [i \in 1..n |-> IF i = 1 THEN ss[i] ELSE Cat(h[i - 1], ss[i])]
        BY <2>1
      <3> HIDE DEF h
      <3> QED
        BY <3>1, Zenon DEF Cat
    <2>3. Is(flatten)
      <3> HIDE DEF h
      <3> QED
        BY <2>2
    <2>4. FlattenSeq(ss) = flatten[n]
      BY <1>7 DEF FlattenSeq
    <2>5. flatten = [i \in 1..n |-> IF i = 1 THEN ss[i] ELSE Cat(flatten[i - 1], ss[i])]
      <3> HIDE DEF flatten
      <3> QED
        BY <2>3, Zenon DEF Cat
    <2> HIDE DEF flatten, Is
    <2>6. \A i \in 1..n : flatten[i] = IF i = 1 THEN ss[i] ELSE Cat(flatten[i - 1], ss[i])
      BY <2>5
    <2> HIDE DEF h
    <2> DEFINE S == {0} \cup {i \in 1..n : flatten[i] = h[i]}
    <2>7. 0 \in S /\ \A k \in 1..n : k - 1 \in S => k \in S
      BY <2>1, <2>6
    <2>8. \A k \in 0..n : k \in S
      <3> HIDE DEF S
      <3> QED
        BY <2>7, Induction
    <2>9. flatten[n] = h[n]
      BY <1>7, <2>8
    <2>10. h[n] = g[n]
      BY <1>7 DEF h
    <2> QED
      BY <1>4, <1>5, <2>4, <2>9, <2>10
  <1> QED
    BY <1>6, <1>7

\* The codes of the characters.
LEMMA Codes ==
  \A c \in Chars : Code(c) \in Seq(Chars)
  <1>1. \A c, d \in Chars : <<c, d>> \in Seq(Chars) /\ <<c>> \in Seq(Chars)
    OBVIOUS
  <1>2. LF \in Chars /\ CR \in Chars /\ NUL \in Chars
    BY DEF Chars
  <1> QED
    BY <1>1, <1>2 DEF Code

\* The form of a file is built up by its characters, from the first to the last.
LEMMA EncodeRun ==
  ASSUME NEW s \in Seq(Chars), NEW n \in Nat, n = Len(s)
  PROVE  \E g \in [0..n -> Seq(Chars)] :
           /\ g[0] = <<>> /\ \A k \in 1..n : g[k] = Cat(g[k - 1], Code(s[k]))
           /\ Encode(s) = g[n]
  <1>1. PICK ss : ss = [i \in DOMAIN s |-> Code(s[i])]
    OBVIOUS
  <1>2. DOMAIN s = 1..n /\ \A i \in 1..n : s[i] \in Chars
    OBVIOUS
  <1>3. ss \in [1..n -> Seq(Chars)]
    BY <1>1, <1>2, Codes
  <1>4. ss \in Seq(Seq(Chars))
    BY <1>3
  <1>5. Len(ss) = n
    BY <1>3
  <1>6. PICK g \in [0..n -> Seq(Chars)] :
          /\ g[0] = <<>> /\ \A k \in 1..n : g[k] = Cat(g[k - 1], ss[k])
          /\ FlattenSeq(ss) = g[n]
    BY <1>4, <1>5, FlattenRun
  <1>7. Encode(s) = g[n]
    BY <1>1, <1>6 DEF Encode
  <1>8. \A k \in 1..n : ss[k] = Code(s[k])
    BY <1>1, <1>2
  <1> QED
    BY <1>6, <1>7, <1>8

\* So the form of a file with one more character is that of the file and the
\* code of the character.
LEMMA EncodeAppend ==
  /\ Encode(<<>>) = <<>>
  /\ \A s \in Seq(Chars) : Encode(s) \in Seq(Chars)
  /\ \A s \in Seq(Chars), c \in Chars : Encode(Append(s, c)) = Cat(Encode(s), Code(c))
  <1>1. Encode(<<>>) = <<>>
    <2>1. PICK b : b = <<>>
      OBVIOUS
    <2>2. b \in Seq(Chars)
      BY <2>1
    <2>3. PICK m \in Nat : m = Len(b)
      BY <2>2
    <2>4. PICK g : g[0] = <<>> /\ Encode(b) = g[m]
      BY <2>2, <2>3, EncodeRun
    <2>5. m = 0
      BY <2>1, <2>3
    <2> QED
      BY <2>1, <2>4, <2>5
  <1>2. \A s \in Seq(Chars) : Encode(s) \in Seq(Chars)
    <2> SUFFICES ASSUME NEW s \in Seq(Chars)
                 PROVE  Encode(s) \in Seq(Chars)
      OBVIOUS
    <2>1. PICK n \in Nat : n = Len(s)
      OBVIOUS
    <2>2. PICK g \in [0..n -> Seq(Chars)] : Encode(s) = g[n]
      BY <2>1, EncodeRun
    <2> QED
      BY <2>2
  <1>3. ASSUME NEW s \in Seq(Chars), NEW c \in Chars
        PROVE  Encode(Append(s, c)) = Cat(Encode(s), Code(c))
    <2>1. PICK n \in Nat : n = Len(s)
      OBVIOUS
    <2>2. PICK b : b = Append(s, c)
      OBVIOUS
    <2>0. b \in Seq(Chars)
      BY <2>2
    <2>3. n + 1 = Len(b) /\ b[n + 1] = c /\ \A k \in 1..n : b[k] = s[k]
      BY <2>1, <2>2
    <2>4. PICK g : /\ g[0] = <<>> /\ \A k \in 1..n : g[k] = Cat(g[k - 1], Code(s[k]))
                   /\ Encode(s) = g[n]
      BY <2>1, EncodeRun
    <2>5. PICK h : /\ h[0] = <<>> /\ \A k \in 1..(n + 1) : h[k] = Cat(h[k - 1], Code(b[k]))
                   /\ Encode(b) = h[n + 1]
      <3>1. PICK m \in Nat : m = n + 1
        OBVIOUS
      <3>2. m = Len(b)
        BY <2>3, <3>1
      <3>3. PICK h : /\ h[0] = <<>> /\ \A k \in 1..m : h[k] = Cat(h[k - 1], Code(b[k]))
                     /\ Encode(b) = h[m]
        BY <2>0, <3>2, EncodeRun
      <3> QED
        BY <3>1, <3>3
    <2>6. \A k \in 1..n : g[k - 1] = h[k - 1] => g[k] = h[k]
      BY <2>3, <2>4, <2>5
    <2>7. g[n] = h[n]
      BY <2>4, <2>5, <2>6, RunsAgree
    <2>8. h[n + 1] = Cat(h[n], Code(c))
      BY <2>3, <2>5
    <2> QED
      BY <2>2, <2>4, <2>5, <2>7, <2>8
  <1> QED
    BY <1>1, <1>2, <1>3

\* And the form of two files, one behind the other, is that of the first and that
\* of the second.
LEMMA EncodeConcat ==
  ASSUME NEW s \in Seq(Chars), NEW t \in Seq(Chars)
  PROVE  Encode(Cat(s, t)) = Cat(Encode(s), Encode(t))
  <1>1. PICK n \in Nat : n = Len(t)
    OBVIOUS
  <1> DEFINE Splits(u) == Encode(Cat(s, u)) = Cat(Encode(s), Encode(u))
             S == {k \in 0..n : \A u \in Seq(Chars) : Len(u) = k => Splits(u)}
  <1>2. 0 \in S
    <2> SUFFICES ASSUME NEW u \in Seq(Chars), Len(u) = 0
                 PROVE  Splits(u)
      OBVIOUS
    <2>1. u = <<>>
      OBVIOUS
    <2>2. Cat(s, <<>>) = s /\ Cat(Encode(s), <<>>) = Encode(s)
      BY EncodeAppend, CatFacts
    <2> QED
      BY <2>1, <2>2, EncodeAppend
  <1>3. ASSUME NEW k \in 1..n, k - 1 \in S
        PROVE  k \in S
    <2> SUFFICES ASSUME NEW u \in Seq(Chars), Len(u) = k
                 PROVE  Splits(u)
      OBVIOUS
    <2>1. u # <<>>
      OBVIOUS
    <2>2. PICK v \in Seq(Chars), c \in Chars : u = Append(v, c)
      BY <2>1, SequenceEmptyOrAppend
    <2>3. Len(v) = k - 1
      BY <2>2
    <2>4. Encode(Cat(s, v)) = Cat(Encode(s), Encode(v))
      BY <1>3, <2>3
    <2>5. /\ Cat(s, v) \in Seq(Chars) /\ Encode(s) \in Seq(Chars) /\ Encode(v) \in Seq(Chars)
          /\ Code(c) \in Seq(Chars) /\ <<c>> \in Seq(Chars)
      BY EncodeAppend, Codes, CatFacts
    <2>6. Cat(s, u) = Append(Cat(s, v), c)
      <3>1. u = Cat(v, <<c>>) /\ Append(Cat(s, v), c) = Cat(Cat(s, v), <<c>>)
        BY <2>2, <2>5, CatFacts
      <3>2. Cat(Cat(s, v), <<c>>) = Cat(s, Cat(v, <<c>>))
        <4>1. PICK e \in Seq(Chars) : e = <<c>>
          BY <2>5
        <4>2. Cat(Cat(s, v), e) = Cat(s, Cat(v, e))
          BY CatFacts
        <4> QED
          BY <4>1, <4>2, Zenon
      <3> QED
        BY <3>1, <3>2, Zenon
    <2>7. Encode(Cat(s, u)) = Cat(Encode(Cat(s, v)), Code(c))
      BY <2>5, <2>6, EncodeAppend
    <2>8. Encode(u) = Cat(Encode(v), Code(c))
      BY <2>2, EncodeAppend
    <2>9. Cat(Cat(Encode(s), Encode(v)), Code(c)) = Cat(Encode(s), Cat(Encode(v), Code(c)))
      BY <2>5, CatFacts
    <2> QED
      BY <2>4, <2>7, <2>8, <2>9, Zenon
  <1>4. \A k \in 0..n : k \in S
    <2> HIDE DEF S
    <2> QED
      BY <1>2, <1>3, Induction
  <1> QED
    BY <1>1, <1>4

-----------------------------------------------------------------------------
(* The invariant. *)

\* What file_read() and file_write() begin a block with.
Reading(g, s) == [buf |-> <<>>, rest |-> s, next |-> g.nextchar]
Writing(g, o) == [out |-> o, lastcr |-> g.lastcr, err |-> FALSE]

InTransfer == phase \in {"get", "put"}

\* What the receiver has in the end.
Target == IF stale = <<CR>> THEN <<CR>> \o Tail(content) ELSE stale \o content

\* A get that begins with a CR held back from an interrupted one.
Unlucky == Receiver.lastcr /\ Sender.nextchar = NoChar /\ out = <<>> /\ rest = content

\* Any other transfer, and this one when its first character has been written.
Carrying ==
  /\ Conveys(Reading(Sender, rest), Writing(Receiver, out), Target)
  /\ stale = <<>> => InPairs(Reading(Sender, rest), Writing(Receiver, out))
  /\ stale = <<CR>> => content # <<>>

\* Between two blocks.
Flow ==
  InTransfer =>
    /\ outcome = "none"
    /\ stale = <<CR>> => intr /\ phase = "get"
    /\ Carrying \/ (stale = <<CR>> /\ Unlucky)

\* A client holds a CR back at its prompt, and in a put, only after an interrupt.
CrMeansInterrupt == (phase \in {"prompt", "put"} /\ cli.lastcr) => intr

NetInv ==
  /\ NetasciiTypeOK
  /\ cli.nextchar \in {LF, NUL, NoChar}
  /\ CrMeansInterrupt
  /\ Flow
  /\ RoundTrip
  /\ ErrorNeedsInterrupt

\* The client starts at its prompt, with nothing held back by file_write().
LEMMA NetInit ==
  NetasciiInit => NetInv
  <1> SUFFICES ASSUME NetasciiInit
               PROVE  NetInv
    OBVIOUS
  <1>1. <<>> \in Seq(Chars) /\ <<>> \in Contents
    <2>1. <<>> \in [1..0 -> Chars] /\ 0 \in 0..MaxLen
      BY NetasciiAssumption
    <2> QED
      BY <2>1 DEF Contents
  <1>2. cli = [lastcr |-> FALSE, nextchar |-> NUL] /\ srv = [lastcr |-> FALSE, nextchar |-> NoChar]
    BY DEF NetasciiInit, ClientGlobals, file_open
  <1>3. NetasciiTypeOK
    <2>1. cli \in Globals /\ srv \in Globals
      BY <1>2 DEF Globals, Chars
    <2> QED
      BY <1>1, <2>1, Zenon DEF NetasciiInit, NetasciiTypeOK
  <1> QED
    BY <1>2, <1>3 DEF NetasciiInit, NetInv, CrMeansInterrupt, Flow, InTransfer, RoundTrip, ErrorNeedsInterrupt

\* A get or put begins: the receiver has nothing yet, and what the globals of
\* the client held is accounted for in stale.
LEMMA BeginKeeps ==
  ASSUME NetInv, NEW dir \in {"get", "put"}, NEW s \in Contents, Begin(dir, s)
  PROVE  NetInv'
  <1>1. NetasciiTypeOK /\ cli.nextchar \in {LF, NUL, NoChar} /\ CrMeansInterrupt
    BY DEF NetInv
  <1>2. /\ phase = "prompt" /\ phase' = dir /\ outcome' = "none"
        /\ srv' = [lastcr |-> FALSE, nextchar |-> NoChar]
        /\ content' = s /\ rest' = s /\ out' = <<>>
        /\ stale' = (CASE dir = "get" /\ cli.lastcr            -> <<CR>>
                       [] dir = "put" /\ cli.nextchar # NoChar -> <<cli.nextchar>>
                       [] OTHER                                -> <<>>)
        /\ cli' = cli /\ intr' = intr
    BY DEF Begin, file_open
  <1>3. cli.lastcr \in BOOLEAN /\ LF \in Chars /\ NUL \in Chars /\ CR \in Chars
    BY <1>1 DEF NetasciiTypeOK, Globals, Chars
  <1>4. s \in Seq(Chars) /\ <<>> \in Seq(Chars)
    <2>1. s \in Seq(Chars)
      BY ContentsSeq
    <2>2. <<>> \in Seq(Chars)
      OBVIOUS
    <2> QED
      BY <2>1, <2>2, Zenon
  <1>5. NetasciiTypeOK'
    <2>1. stale' \in Seq(Chars)
      <3>1. \A c \in Chars : <<c>> \in Seq(Chars)
        OBVIOUS
      <3> QED
        BY <1>1, <1>2, <1>3, <1>4, <3>1
    <2> QED
      BY <1>1, <1>2, <1>4, <2>1 DEF NetasciiTypeOK, Globals
  <1>6. CrMeansInterrupt' /\ RoundTrip' /\ ErrorNeedsInterrupt'
    BY <1>1, <1>2 DEF CrMeansInterrupt, RoundTrip, ErrorNeedsInterrupt
  <1>7. Flow'
    <2>1. CASE dir = "get" /\ cli.lastcr
      <3>1. stale' = <<CR>> /\ intr
        BY <1>1, <1>2, <2>1 DEF CrMeansInterrupt
      <3>2. Unlucky'
        BY <1>2, <2>1 DEF Unlucky, Sender, Receiver
      <3> QED
        BY <1>2, <2>1, <3>1, <3>2 DEF Flow
    <2>2. CASE dir = "get" /\ ~cli.lastcr
      <3>1. stale' = <<>> /\ <<>> # <<CR>>
        BY <1>2, <2>2
      <3>2. Sender' = srv' /\ Receiver' = cli
        BY <1>2, <2>2 DEF Sender, Receiver
      <3>3. <<>> \o <<>> \o s = <<>> \o s
        BY <1>4, ConcatEmptySeq
      <3>4. Carrying'
        BY <1>2, <2>2, <3>1, <3>2, <3>3
           DEF Carrying, Conveys, InPairs, Held, Reading, Writing, Target
      <3> QED
        BY <1>2, <3>1, <3>4 DEF Flow
    <2>3. CASE dir = "put"
      <3>1. Sender' = cli /\ Receiver' = srv'
        BY <1>2, <2>3 DEF Sender, Receiver
      <3>2. stale' = Held(FALSE, cli.nextchar) /\ stale' # <<CR>>
            /\ (stale' = <<>> => cli.nextchar = NoChar)
        BY <1>1, <1>2, <2>3 DEF Held, LF, NUL, CR, NoChar
      <3>3. stale' \in Seq(Chars)
        BY <1>5 DEF NetasciiTypeOK
      <3>4. <<>> \o stale' \o s = stale' \o s
        BY <1>4, <3>3, ConcatEmptySeq
      <3>5. Conveys(Reading(Sender, rest)', Writing(Receiver, out)', stale' \o s)
        BY <1>1, <1>2, <3>1, <3>2, <3>4 DEF Conveys, Reading, Writing
      <3>6. Carrying'
        BY <1>2, <3>1, <3>2, <3>5 DEF Carrying, Target, InPairs, Reading, Writing
      <3> QED
        BY <1>2, <3>2, <3>6 DEF Flow
    <2> QED
      BY <1>3, <2>1, <2>2, <2>3
  <1> QED
    BY <1>1, <1>2, <1>5, <1>6, <1>7 DEF NetInv

\* What a block does in a transfer: all it can do wrong is to fail after an
\* interrupted get.
LEMMA BlockFlows ==
  ASSUME NetInv, InTransfer, NEW r, NEW w,
         r = file_read(Sender, rest), w = file_write(Receiver, out, r.buf)
  PROVE  /\ r \in ReadStates /\ w \in WriteStates /\ Fills(MAXDATA, r)
         /\ \/ w.err /\ stale = <<CR>>
            \/ /\ stale = <<CR>> /\ content = <<>> /\ out = <<>>
               /\ r.buf = <<>> /\ r.next = NoChar /\ ~w.err
            \/ /\ Conveys(r, w, Target)
               /\ stale = <<>> => InPairs(r, w)
               /\ stale = <<CR>> => content # <<>>
  <1> DEFINE start == Reading(Sender, rest)
             w0    == Writing(Receiver, out)
  <1>1. NetasciiTypeOK /\ Flow
    BY DEF NetInv
  <1>2. Sender \in Globals /\ Receiver \in Globals /\ rest \in Contents /\ out \in Seq(Chars)
    BY <1>1 DEF NetasciiTypeOK, Sender, Receiver
  <1>3. Block(start, w0, r, w)
    <2>1. <<>> \in Seq(Chars)
      OBVIOUS
    <2>2. start \in ReadStates /\ w0 \in WriteStates
      BY <1>2, <2>1 DEF Reading, Writing, Globals, ReadStates, WriteStates, Bytes
    <2>3. r = Rounds(start) /\ w = Written(w0, r.buf)
      BY DEF file_read, file_write, Reading, Writing
    <2> QED
      BY <2>2, <2>3 DEF Block, Reading
  <1>4. CASE Carrying
    <2>1. Conveys(start, w0, Target) /\ (stale = <<>> => InPairs(start, w0))
          /\ (stale = <<CR>> => content # <<>>)
      BY <1>4 DEF Carrying
    <2> HIDE DEF start, w0
    <2> QED
      BY <1>3, <2>1, BlockConveys
  <1>5. CASE stale = <<CR>> /\ Unlucky
    <2>1. /\ start.buf = <<>> /\ start.next = NoChar /\ start.rest = content
          /\ w0.out = <<>> /\ w0.lastcr /\ ~w0.err /\ out = <<>>
      BY <1>5 DEF Unlucky, Reading, Writing
    <2>2. start \in ReadStates /\ w0 \in WriteStates
      BY <1>3 DEF Block
    <2> HIDE DEF start, w0
    <2>3. CASE content = <<>>
      <3>1. r = start /\ w = w0
        BY <1>3, <2>1, <2>3, BlockEmpty
      <3>2. 0 \in Nat /\ Fills(MAXDATA, r)
        <4>1. Len(r.buf) = 0
          BY <2>1, <3>1
        <4> QED
          BY <4>1, <2>1, <2>3, <3>1, NetasciiAssumption DEF Fills
      <3> QED
        BY <1>5, <2>1, <2>2, <2>3, <3>1, <3>2
    <2>4. CASE content # <<>>
      <3>1. /\ r \in ReadStates /\ w \in WriteStates /\ Fills(MAXDATA, r)
            /\ w.err \/ (Conveys(r, w, <<CR>> \o Tail(start.rest)) /\ InPairs(r, w))
        BY <1>3, <2>1, <2>4, BlockStale
      <3>2. Target = <<CR>> \o Tail(start.rest)
        BY <1>5, <2>1 DEF Target
      <3> QED
        BY <1>5, <2>4, <3>1, <3>2
    <2> QED
      BY <2>3, <2>4
  <1> QED
    BY <1>1, <1>4, <1>5 DEF Flow

\* A short block that conveys ends the file: all of it has been written.
LEMMA ShortBlock ==
  ASSUME NEW r \in ReadStates, NEW w \in WriteStates, NEW text,
         Conveys(r, w, text), Fills(MAXDATA, r), Len(r.buf) < MAXDATA
  PROVE  ~w.lastcr /\ w.out = text
  <1>1. r.rest = <<>> /\ r.next = NoChar
    BY NetasciiAssumption DEF Fills, ReadStates
  <1>2. ~w.lastcr /\ w.out \o <<>> \o <<>> = text
    BY <1>1 DEF Conveys, Held
  <1>3. w.out \in Seq(Chars)
    BY DEF WriteStates
  <1> QED
    BY <1>2, <1>3, ConcatEmptySeq

\* After a block the transfer goes on, or has ended as it should.
LEMMA BlockEnds ==
  ASSUME NetInv, InTransfer, NEW r, NEW w,
         r = file_read(Sender, rest), w = file_write(Receiver, out, r.buf),
         rest' = r.rest, out' = w.out, AfterBlock(r, w),
         content' = content, stale' = stale, intr' = intr,
         phase' = phase => Sender'.nextchar = r.next /\ Receiver'.lastcr = w.lastcr
  PROVE  /\ Flow' /\ RoundTrip' /\ ErrorNeedsInterrupt'
         /\ phase' \in {"prompt", "get", "put", "exit"} /\ outcome' \in {"none", "done", "error"}
         /\ phase' = "put" => phase = "put"
         /\ (phase' = "prompt" /\ phase = "get" /\ w.lastcr) => intr
         /\ phase = "put" => r.next \in {LF, NUL, NoChar}
  <1>1. NetasciiTypeOK /\ Flow
    BY DEF NetInv
  <1>2. /\ phase \in {"get", "put"} /\ outcome = "none"
        /\ stale = <<CR>> => intr /\ phase = "get"
    BY <1>1 DEF Flow, InTransfer
  <1>3. /\ r \in ReadStates /\ w \in WriteStates /\ Fills(MAXDATA, r)
        /\ \/ w.err /\ stale = <<CR>>
           \/ /\ stale = <<CR>> /\ content = <<>> /\ out = <<>>
              /\ r.buf = <<>> /\ r.next = NoChar /\ ~w.err
           \/ /\ Conveys(r, w, Target)
              /\ stale = <<>> => InPairs(r, w)
              /\ stale = <<CR>> => content # <<>>
    BY BlockFlows
  <1>4. CASE w.err /\ stale = <<CR>>
    <2>1. outcome' = "error" /\ phase' = "exit"
      BY <1>2, <1>4 DEF AfterBlock
    <2> QED
      BY <1>2, <1>4, <2>1 DEF Flow, InTransfer, RoundTrip, ErrorNeedsInterrupt
  <1>5. CASE /\ stale = <<CR>> /\ content = <<>> /\ out = <<>>
             /\ r.buf = <<>> /\ r.next = NoChar /\ ~w.err
    <2>1. Len(r.buf) < MAXDATA
      <3>1. Len(r.buf) = 0
        BY <1>5
      <3> QED
        BY <3>1, NetasciiAssumption
    <2>2. outcome' = "done" /\ phase' = "prompt"
      BY <1>2, <1>5, <2>1 DEF AfterBlock, file_close_exits
    <2> QED
      BY <1>2, <1>5, <2>2 DEF Flow, InTransfer, RoundTrip, ErrorNeedsInterrupt
  <1>6. CASE /\ Conveys(r, w, Target)
             /\ stale = <<>> => InPairs(r, w)
             /\ stale = <<CR>> => content # <<>>
    <2>1. ~w.err /\ r.next \in {LF, NUL, NoChar} /\ Target' = Target
      BY <1>6 DEF Conveys, Target
    <2>2. CASE Len(r.buf) < MAXDATA
      <3>1. ~w.lastcr /\ w.out = Target
        BY <1>3, <1>6, <2>2, ShortBlock
      <3>2. outcome' = "done" /\ phase' = "prompt"
        BY <2>1, <2>2, <3>1 DEF AfterBlock, file_close_exits
      <3>3. RoundTrip'
        BY <3>1 DEF RoundTrip, Target
      <3> QED
        BY <1>2, <2>1, <3>1, <3>2, <3>3 DEF Flow, InTransfer, ErrorNeedsInterrupt
    <2>3. CASE ~(Len(r.buf) < MAXDATA)
      <3>1. outcome' = outcome /\ phase' = phase
        BY <2>1, <2>3 DEF AfterBlock, file_close_exits
      <3>2. /\ Sender'.nextchar = r.next /\ Receiver'.lastcr = w.lastcr
            /\ rest' = r.rest /\ out' = w.out
        BY <3>1
      <3>3. Carrying'
        <4>1. Reading(Sender, rest)' = [buf |-> <<>>, rest |-> r.rest, next |-> r.next]
          BY <3>2 DEF Reading
        <4>2. Writing(Receiver, out)' = [out |-> w.out, lastcr |-> w.lastcr, err |-> FALSE]
          BY <3>2 DEF Writing
        <4>3. Conveys(Reading(Sender, rest)', Writing(Receiver, out)', Target')
          <5>1. PICK q, v : /\ q = Reading(Sender, rest)' /\ v = Writing(Receiver, out)'
                            /\ q.next = r.next /\ q.rest = r.rest
                            /\ v.out = w.out /\ v.lastcr = w.lastcr /\ v.err = FALSE
            BY <4>1, <4>2
          <5>2. Conveys(q, v, Target)
            <6>1. /\ r.next \in {LF, NUL, NoChar}
                  /\ w.lastcr => r.next # NoChar
                  /\ w.out \o Held(w.lastcr, r.next) \o r.rest = Target
              BY <1>6 DEF Conveys
            <6> QED
              BY <5>1, <6>1, Zenon DEF Conveys
          <5> QED
            BY <2>1, <5>1, <5>2, Zenon
        <4>4. stale = <<>> => InPairs(Reading(Sender, rest)', Writing(Receiver, out)')
          BY <1>6, <4>1, <4>2 DEF InPairs
        <4> QED
          BY <1>6, <4>3, <4>4 DEF Carrying
      <3> QED
        BY <1>2, <2>1, <3>1, <3>3 DEF Flow, RoundTrip, ErrorNeedsInterrupt
    <2> QED
      BY <2>2, <2>3
  <1> QED
    BY <1>3, <1>4, <1>5, <1>6

\* A block from the child to the client keeps the invariant.
LEMMA GetBlockKeeps ==
  ASSUME NetInv, GetBlock
  PROVE  NetInv'
  <1>1. NetasciiTypeOK /\ cli.nextchar \in {LF, NUL, NoChar} /\ CrMeansInterrupt
    BY DEF NetInv
  <1>2. PICK r, w :
          /\ r = file_read(srv, rest) /\ w = file_write(cli, out, r.buf)
          /\ phase = "get" /\ rest' = r.rest /\ out' = w.out
          /\ srv' = [srv EXCEPT !.nextchar = r.next]
          /\ cli' = [cli EXCEPT !.lastcr = w.lastcr]
          /\ AfterBlock(r, w)
          /\ content' = content /\ stale' = stale /\ intr' = intr
    BY DEF GetBlock
  <1>3. InTransfer /\ Sender = srv /\ Receiver = cli
    BY <1>2 DEF InTransfer, Sender, Receiver
  <1>4. srv'.nextchar = r.next /\ cli'.lastcr = w.lastcr /\ cli'.nextchar = cli.nextchar
    BY <1>1, <1>2 DEF NetasciiTypeOK, Globals
  <1>5. phase' = phase => Sender'.nextchar = r.next /\ Receiver'.lastcr = w.lastcr
    BY <1>2, <1>4 DEF Sender, Receiver
  <1>6. /\ Flow' /\ RoundTrip' /\ ErrorNeedsInterrupt'
        /\ phase' \in {"prompt", "get", "put", "exit"} /\ outcome' \in {"none", "done", "error"}
        /\ phase' = "put" => phase = "put"
        /\ (phase' = "prompt" /\ phase = "get" /\ w.lastcr) => intr
    BY <1>2, <1>3, <1>5, BlockEnds
  <1>7. r \in ReadStates /\ w \in WriteStates
    BY <1>2, <1>3, BlockFlows
  <1>8. NetasciiTypeOK'
    BY <1>1, <1>2, <1>6, <1>7 DEF NetasciiTypeOK, Globals, ReadStates, WriteStates, Bytes
  <1> QED
    BY <1>1, <1>2, <1>4, <1>6, <1>8 DEF NetInv, CrMeansInterrupt

\* A block from the client to the child keeps the invariant.
LEMMA PutBlockKeeps ==
  ASSUME NetInv, PutBlock
  PROVE  NetInv'
  <1>1. NetasciiTypeOK /\ CrMeansInterrupt
    BY DEF NetInv
  <1>2. PICK r, w :
          /\ r = file_read(cli, rest) /\ w = file_write(srv, out, r.buf)
          /\ phase = "put" /\ rest' = r.rest /\ out' = w.out
          /\ cli' = [cli EXCEPT !.nextchar = r.next]
          /\ srv' = [srv EXCEPT !.lastcr = w.lastcr]
          /\ AfterBlock(r, w)
          /\ content' = content /\ stale' = stale /\ intr' = intr
    BY DEF PutBlock
  <1>3. InTransfer /\ Sender = cli /\ Receiver = srv
    BY <1>2 DEF InTransfer, Sender, Receiver
  <1>4. cli'.nextchar = r.next /\ srv'.lastcr = w.lastcr /\ cli'.lastcr = cli.lastcr
    BY <1>1, <1>2 DEF NetasciiTypeOK, Globals
  <1>5. phase' = phase => Sender'.nextchar = r.next /\ Receiver'.lastcr = w.lastcr
    BY <1>2, <1>4 DEF Sender, Receiver
  <1>6. /\ Flow' /\ RoundTrip' /\ ErrorNeedsInterrupt'
        /\ phase' \in {"prompt", "get", "put", "exit"} /\ outcome' \in {"none", "done", "error"}
        /\ phase = "put" => r.next \in {LF, NUL, NoChar}
    BY <1>2, <1>3, <1>5, BlockEnds
  <1>7. r \in ReadStates /\ w \in WriteStates
    BY <1>2, <1>3, BlockFlows
  <1>8. NetasciiTypeOK'
    BY <1>1, <1>2, <1>6, <1>7 DEF NetasciiTypeOK, Globals, ReadStates, WriteStates, Bytes
  <1> QED
    BY <1>1, <1>2, <1>4, <1>6, <1>8 DEF NetInv, CrMeansInterrupt

\* Every step keeps the invariant.
LEMMA NetNext ==
  NetInv /\ [NetasciiNext]_navars => NetInv'
  <1> SUFFICES ASSUME NetInv, [NetasciiNext]_navars
               PROVE  NetInv'
    OBVIOUS
  <1>0. NetasciiTypeOK /\ Flow
    BY DEF NetInv
  <1>1. ASSUME NEW s \in Contents, do_get(s) \/ do_put(s)
        PROVE  NetInv'
    BY <1>1, BeginKeeps DEF do_get, do_put
  <1>2. CASE GetBlock
    BY <1>2, GetBlockKeeps
  <1>3. CASE PutBlock
    BY <1>3, PutBlockKeeps
  <1>4. CASE sig_intr
    <2>1. /\ phase' = "prompt" /\ intr' = TRUE /\ outcome = "none" /\ outcome' = "none"
          /\ cli' = cli /\ srv' = srv /\ content' = content
          /\ rest' = rest /\ out' = out /\ stale' = stale
      BY <1>0, <1>4 DEF sig_intr, Flow, InTransfer
    <2>2. NetasciiTypeOK'
      BY <1>0, <2>1 DEF NetasciiTypeOK
    <2> QED
      BY <2>1, <2>2
         DEF NetInv, CrMeansInterrupt, Flow, InTransfer, RoundTrip, ErrorNeedsInterrupt
  <1>5. CASE start_again
    <2>1. /\ phase' = "prompt" /\ outcome' = "none" /\ intr' = FALSE
          /\ cli' = [lastcr |-> FALSE, nextchar |-> NUL]
          /\ srv' = srv /\ content' = content /\ rest' = rest /\ out' = out /\ stale' = stale
      BY <1>5 DEF start_again, ClientGlobals
    <2>2. cli' \in Globals
      BY <2>1 DEF Globals, Chars
    <2>3. NetasciiTypeOK'
      BY <1>0, <2>1, <2>2 DEF NetasciiTypeOK
    <2> QED
      BY <2>1, <2>3
         DEF NetInv, CrMeansInterrupt, Flow, InTransfer, RoundTrip, ErrorNeedsInterrupt
  <1>6. CASE UNCHANGED navars
    <2>1. /\ phase' = phase /\ cli' = cli /\ srv' = srv /\ content' = content /\ rest' = rest
          /\ out' = out /\ stale' = stale /\ outcome' = outcome /\ intr' = intr
      BY <1>6 DEF navars
    <2>2. NetasciiTypeOK' /\ CrMeansInterrupt' /\ RoundTrip' /\ ErrorNeedsInterrupt'
      BY <2>1 DEF NetInv, NetasciiTypeOK, CrMeansInterrupt, RoundTrip, ErrorNeedsInterrupt
    <2>3. Sender' = Sender /\ Receiver' = Receiver /\ Target' = Target
      BY <2>1 DEF Sender, Receiver, Target
    <2>4. Flow'
      BY <1>0, <2>1, <2>3 DEF Flow, InTransfer, Carrying, Unlucky, Reading, Writing
    <2> QED
      BY <2>1, <2>2, <2>4 DEF NetInv
  <1> QED
    BY <1>1, <1>2, <1>3, <1>4, <1>5, <1>6 DEF NetasciiNext

\* What Held() stands for, in netascii.
LEMMA HeldCode ==
  ASSUME NEW next \in {LF, NUL, NoChar}
  PROVE  /\ Held(next # NoChar, next) \in Seq(Chars)
         /\ Encode(Held(next # NoChar, next))
              = Cat(IF next # NoChar THEN <<CR>> ELSE <<>>, IF next # NoChar THEN <<next>> ELSE <<>>)
  <1>1. \A c \in Chars : <<c>> \in Seq(Chars) /\ Encode(<<c>>) = Code(c)
    <2> SUFFICES ASSUME NEW c \in Chars
                 PROVE  <<c>> \in Seq(Chars) /\ Encode(<<c>>) = Code(c)
      OBVIOUS
    <2>1. PICK b : b = <<>>
      OBVIOUS
    <2>2. b \in Seq(Chars)
      BY <2>1
    <2>3. Append(b, c) = <<c>> /\ <<c>> \in Seq(Chars)
      BY <2>1
    <2>4. Encode(Append(b, c)) = Cat(Encode(b), Code(c)) /\ Encode(b) = b
      BY <2>1, <2>2, EncodeAppend
    <2>5. Cat(b, Code(c)) = Code(c)
      BY <2>1, Codes, CatFacts
    <2> QED
      BY <2>3, <2>4, <2>5, Zenon
  <1>2. LF \in Chars /\ CR \in Chars /\ NUL \in Chars
    BY DEF Chars
  <1>3. \A c, d \in Chars : Cat(<<c>>, <<d>>) = <<c, d>>
    <2> SUFFICES ASSUME NEW c \in Chars, NEW d \in Chars
                 PROVE  Cat(<<c>>, <<d>>) = <<c, d>>
      OBVIOUS
    <2>1. PICK e \in Seq(Chars) : e = <<c>>
      <3>1. <<c>> \in Seq(Chars)
        OBVIOUS
      <3> QED
        BY <3>1, Zenon
    <2>2. Len(e) = 1 /\ e[1] = c
      BY <2>1
    <2>3. PICK s : s = Append(e, d)
      OBVIOUS
    <2>4. /\ s \in Seq(Chars) /\ Len(s) = Len(e) + 1 /\ s[Len(e) + 1] = d
          /\ \A i \in 1..Len(e) : s[i] = e[i]
      BY <2>3
    <2>5. Len(s) = 2 /\ s[1] = c /\ s[2] = d
      BY <2>2, <2>4
    <2>6. PICK t : t = <<c, d>>
      OBVIOUS
    <2>7. t \in Seq(Chars)
      BY <2>6
    <2>8. Len(t) = 2 /\ t[1] = c /\ t[2] = d
      BY <2>6
    <2>9. s = t
      BY <2>4, <2>5, <2>7, <2>8, SeqEqual
    <2>10. Append(e, d) = Cat(e, <<d>>)
      BY CatFacts
    <2> QED
      BY <2>1, <2>3, <2>6, <2>9, <2>10, Zenon
  <1>4. CASE next = LF
    <2>1. Held(next # NoChar, next) = <<LF>>
      BY <1>4 DEF Held, LF, NoChar
    <2>2. Code(LF) = Cat(<<CR>>, <<LF>>)
      <3>1. Code(LF) = <<CR, LF>>
        BY DEF Code, LF, CR, NUL
      <3> QED
        BY <1>2, <1>3, <3>1, Zenon
    <2> QED
      BY <1>1, <1>2, <1>4, <2>1, <2>2 DEF LF, NoChar
  <1>5. CASE next = NUL
    <2>1. Held(next # NoChar, next) = <<CR>>
      BY <1>5 DEF Held, LF, NUL, NoChar
    <2>2. Code(CR) = Cat(<<CR>>, <<NUL>>)
      <3>1. Code(CR) = <<CR, NUL>>
        BY DEF Code, LF, CR, NUL
      <3> QED
        BY <1>2, <1>3, <3>1, Zenon
    <2> QED
      BY <1>1, <1>2, <1>5, <2>1, <2>2 DEF NUL, NoChar
  <1>6. CASE next = NoChar
    <2>1. PICK b : b = <<>>
      OBVIOUS
    <2>2. b \in Seq(Chars) /\ Encode(b) = b
      BY <2>1, EncodeAppend
    <2>3. Cat(b, b) = b
      BY <2>1, <2>2, CatFacts
    <2>4. Held(next # NoChar, next) = b
      BY <1>6, <2>1 DEF Held
    <2> QED
      BY <1>6, <2>1, <2>2, <2>3, <2>4
  <1> QED
    BY <1>4, <1>5, <1>6

\* Nothing of the netascii form is lost between a reader and a writer that hold
\* the two halves of a pair, or neither.
LEMMA ConveysForm ==
  ASSUME NEW r, NEW w, NEW text, Conveys(r, w, text), InPairs(r, w),
         r.rest \in Seq(Chars), w.out \in Seq(Chars), w.lastcr \in BOOLEAN
  PROVE  Encode(w.out) \o (IF w.lastcr THEN <<CR>> ELSE <<>>)
           \o (IF r.next # NoChar THEN <<r.next>> ELSE <<>>)
           \o Encode(r.rest)
         = Encode(text)
  <1>1. PICK next \in {LF, NUL, NoChar} : next = r.next
    BY DEF Conveys
  <1>2. PICK o \in Seq(Chars), s \in Seq(Chars), h \in Seq(Chars) :
          o = w.out /\ s = r.rest /\ h = Held(next # NoChar, next)
    BY HeldCode
  <1>3. w.lastcr <=> next # NoChar
    BY <1>1 DEF InPairs
  <1>4. text = Cat(Cat(o, h), s)
    <2>1. Held(w.lastcr, r.next) = h
      BY <1>1, <1>2, <1>3
    <2> QED
      BY <1>2, <2>1, Zenon DEF Conveys, Cat
  <1>5. PICK p, q : /\ p = IF next # NoChar THEN <<CR>> ELSE <<>>
                    /\ q = IF next # NoChar THEN <<next>> ELSE <<>>
    OBVIOUS
  <1>6. p \in Seq(Chars) /\ q \in Seq(Chars)
    <2>1. \A c \in Chars : <<c>> \in Seq(Chars)
      OBVIOUS
    <2>2. <<>> \in Seq(Chars)
      OBVIOUS
    <2>3. next # NoChar => next \in Chars
      BY DEF Chars
    <2>4. CR \in Chars
      BY DEF Chars
    <2> QED
      BY <1>5, <2>1, <2>2, <2>3, <2>4
  <1>7. Encode(h) = Cat(p, q)
    BY <1>2, <1>5, HeldCode, Zenon
  <1>8. Encode(text) = Cat(Cat(Encode(o), Encode(h)), Encode(s))
    <2>1. Cat(o, h) \in Seq(Chars)
      BY CatFacts
    <2>2. Encode(Cat(Cat(o, h), s)) = Cat(Encode(Cat(o, h)), Encode(s))
      BY <2>1, EncodeConcat
    <2>3. Encode(Cat(o, h)) = Cat(Encode(o), Encode(h))
      BY EncodeConcat
    <2> QED
      BY <1>4, <2>2, <2>3, Zenon
  <1>9. Cat(Encode(o), Cat(p, q)) = Cat(Cat(Encode(o), p), q)
    <2>1. Encode(o) \in Seq(Chars)
      BY EncodeAppend
    <2> QED
      BY <1>6, <2>1, CatFacts
  <1>10. Encode(text) = Cat(Cat(Cat(Encode(o), p), q), Encode(s))
    BY <1>7, <1>8, <1>9, Zenon
  <1>11. p = IF w.lastcr THEN <<CR>> ELSE <<>>
    BY <1>3, <1>5
  <1>12. q = IF r.next # NoChar THEN <<r.next>> ELSE <<>>
    BY <1>1, <1>5
  <1> QED
    BY <1>2, <1>10, <1>11, <1>12, Zenon DEF Cat

\* The invariant is what InFlight says, for the blocks of a transfer that began
\* with nothing held back.
LEMMA NetInFlight ==
  ASSUME NetInv
  PROVE  InFlight
  <1>1. NetasciiTypeOK /\ Flow
    BY DEF NetInv
  <1>2. ASSUME phase \in {"get", "put"}, stale = <<>>
        PROVE  Encode(out) \o (IF Receiver.lastcr THEN <<CR>> ELSE <<>>)
                 \o (IF Sender.nextchar # NoChar THEN <<Sender.nextchar>> ELSE <<>>)
                 \o Encode(rest)
               = Encode(content)
    <2>1. PICK r, w : r = Reading(Sender, rest) /\ w = Writing(Receiver, out)
      OBVIOUS
    <2>2. stale # <<CR>>
      BY <1>2
    <2>3. Conveys(r, w, Target) /\ InPairs(r, w)
      BY <1>1, <1>2, <2>1, <2>2 DEF Flow, InTransfer, Carrying
    <2>4. /\ r.rest = rest /\ w.out = out
          /\ w.lastcr = Receiver.lastcr /\ r.next = Sender.nextchar
      BY <2>1 DEF Reading, Writing
    <2>5. /\ rest \in Seq(Chars) /\ out \in Seq(Chars) /\ content \in Seq(Chars)
          /\ Receiver.lastcr \in BOOLEAN
      BY <1>1, ContentsSeq DEF NetasciiTypeOK, Receiver, Globals
    <2>6. Target = content
      <3>1. Target = <<>> \o content
        BY <1>2, <2>2 DEF Target
      <3> QED
        BY <2>5, <3>1, ConcatEmptySeq
    <2> QED
      BY <2>3, <2>4, <2>5, <2>6, ConveysForm
  <1> QED
    BY <1>1, <1>2 DEF InFlight

-----------------------------------------------------------------------------
(* The theorems. *)

\* NetInv holds at every prompt and between any two blocks.
LEMMA NetInvariant ==
  NetasciiSpec => []NetInv
  <1>1. NetasciiInit => NetInv
    BY NetInit
  <1>2. NetInv /\ [NetasciiNext]_navars => NetInv'
    BY NetNext
  <1> QED
    BY <1>1, <1>2, PTL DEF NetasciiSpec

\* file_read() and file_write() lose nothing and add nothing wherever a block ends,
\* for blocks and files of any length: the CR that file_write() holds back in
\* lastcr and the second byte that file_read() holds back in nextchar are the
\* two halves of one pair.
THEOREM InFlightCorrect == NetasciiSpec => []InFlight
  <1>1. NetInv => InFlight
    BY NetInFlight
  <1> QED
    BY <1>1, NetInvariant, PTL

\* A netascii transfer that fsm_loop() ends normally has copied the file, behind
\* what the client's lastcr and nextchar held when it began.
THEOREM RoundTripCorrect == NetasciiSpec => []RoundTrip
  <1>1. NetInv => RoundTrip
    BY DEF NetInv
  <1> QED
    BY <1>1, NetInvariant, PTL

\* file_write() meets a CR it cannot convert, and file_close() of the server one
\* that is never completed, only in a client that a get was interrupted in before.
THEOREM ErrorCorrect == NetasciiSpec => []ErrorNeedsInterrupt
  <1>1. NetInv => ErrorNeedsInterrupt
    BY DEF NetInv
  <1> QED
    BY <1>1, NetInvariant, PTL
=============================================================================
