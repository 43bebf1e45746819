-------------------------------- MODULE Mime --------------------------------
(***************************************************************************)
(* The incremental codecs of luasocket's mime.c.  A byte is a number, a    *)
(* string a sequence of bytes.  The low-level functions take a context and *)
(* a chunk and return [out, ctx]; ending a filter is its call with a nil   *)
(* chunk.                                                                  *)
(***************************************************************************)
EXTENDS Bytes

ByteCR == 13
ByteLF == 10
EQ == 61
DOT == 46
CRLF == <<ByteCR, ByteLF>>
EQCRLF == <<EQ, ByteCR, ByteLF>>

b64base == [i \in 0..63 |->
  IF i < 26 THEN 65 + i
  ELSE IF i < 52 THEN 71 + i
  ELSE IF i < 62 THEN i - 4
  ELSE IF i = 62 THEN 43 ELSE 47]

b64unbase == [c \in 0..255 |->
  IF c = EQ THEN 0
  ELSE IF \E i \in 0..63 : b64base[i] = c THEN CHOOSE i \in 0..63 : b64base[i] = c
  ELSE 255]

(* What a codec has made of a string: the bytes it holds until it has seen *)
(* the ones after them, and what it has put out.                           *)
Held == [atom : Strings, out : Strings]
Nothing == [atom |-> <<>>, out |-> <<>>]

b64encode == [acc \in Held |-> [c \in Byte |->
  LET input == Append(acc.atom, c)
      value == (input[1] * 256 + input[2]) * 256 + input[3]
      code == <<b64base[((value \div 64) \div 64) \div 64], b64base[((value \div 64) \div 64) % 64],
                b64base[(value \div 64) % 64], b64base[value % 64]>>
  IN IF Len(input) < 3 THEN [atom |-> input, out |-> acc.out]
     ELSE [atom |-> <<>>, out |-> acc.out \o code]]]

b64pad(atom) ==
  LET one == atom[1] * 16
      two == (atom[1] * 256 + atom[2]) * 4
  IN IF Len(atom) = 1 THEN <<b64base[one \div 64], b64base[one % 64], EQ, EQ>>
     ELSE IF Len(atom) = 2
     THEN <<b64base[(two \div 64) \div 64], b64base[(two \div 64) % 64], b64base[two % 64], EQ>>
     ELSE <<>>

b64decode == [acc \in Held |-> [c \in Byte |->
  LET input == Append(acc.atom, c)
      value == ((b64unbase[input[1]] * 64 + b64unbase[input[2]]) * 64
                + b64unbase[input[3]]) * 64 + b64unbase[input[4]]
      valid == IF input[3] = EQ THEN 1 ELSE IF input[4] = EQ THEN 2 ELSE 3
      decoded == <<((value \div 256) \div 256) % 256, (value \div 256) % 256, value % 256>>
  IN IF b64unbase[c] > 64 THEN acc
     ELSE IF Len(input) < 4 THEN [atom |-> input, out |-> acc.out]
     ELSE [atom |-> <<>>, out |-> acc.out \o SubSeq(decoded, 1, valid)]]]

(* mime_global_b64 and mime_global_unb64                                   *)
b64(atom, chunk) == Loop(b64encode, Nothing, atom \o chunk)
b64End(atom) == b64pad(atom)
unb64(atom, chunk) == Loop(b64decode, Nothing, atom \o chunk)

qpclass == [c \in 0..255 |->
  IF c \in (33..60) \union (62..126) THEN "PLAIN"
  ELSE IF c = ByteCR THEN "CR"
  ELSE IF c \in {9, 32} THEN "IF_LAST" ELSE "QUOTED"]

(* The hexadecimal digit of d, and the value of a digit.                   *)
qpbase == [d \in 0..15 |-> IF d < 10 THEN 48 + d ELSE 55 + d]
qpunbase == [c \in 0..255 |->
  CASE c \in 48..57 -> c - 48
    [] c \in 65..70 -> c - 55
    [] c \in 97..102 -> c - 87
    [] OTHER -> 255]

qpquote(c) == <<EQ, qpbase[c \div 16], qpbase[c % 16]>>

(* A turn of the loop of qpencode: what is held until the bytes after it   *)
(* are seen stays as it is.                                                *)
qpdrain(acc, marker) ==
  LET atom == acc.atom
      Emit(text) == [atom |-> Tail(atom), out |-> acc.out \o text]
      Mark(text) == [atom |-> <<>>, out |-> acc.out \o text \o marker]
  IN IF atom = <<>> THEN acc
     ELSE IF qpclass[atom[1]] = "CR"
     THEN IF Len(atom) < 2 THEN acc
          ELSE IF atom[2] = ByteLF THEN Mark(<<>>)
          ELSE Emit(qpquote(ByteCR))
     ELSE IF qpclass[atom[1]] = "IF_LAST"
     THEN IF Len(atom) < 3 THEN acc
          ELSE IF SubSeq(atom, 2, 3) = CRLF THEN Mark(qpquote(atom[1]))
          ELSE Emit(<<atom[1]>>)
     ELSE Emit(IF qpclass[atom[1]] = "QUOTED" THEN qpquote(atom[1]) ELSE <<atom[1]>>)

(* The loop takes a turn for each byte at most.                            *)
qpencode(marker) == [acc \in Held |-> [c \in Byte |->
  LET input == Append(acc.atom, c)
  IN Loop([a \in Held |-> [b \in Byte |-> qpdrain(a, marker)]],
          [atom |-> input, out |-> acc.out], input)]]

qppad(atom) ==
  IF atom = <<>> THEN <<>>
  ELSE Concat([i \in 1..Len(atom) |->
         IF qpclass[atom[i]] = "PLAIN" THEN <<atom[i]>> ELSE qpquote(atom[i])]) \o EQCRLF

(* One atom at a time; a bare CR takes the byte after it along.            *)
qpdecode == [acc \in Held |-> [c \in Byte |->
  LET input == Append(acc.atom, c)
      hi == qpunbase[input[2]]
      lo == qpunbase[input[3]]
      Put(text) == [atom |-> <<>>, out |-> acc.out \o text]
      Hold == [atom |-> input, out |-> acc.out]
  IN IF input[1] = EQ
     THEN IF Len(input) < 3 THEN Hold
          ELSE IF input[2] = ByteCR /\ input[3] = ByteLF THEN Put(<<>>)
          ELSE IF hi > 15 \/ lo > 15 THEN Put(input)
          ELSE Put(<<hi * 16 + lo>>)
     ELSE IF input[1] = ByteCR
     THEN IF Len(input) < 2 THEN Hold
          ELSE Put(IF input[2] = ByteLF THEN CRLF ELSE <<>>)
     ELSE Put(IF input[1] = 9 \/ input[1] \in 32..126 THEN <<input[1]>> ELSE <<>>)]]

(* mime_global_qp and mime_global_unqp                                     *)
qp(atom, chunk, marker) == Loop(qpencode(marker), Nothing, atom \o chunk)
qpEnd(atom) == qppad(atom)
unqp(atom, chunk) == Loop(qpdecode, Nothing, atom \o chunk)

(* The line wraps: left is the room on the current line.                   *)
Wrapped == [out : Strings, left : Int]
Wrote(acc, text, left) == [out |-> acc.out \o text, left |-> left]

wrpbyte(length) == [acc \in Wrapped |-> [c \in Byte |->
  IF c = ByteCR THEN acc
  ELSE IF c = ByteLF THEN Wrote(acc, CRLF, length)
  ELSE IF acc.left <= 0 THEN Wrote(acc, CRLF \o <<c>>, length - 1)
  ELSE Wrote(acc, <<c>>, acc.left - 1)]]

(* Mutant: the room that an "=" needs leaves out the "=" of a soft break.  *)
qpwrpbyteTight(length) == [acc \in Wrapped |-> [c \in Byte |->
  IF c = ByteCR THEN acc
  ELSE IF c = ByteLF THEN Wrote(acc, CRLF, length)
  ELSE IF acc.left <= (IF c = EQ THEN 2 ELSE 1)
  THEN Wrote(acc, EQCRLF \o <<c>>, length - 1)
  ELSE Wrote(acc, <<c>>, acc.left - 1)]]

qpwrpbyte(length) == [acc \in Wrapped |-> [c \in Byte |->
  IF c = ByteCR THEN acc
  ELSE IF c = ByteLF THEN Wrote(acc, CRLF, length)
  ELSE IF acc.left <= (IF c = EQ THEN 3 ELSE 1)
  THEN Wrote(acc, EQCRLF \o <<c>>, length - 1)
  ELSE Wrote(acc, <<c>>, acc.left - 1)]]

wrp(left, chunk, length) == Loop(wrpbyte(length), [out |-> <<>>, left |-> left], chunk)
wrpEnd(left, length) == IF left < length THEN CRLF ELSE <<>>

qpwrp(left, chunk, length) == Loop(qpwrpbyte(length), [out |-> <<>>, left |-> left], chunk)
qpwrpEnd(left, length) == IF left < length THEN EQCRLF ELSE <<>>

(* End-of-line normalization: last is the candidate just seen, or 0.       *)
eolprocess(marker) == [acc \in [out : Strings, last : Byte] |-> [c \in Byte |->
  LET Candidate(x) == x \in {ByteCR, ByteLF}
      Put(text, last) == [out |-> acc.out \o text, last |-> last]
  IN IF ~Candidate(c) THEN Put(<<c>>, 0)
     ELSE IF ~Candidate(acc.last) THEN Put(marker, c)
     ELSE Put(IF c = acc.last THEN marker ELSE <<>>, 0)]]

eol(last, chunk, marker) == Loop(eolprocess(marker), [out |-> <<>>, last |-> last], chunk)

(* SMTP stuffing: state 2 is the beginning of a line, 1 after a CR.        *)
dotbyte == [acc \in [out : Strings, state : 0..2] |-> [c \in Byte |->
  [out |-> acc.out \o (IF c = DOT /\ acc.state = 2 THEN <<DOT, DOT>> ELSE <<c>>),
   state |-> IF c = ByteCR THEN 1 ELSE IF c = ByteLF /\ acc.state = 1 THEN 2 ELSE 0]]]

dot(state, chunk) == Loop(dotbyte, [out |-> <<>>, state |-> state], chunk)
=============================================================================
