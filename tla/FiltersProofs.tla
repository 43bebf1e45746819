---------------------------- MODULE FiltersProofs ----------------------------
(***************************************************************************)
(* Proofs about the filters of mime.lua, url.lua and mime.c, for every     *)
(* text, every way of cutting it into chunks, every line length of at      *)
(* least 4 and both line markers: what a filter has written, read back by  *)
(* the one that undoes it, is what went in, less the bytes the encoder     *)
(* still holds, and no line is longer than it may be.  A wrapped line may  *)
(* be cut anywhere between two codes, so the invariant says of what the    *)
(* encoder wrote what it means to the decoder however it is wrapped.       *)
(***************************************************************************)
EXTENDS Filters, SequenceTheorems, NaturalsInduction, WellFoundedInduction, TLAPS

-----------------------------------------------------------------------------
(* Induction over the natural numbers, for sets of them: the library's     *)
(* theorems that take a predicate cannot be instantiated.                  *)
LEMMA LeastNat == ASSUME NEW T, T \subseteq Nat, T # {}
  PROVE \E x \in T : \A y \in T : x <= y
<1> DEFINE R == {ss \in Nat \X Nat : ss[1] < ss[2]}
<1>1. IsWellFoundedOn(R, Nat)
  BY NatLessThanWellFounded DEF OpToRel
<1>2. PICK x \in T : \A y \in T : ~ (<<y, x>> \in R)
  <2> HIDE DEF R
  <2>1. QED
    BY <1>1, WFMin, Zenon
<1>3. ASSUME NEW y \in T PROVE x <= y
  <2>1. x \in Nat /\ y \in Nat
    OBVIOUS
  <2>2. ~ (<<y, x>> \in R)
    BY <1>2
  <2>3. ~ (y < x)
    BY <2>1, <2>2
  <2>4. QED
    BY <2>1, <2>3
<1>4. QED
  BY <1>3

LEMMA NatInd == ASSUME NEW S, 0 \in S, \A n \in Nat : n \in S => n + 1 \in S PROVE Nat \subseteq S
<1> DEFINE T == Nat \ S
<1>1. CASE T = {}
  BY <1>1
<1>2. CASE T # {}
  <2>1. PICK x \in T : \A y \in T : x <= y
    <3> HIDE DEF T
    <3>1. T \subseteq Nat BY DEF T
    <3>2. QED
      BY <1>2, <3>1, LeastNat, Zenon
  <2>2. x \in Nat /\ x # 0 /\ x \notin S
    OBVIOUS
  <2>3. x - 1 \in Nat /\ x - 1 \notin T
    BY <2>1, <2>2
  <2>4. (x - 1) + 1 = x
    BY <2>2
  <2>5. QED
    BY <2>2, <2>3, <2>4
<1>3. QED BY <1>1, <1>2

-----------------------------------------------------------------------------
(* The loops of the codecs, for any body: what a loop makes of a string    *)
(* with one more byte, of a concatenation, and that it keeps a type.       *)
RunOf(body, start, s, n, f) ==
  f = [i \in 0 .. n |-> IF i = 0 THEN start ELSE body[f[i - 1]][s[i]]]

LEMMA RunAt ==
  ASSUME NEW body, NEW start, NEW s, NEW n, NEW f, RunOf(body, start, s, n, f), n \in Nat
  PROVE  f[0] = start /\ \A i \in 1 .. n : f[i] = body[f[i - 1]][s[i]]
<1> DEFINE k(i) == IF i = 0 THEN start ELSE body[f[i - 1]][s[i]]
<1>1. f = [i \in 0 .. n |-> k(i)]
  BY DEF RunOf
<1>2. ASSUME NEW i \in 0 .. n PROVE f[i] = k(i)
  <2> HIDE DEF k
  <2>1. QED
    BY <1>1
<1>3. f[0] = start
  BY <1>2
<1>4. ASSUME NEW i \in 1 .. n PROVE f[i] = body[f[i - 1]][s[i]]
  <2>1. i \in 0 .. n /\ i # 0
    OBVIOUS
  <2>2. QED
    BY <1>2, <2>1
<1>5. QED
  BY <1>3, <1>4

LEMMA RunGrows ==
  ASSUME NEW body, NEW start, NEW s, NEW n, NEW f, RunOf(body, start, s, n, f), n \in Nat
  PROVE  \E g : RunOf(body, start, s, n + 1, g)
<1> DEFINE g == [i \in 0 .. n + 1 |-> IF i <= n THEN f[i] ELSE body[f[n]][s[n + 1]]]
           h == [i \in 0 .. n + 1 |-> IF i = 0 THEN start ELSE body[g[i - 1]][s[i]]]
<1>1. ASSUME NEW i \in 0 .. n + 1 PROVE g[i] = h[i]
  <2>1. CASE i = n + 1
    <3>1. i # 0 /\ i - 1 = n /\ ~(i <= n) /\ n \in 0 .. n + 1 /\ n <= n
      BY <2>1
    <3>2. g[n] = f[n]
      BY <3>1
    <3>3. QED
      BY <2>1, <3>1, <3>2
  <2>2. CASE i # n + 1
    <3>1. i \in 0 .. n /\ i <= n
      BY <2>2
    <3>2. f[i] = IF i = 0 THEN start ELSE body[f[i - 1]][s[i]]
      <4>1. f[0] = start /\ \A j \in 1 .. n : f[j] = body[f[j - 1]][s[j]]
        BY RunAt
      <4>2. i # 0 => i \in 1 .. n
        BY <3>1
      <4>3. QED
        BY <4>1, <4>2
    <3>3. i # 0 => i - 1 \in 0 .. n + 1 /\ i - 1 <= n
      BY <3>1
    <3>4. i # 0 => g[i - 1] = f[i - 1]
      BY <3>3
    <3>5. QED
      BY <3>1, <3>2, <3>4
  <2>3. QED
    BY <2>1, <2>2
<1>2. g = h
  BY <1>1
<1>3. RunOf(body, start, s, n + 1, g)
  BY <1>2 DEF RunOf
<1>4. QED
  BY <1>3

LEMMA RunExists ==
  ASSUME NEW body, NEW start, NEW s, NEW n \in Nat
  PROVE  \E f : RunOf(body, start, s, n, f)
<1> DEFINE S == {m \in Nat : \E f : RunOf(body, start, s, m, f)}
<1>1. 0 \in S
  <2> DEFINE f == [i \in 0 .. 0 |-> start]
  <2>1. f = [i \in 0 .. 0 |-> IF i = 0 THEN start ELSE body[f[i - 1]][s[i]]]
    OBVIOUS
  <2>2. RunOf(body, start, s, 0, f)
    BY <2>1 DEF RunOf
  <2>3. QED
    BY <2>2
<1>2. ASSUME NEW m \in Nat, m \in S PROVE m + 1 \in S
  BY <1>2, RunGrows
<1> HIDE DEF S
<1>3. Nat \subseteq S
  BY <1>1, <1>2, NatInd
<1>4. QED
  BY <1>3 DEF S

LEMMA LoopIs ==
  ASSUME NEW body, NEW start, NEW s, Len(s) \in Nat
  PROVE  \E f : RunOf(body, start, s, Len(s), f) /\ Loop(body, start, s) = f[Len(s)]
<1>1. \E f : RunOf(body, start, s, Len(s), f)
  BY RunExists
<1>2. RunOf(body, start, s, Len(s), CHOOSE f : RunOf(body, start, s, Len(s), f))
  BY <1>1
<1>3. Loop(body, start, s) = (CHOOSE f : RunOf(body, start, s, Len(s), f))[Len(s)]
  BY DEF Loop, RunOf
<1>4. QED
  BY <1>2, <1>3, Zenon

LEMMA LoopNone ==
  ASSUME NEW body, NEW start
  PROVE  Loop(body, start, << >>) = start
<1>1. Len(<< >>) = 0
  OBVIOUS
<1>2. PICK f : RunOf(body, start, << >>, 0, f) /\ Loop(body, start, << >>) = f[0]
  BY <1>1, LoopIs
<1>3. 0 \in Nat /\ RunOf(body, start, << >>, 0, f)
  BY <1>2
<1>4. f[0] = start
  BY <1>3, RunAt
<1>5. QED
  BY <1>2, <1>4

LEMMA LoopAppend ==
  ASSUME NEW S, NEW s \in Seq(S), NEW c \in S, NEW body, NEW start
  PROVE  Loop(body, start, Append(s, c)) = body[Loop(body, start, s)][c]
<1> DEFINE t == Append(s, c)
<1>1. /\ Len(s) \in Nat /\ Len(t) = Len(s) + 1
      /\ (\A i \in 1 .. Len(s) : t[i] = s[i]) /\ t[Len(s) + 1] = c
  OBVIOUS
<1> HIDE DEF t
<1>2. PICK f : RunOf(body, start, s, Len(s), f) /\ Loop(body, start, s) = f[Len(s)]
  BY <1>1, LoopIs
<1>3. PICK g : RunOf(body, start, t, Len(t), g) /\ Loop(body, start, t) = g[Len(t)]
  BY <1>1, LoopIs
<1>4. f[0] = start /\ \A i \in 1 .. Len(s) : f[i] = body[f[i - 1]][s[i]]
  <2>1. Len(s) \in Nat /\ RunOf(body, start, s, Len(s), f)
    BY <1>1, <1>2
  <2>2. QED
    BY <2>1, RunAt
<1>5. g[0] = start /\ \A i \in 1 .. Len(s) + 1 : g[i] = body[g[i - 1]][t[i]]
  <2>1. Len(t) \in Nat /\ RunOf(body, start, t, Len(t), g)
    BY <1>1, <1>3
  <2>2. g[0] = start /\ \A i \in 1 .. Len(t) : g[i] = body[g[i - 1]][t[i]]
    BY <2>1, RunAt
  <2>3. QED
    BY <1>1, <2>2
<1> DEFINE P == {m \in Nat : m <= Len(s) => g[m] = f[m]}
<1>6. 0 \in P
  BY <1>4, <1>5
<1>7. ASSUME NEW m \in Nat, m \in P PROVE m + 1 \in P
  <2>1. CASE m + 1 <= Len(s)
    <3>1. m + 1 \in 1 .. Len(s) /\ m + 1 \in 1 .. Len(s) + 1 /\ (m + 1) - 1 = m /\ g[m] = f[m]
      BY <1>1, <1>7, <2>1
    <3>2. QED
      BY <1>1, <1>4, <1>5, <3>1
  <2>2. QED
    BY <2>1
<1> HIDE DEF P
<1>8. Nat \subseteq P
  BY <1>6, <1>7, NatInd
<1>9. g[Len(s)] = f[Len(s)]
  BY <1>1, <1>8 DEF P
<1>10. Len(s) + 1 \in 1 .. Len(s) + 1 /\ (Len(s) + 1) - 1 = Len(s)
  BY <1>1
<1>11. g[Len(s) + 1] = body[g[Len(s)]][t[Len(s) + 1]]
  BY <1>5, <1>10
<1>12. QED
  BY <1>1, <1>2, <1>3, <1>9, <1>11 DEF t

(* Induction over sequences, for a set of them that holds the empty one    *)
(* and, with a sequence, every one that is longer by an element.           *)
LEMMA SeqInd ==
  ASSUME NEW S, NEW P, << >> \in P, \A s \in Seq(S) : \A c \in S : s \in P => Append(s, c) \in P
  PROVE  Seq(S) \subseteq P
<1> DEFINE N == {n \in Nat : \A s \in Seq(S) : Len(s) = n => s \in P}
<1>1. 0 \in N
  <2>1. ASSUME NEW s \in Seq(S), Len(s) = 0 PROVE s = << >>
    BY <2>1
  <2>2. QED
    BY <2>1
<1>2. ASSUME NEW n \in Nat, n \in N PROVE n + 1 \in N
  <2>1. ASSUME NEW s \in Seq(S), Len(s) = n + 1 PROVE s \in P
    <3>1. s # << >>
      BY <2>1
    <3>2. PICK r \in Seq(S), c \in S : s = Append(r, c)
      BY <3>1, SequenceEmptyOrAppend
    <3>3. Len(s) = Len(r) + 1 /\ Len(r) \in Nat
      BY <3>2
    <3>4. Len(r) = n
      BY <2>1, <3>3
    <3>5. r \in P
      BY <1>2, <3>4
    <3>6. QED
      BY <3>2, <3>5
  <2>2. QED
    BY <2>1
<1> HIDE DEF N
<1>3. Nat \subseteq N
  BY <1>1, <1>2, NatInd
<1>4. ASSUME NEW s \in Seq(S) PROVE s \in P
  <2>1. Len(s) \in Nat
    OBVIOUS
  <2>2. Len(s) \in N
    BY <1>3, <2>1
  <2>3. QED
    BY <2>2 DEF N
<1>5. QED
  BY <1>4

LEMMA AppendToConcat ==
  ASSUME NEW S, NEW x \in Seq(S), NEW y \in Seq(S), NEW e \in S
  PROVE  /\ x \o Append(y, e) = Append(x \o y, e)
         /\ x \o y \in Seq(S) /\ Append(x, e) \in Seq(S) /\ Append(x, e) = x \o <<e>>
<1>1. x \o y \in Seq(S) /\ <<e>> \in Seq(S)
  OBVIOUS
<1>2. Append(x \o y, e) = (x \o y) \o <<e>> /\ Append(y, e) = y \o <<e>> /\ Append(x, e) = x \o <<e>>
  BY <1>1, AppendIsConcat, Zenon
<1>3. (x \o y) \o <<e>> = x \o (y \o <<e>>)
  BY <1>1, ConcatAssociative
<1>4. QED
  BY <1>1, <1>2, <1>3

LEMMA LoopConcat ==
  ASSUME NEW S, NEW s \in Seq(S), NEW t \in Seq(S), NEW body, NEW start
  PROVE  Loop(body, start, s \o t) = Loop(body, Loop(body, start, s), t)
<1> DEFINE mid == Loop(body, start, s)
           P == {r \in Seq(S) : Loop(body, start, s \o r) = Loop(body, mid, r)}
<1>1. << >> \in P
  <2>1. << >> \in Seq(S) /\ s \o << >> = s
    OBVIOUS
  <2>2. Loop(body, mid, << >>) = mid
    BY LoopNone
  <2>3. QED
    BY <2>1, <2>2
<1> HIDE DEF mid
<1>2. ASSUME NEW r \in Seq(S), NEW c \in S, r \in P PROVE Append(r, c) \in P
  <2>1. s \o Append(r, c) = Append(s \o r, c) /\ s \o r \in Seq(S) /\ Append(r, c) \in Seq(S)
    BY AppendToConcat
  <2>2. Loop(body, start, Append(s \o r, c)) = body[Loop(body, start, s \o r)][c]
    BY <2>1, LoopAppend, Zenon
  <2>3. Loop(body, mid, Append(r, c)) = body[Loop(body, mid, r)][c]
    BY LoopAppend
  <2>4. Loop(body, start, s \o r) = Loop(body, mid, r)
    BY <1>2
  <2>5. QED
    BY <2>1, <2>2, <2>3, <2>4, Zenon
<1> HIDE DEF P
<1>3. Seq(S) \subseteq P
  BY <1>1, <1>2, SeqInd
<1>4. QED
  BY <1>3 DEF P, mid

LEMMA LoopTyped ==
  ASSUME NEW S, NEW T, NEW body, NEW start \in T, \A a \in T : \A c \in S : body[a][c] \in T,
         NEW s \in Seq(S)
  PROVE  Loop(body, start, s) \in T
<1> DEFINE P == {r \in Seq(S) : Loop(body, start, r) \in T}
<1>1. << >> \in P
  BY LoopNone
<1>2. ASSUME NEW r \in Seq(S), NEW c \in S, r \in P PROVE Append(r, c) \in P
  <2>1. Loop(body, start, Append(r, c)) = body[Loop(body, start, r)][c]
    BY LoopAppend
  <2>2. Append(r, c) \in Seq(S)
    OBVIOUS
  <2>3. QED
    BY <1>2, <2>1, <2>2
<1> HIDE DEF P
<1>3. Seq(S) \subseteq P
  BY <1>1, <1>2, SeqInd
<1>4. QED
  BY <1>3 DEF P

(* A concatenation of pieces with one more piece.                          *)
LEMMA ConcatNone == Concat(<< >>) = << >>
  BY LoopNone DEF Concat

LEMMA ConcatAppend ==
  ASSUME NEW p \in Seq(Strings), NEW t \in Strings
  PROVE  Concat(p) \in Strings /\ Concat(Append(p, t)) = Concat(p) \o t
<1> DEFINE body == [s \in Strings |-> [piece \in Strings |-> s \o piece]]
<1>1. << >> \in Strings
  BY DEF Strings
<1>2. ASSUME NEW a \in Strings, NEW b \in Strings PROVE body[a][b] = a \o b /\ body[a][b] \in Strings
  BY DEF Strings
<1>3. Concat(p) = Loop(body, << >>, p) /\ Concat(Append(p, t)) = Loop(body, << >>, Append(p, t))
  BY DEF Concat
<1> HIDE DEF body
<1>4. Loop(body, << >>, p) \in Strings
  BY <1>1, <1>2, LoopTyped, Zenon
<1>5. Loop(body, << >>, Append(p, t)) = body[Loop(body, << >>, p)][t]
  BY LoopAppend
<1>6. QED
  BY <1>2, <1>3, <1>4, <1>5, Zenon

LEMMA ConcatGrows ==
  ASSUME NEW n \in Nat, NEW p \in [1 .. n -> Strings], NEW q \in [1 .. n + 1 -> Strings],
         \A i \in 1 .. n : q[i] = p[i]
  PROVE  Concat(p) \in Strings /\ Concat(q) = Concat(p) \o q[n + 1]
<1>1. p \in Seq(Strings) /\ Len(p) = n
  OBVIOUS
<1>2. n + 1 \in Nat /\ n + 1 \in 1 .. n + 1
  OBVIOUS
<1>3. q \in Seq(Strings) /\ Len(q) = n + 1 /\ q[n + 1] \in Strings
  BY <1>2
<1>4. /\ Append(p, q[n + 1]) \in Seq(Strings) /\ Len(Append(p, q[n + 1])) = n + 1
      /\ \A i \in 1 .. n : Append(p, q[n + 1])[i] = p[i]
      /\ Append(p, q[n + 1])[n + 1] = q[n + 1]
  BY <1>1, <1>3, AppendProperties
<1>5. \A i \in 1 .. n + 1 : q[i] = Append(p, q[n + 1])[i]
  BY <1>4
<1>6. q = Append(p, q[n + 1])
  BY <1>3, <1>4, <1>5, SeqEqual
<1>7. QED
  BY <1>1, <1>3, <1>6, ConcatAppend, Zenon

(* Recursion over a sequence by what is left of it: a function that puts   *)
(* the head of what it is given before what it makes of the rest exists.   *)
Shorter(S, n) == {s \in Seq(S) : Len(s) <= n}

Recurs(D, head, rest, f) == f = [s \in D |-> IF s = << >> THEN << >> ELSE head[s] \o f[rest[s]]]

LEMMA RecursAt ==
  ASSUME NEW D, NEW head, NEW rest, NEW f, Recurs(D, head, rest, f)
  PROVE  \A s \in D : f[s] = IF s = << >> THEN << >> ELSE head[s] \o f[rest[s]]
<1> DEFINE k(s) == IF s = << >> THEN << >> ELSE head[s] \o f[rest[s]]
<1>1. f = [s \in D |-> k(s)]
  BY Zenon DEF Recurs
<1>2. ASSUME NEW s \in D PROVE f[s] = k(s)
  <2> HIDE DEF k
  <2>1. QED
    BY <1>1
<1>3. QED
  BY <1>2

LEMMA RecursGrows ==
  ASSUME NEW S, NEW head, NEW rest, NEW n, NEW f, n \in Nat,
         \A s \in Seq(S) : s # << >> => rest[s] \in Seq(S) /\ Len(rest[s]) < Len(s),
         Recurs(Shorter(S, n), head, rest, f)
  PROVE  \E g : Recurs(Shorter(S, n + 1), head, rest, g)
<1> DEFINE g == [s \in Shorter(S, n + 1) |-> IF s = << >> THEN << >> ELSE head[s] \o f[rest[s]]]
           h == [s \in Shorter(S, n + 1) |-> IF s = << >> THEN << >> ELSE head[s] \o g[rest[s]]]
<1>1. \A s \in Shorter(S, n) : f[s] = IF s = << >> THEN << >> ELSE head[s] \o f[rest[s]]
  BY RecursAt
<1>2. ASSUME NEW s \in Shorter(S, n) PROVE g[s] = f[s]
  <2>1. s \in Shorter(S, n + 1)
    BY DEF Shorter
  <2>2. g[s] = IF s = << >> THEN << >> ELSE head[s] \o f[rest[s]]
    BY <2>1
  <2>3. QED
    BY <1>1, <2>2
<1>3. ASSUME NEW s \in Shorter(S, n + 1) PROVE g[s] = h[s]
  <2>1. CASE s = << >>
    BY <2>1
  <2>2. CASE s # << >>
    <3>1. rest[s] \in Seq(S) /\ Len(rest[s]) < Len(s) /\ Len(s) <= n + 1 /\ Len(s) \in Nat
          /\ Len(rest[s]) \in Nat
      BY <2>2 DEF Shorter
    <3>2. rest[s] \in Shorter(S, n)
      BY <3>1 DEF Shorter
    <3>3. g[rest[s]] = f[rest[s]]
      BY <1>2, <3>2, Zenon
    <3>4. g[s] = head[s] \o f[rest[s]]
      BY <2>2, Zenon
    <3>5. h[s] = head[s] \o g[rest[s]]
      <4> HIDE DEF g
      <4>1. QED
        BY <2>2, Zenon
    <3>6. QED
      BY <3>3, <3>4, <3>5
  <2>3. QED
    BY <2>1, <2>2
<1>4. g = h
  BY <1>3, Zenon
<1>5. Recurs(Shorter(S, n + 1), head, rest, g)
  BY <1>4, Zenon DEF Recurs
<1>6. QED
  BY <1>5

LEMMA RecursTo ==
  ASSUME NEW S, NEW head, NEW rest, NEW n, n \in Nat,
         \A s \in Seq(S) : s # << >> => rest[s] \in Seq(S) /\ Len(rest[s]) < Len(s)
  PROVE  \E f : Recurs(Shorter(S, n), head, rest, f)
<1> DEFINE N == {m \in Nat : \E f : Recurs(Shorter(S, m), head, rest, f)}
<1>1. 0 \in N
  <2> DEFINE f == [s \in Shorter(S, 0) |-> << >>]
  <2>1. ASSUME NEW s \in Shorter(S, 0) PROVE s = << >>
    BY DEF Shorter
  <2>2. f = [s \in Shorter(S, 0) |-> IF s = << >> THEN << >> ELSE head[s] \o f[rest[s]]]
    BY <2>1, Zenon
  <2>3. Recurs(Shorter(S, 0), head, rest, f)
    BY <2>2, Zenon DEF Recurs
  <2>4. QED
    BY <2>3
<1>2. ASSUME NEW m \in Nat, m \in N PROVE m + 1 \in N
  BY <1>2, RecursGrows
<1> HIDE DEF N
<1>3. Nat \subseteq N
  BY <1>1, <1>2, NatInd
<1>4. QED
  BY <1>3 DEF N

LEMMA RecursAgree ==
  ASSUME NEW S, NEW head, NEW rest, NEW n, NEW m, NEW f, NEW g, n \in Nat, m \in Nat, m <= n,
         \A s \in Seq(S) : s # << >> => rest[s] \in Seq(S) /\ Len(rest[s]) < Len(s),
         Recurs(Shorter(S, n), head, rest, f), Recurs(Shorter(S, m), head, rest, g)
  PROVE  \A s \in Shorter(S, m) : f[s] = g[s]
<1> DEFINE K == {k \in Nat : \A s \in Shorter(S, m) : Len(s) <= k => f[s] = g[s]}
<1>1. ASSUME NEW s \in Shorter(S, m) PROVE s \in Shorter(S, n) /\ s \in Seq(S) /\ Len(s) \in Nat /\ Len(s) <= m
  BY DEF Shorter
<1>2. \A s \in Shorter(S, n) : f[s] = IF s = << >> THEN << >> ELSE head[s] \o f[rest[s]]
  BY RecursAt
<1>3. \A s \in Shorter(S, m) : g[s] = IF s = << >> THEN << >> ELSE head[s] \o g[rest[s]]
  BY RecursAt
<1>4. 0 \in K
  <2>1. ASSUME NEW s \in Shorter(S, m), Len(s) <= 0 PROVE f[s] = g[s]
    <3>1. s = << >>
      BY <1>1, <2>1
    <3>2. QED
      BY <1>1, <1>2, <1>3, <3>1
  <2>2. QED
    BY <2>1
<1>5. ASSUME NEW k \in Nat, k \in K PROVE k + 1 \in K
  <2>1. ASSUME NEW s \in Shorter(S, m), Len(s) <= k + 1 PROVE f[s] = g[s]
    <3>1. CASE s = << >>
      BY <1>1, <1>2, <1>3, <3>1
    <3>2. CASE s # << >>
      <4>1. rest[s] \in Seq(S) /\ Len(rest[s]) < Len(s) /\ Len(rest[s]) \in Nat
        BY <1>1, <3>2
      <4>2. rest[s] \in Shorter(S, m) /\ Len(rest[s]) <= k
        BY <1>1, <2>1, <4>1 DEF Shorter
      <4>3. f[rest[s]] = g[rest[s]]
        BY <1>5, <4>2
      <4>4. QED
        BY <1>1, <1>2, <1>3, <3>2, <4>3
    <3>3. QED
      BY <3>1, <3>2
  <2>2. QED
    BY <2>1
<1> HIDE DEF K
<1>6. Nat \subseteq K
  BY <1>4, <1>5, NatInd
<1>7. m \in K /\ \A s \in Shorter(S, m) : Len(s) <= m
  BY <1>1, <1>6
<1>8. QED
  BY <1>7 DEF K

LEMMA RecursExists ==
  ASSUME NEW S, NEW head, NEW rest,
         \A s \in Seq(S) : s # << >> => rest[s] \in Seq(S) /\ Len(rest[s]) < Len(s)
  PROVE  \E f : Recurs(Seq(S), head, rest, f)
<1> DEFINE F(n) == CHOOSE f : Recurs(Shorter(S, n), head, rest, f)
           g == [s \in Seq(S) |-> F(Len(s))[s]]
           h == [s \in Seq(S) |-> IF s = << >> THEN << >> ELSE head[s] \o g[rest[s]]]
<1>1. ASSUME NEW n \in Nat PROVE Recurs(Shorter(S, n), head, rest, F(n))
  <2>1. \E f : Recurs(Shorter(S, n), head, rest, f)
    BY RecursTo, Zenon
  <2>2. QED
    BY <2>1
<1> HIDE DEF F
<1>2. ASSUME NEW s \in Seq(S) PROVE g[s] = h[s]
  <2>1. Len(s) \in Nat /\ s \in Shorter(S, Len(s)) /\ g[s] = F(Len(s))[s]
    BY DEF Shorter
  <2>2. Recurs(Shorter(S, Len(s)), head, rest, F(Len(s)))
    BY <1>1, <2>1
  <2>3. F(Len(s))[s] = IF s = << >> THEN << >> ELSE head[s] \o F(Len(s))[rest[s]]
    BY <2>1, <2>2, RecursAt
  <2>4. CASE s = << >>
    BY <2>1, <2>3, <2>4
  <2>5. CASE s # << >>
    <3>1. rest[s] \in Seq(S) /\ Len(rest[s]) < Len(s) /\ Len(rest[s]) \in Nat
      BY <2>5
    <3>2. rest[s] \in Shorter(S, Len(rest[s])) /\ Len(rest[s]) <= Len(s)
      BY <2>1, <3>1 DEF Shorter
    <3>3. Recurs(Shorter(S, Len(rest[s])), head, rest, F(Len(rest[s])))
      BY <1>1, <3>1
    <3>4. F(Len(s))[rest[s]] = F(Len(rest[s]))[rest[s]]
      BY <2>1, <2>2, <3>1, <3>2, <3>3, RecursAgree
    <3>5. g[rest[s]] = F(Len(rest[s]))[rest[s]]
      BY <3>1
    <3>6. h[s] = head[s] \o g[rest[s]]
      <4> HIDE DEF g
      <4>1. QED
        BY <2>5, Zenon
    <3>7. QED
      BY <2>1, <2>3, <2>5, <3>4, <3>5, <3>6, Zenon
  <2>6. QED
    BY <2>4, <2>5
<1>3. g = h
  BY <1>2, Zenon
<1>4. Recurs(Seq(S), head, rest, g)
  BY <1>3, Zenon DEF Recurs
<1>5. QED
  BY <1>4

LEMMA RecursTyped ==
  ASSUME NEW S, NEW T, NEW head, NEW rest, NEW f,
         \A s \in Seq(S) : s # << >> => rest[s] \in Seq(S) /\ Len(rest[s]) < Len(s),
         \A s \in Seq(S) : s # << >> => head[s] \in Seq(T),
         Recurs(Seq(S), head, rest, f)
  PROVE  \A s \in Seq(S) : f[s] \in Seq(T)
<1> DEFINE K == {k \in Nat : \A s \in Seq(S) : Len(s) <= k => f[s] \in Seq(T)}
<1>1. \A s \in Seq(S) : f[s] = IF s = << >> THEN << >> ELSE head[s] \o f[rest[s]]
  BY RecursAt
<1>2. << >> \in Seq(S) /\ f[<< >>] = << >> /\ << >> \in Seq(T)
  <2>1. << >> \in Seq(S)
    OBVIOUS
  <2>2. << >> \in Seq(T)
    OBVIOUS
  <2>3. f[<< >>] = << >>
    BY <1>1, <2>1, Zenon
  <2>4. QED
    BY <2>1, <2>2, <2>3
<1>3. 0 \in K
  <2>1. ASSUME NEW s \in Seq(S), Len(s) <= 0 PROVE f[s] \in Seq(T)
    <3>1. s = << >>
      BY <2>1
    <3>2. QED
      BY <1>2, <3>1, Zenon
  <2>2. QED
    BY <2>1
<1>4. ASSUME NEW k \in Nat, k \in K PROVE k + 1 \in K
  <2>1. ASSUME NEW s \in Seq(S), Len(s) <= k + 1 PROVE f[s] \in Seq(T)
    <3>1. CASE s = << >>
      BY <1>2, <3>1, Zenon
    <3>2. CASE s # << >>
      <4>1. rest[s] \in Seq(S) /\ Len(rest[s]) < Len(s) /\ Len(rest[s]) \in Nat /\ Len(s) \in Nat
        BY <3>2
      <4>2. Len(rest[s]) <= k
        BY <2>1, <4>1
      <4>3. f[rest[s]] \in Seq(T) /\ head[s] \in Seq(T)
        BY <1>4, <3>2, <4>1, <4>2
      <4>4. f[s] = head[s] \o f[rest[s]]
        BY <1>1, <3>2, Zenon
      <4>5. PICK a : a = head[s]
        OBVIOUS
      <4>6. PICK b : b = f[rest[s]]
        OBVIOUS
      <4>7. a \in Seq(T) /\ b \in Seq(T)
        BY <4>3, <4>5, <4>6
      <4>8. a \o b \in Seq(T)
        BY <4>7
      <4>9. QED
        BY <4>4, <4>5, <4>6, <4>8
    <3>3. QED
      BY <3>1, <3>2
  <2>2. QED
    BY <2>1
<1> HIDE DEF K
<1>5. Nat \subseteq K
  BY <1>3, <1>4, NatInd
<1>6. ASSUME NEW s \in Seq(S) PROVE f[s] \in Seq(T)
  <2>1. Len(s) \in Nat /\ Len(s) <= Len(s)
    OBVIOUS
  <2>2. Len(s) \in K
    BY <1>5, <2>1
  <2>3. QED
    BY <2>1, <2>2 DEF K
<1>7. QED
  BY <1>6

LEMMA StringsConcat ==
  ASSUME NEW s, NEW t, NEW u, s \in Strings, t \in Strings, u \in Strings
  PROVE  /\ s \o t \in Strings
         /\ (s \o t) \o u = s \o (t \o u) /\ s \o (t \o u) = (s \o t) \o u
         /\ s \o << >> = s /\ << >> \o s = s
<1>1. s \in Seq(Byte) /\ t \in Seq(Byte) /\ u \in Seq(Byte)
  BY DEF Strings
<1>2. s \o t \in Seq(Byte)
  BY <1>1, ConcatProperties
<1>3. (s \o t) \o u = s \o (t \o u)
  BY <1>1, ConcatAssociative
<1>4. s \o << >> = s /\ << >> \o s = s
  BY <1>1
<1>5. QED
  BY <1>2, <1>3, <1>4 DEF Strings

LEMMA Pair ==
  ASSUME NEW a, NEW b, a \in Byte, b \in Byte
  PROVE  /\ <<a>> \in Strings /\ <<a, b>> \in Strings
         /\ <<a>> \o <<b>> = <<a, b>> /\ Append(<<a>>, b) = <<a, b>>
<1>1. <<a>> \in Strings /\ <<a, b>> \in Strings
  BY DEF Strings
<1>2. Append(<<a>>, b) = <<a, b>>
  <2>1. <<a>> \in Seq(Byte) /\ Len(<<a>>) = 1 /\ <<a>>[1] = a
    OBVIOUS
  <2>2. PICK t : t = Append(<<a>>, b)
    BY Zenon
  <2>3. t \in Seq(Byte) /\ Len(t) = 2 /\ t[1] = a /\ t[2] = b
    <3>1. /\ t \in Seq(Byte) /\ Len(t) = 1 + 1 /\ t[1 + 1] = b
          /\ \A i \in 1 .. 1 : t[i] = <<a>>[i]
      BY <2>1, <2>2, AppendProperties
    <3>2. QED
      BY <2>1, <3>1
  <2>4. <<a, b>> \in Seq(Byte) /\ Len(<<a, b>>) = 2 /\ <<a, b>>[1] = a /\ <<a, b>>[2] = b
    OBVIOUS
  <2>5. ASSUME NEW i \in 1 .. 2 PROVE t[i] = <<a, b>>[i]
    <3>1. i = 1 \/ i = 2
      OBVIOUS
    <3>2. QED
      BY <2>3, <2>4, <3>1
  <2>6. t = <<a, b>>
    BY <2>3, <2>4, <2>5, SeqEqual
  <2>7. QED
    BY <2>2, <2>6, Zenon
<1>3. Append(<<a>>, b) = <<a>> \o <<b>>
  BY <1>1, AppendIsConcat DEF Strings
<1>4. QED
  BY <1>1, <1>2, <1>3, Zenon

-----------------------------------------------------------------------------
(* The URL codec: what url_decode makes of a plain character and of an     *)
(* escape, and so of what url_encode made.                                 *)
LEMMA SeqFacts ==
  ASSUME NEW S, NEW s \in Seq(S), s # << >>
  PROVE  /\ Len(s) \in Nat /\ Len(s) >= 1
         /\ Tail(s) \in Seq(S) /\ Len(Tail(s)) = Len(s) - 1
         /\ \A k \in {3, 4} : SubSeq(s, k, Len(s)) \in Seq(S) /\ Len(SubSeq(s, k, Len(s))) < Len(s)
<1>1. Len(s) \in Nat /\ Len(s) >= 1 /\ \A i \in 1 .. Len(s) : s[i] \in S
  OBVIOUS
<1>2. Tail(s) \in Seq(S) /\ Len(Tail(s)) = Len(s) - 1
  BY HeadTailProperties
<1>3. ASSUME NEW k \in {3, 4}
      PROVE  SubSeq(s, k, Len(s)) \in Seq(S) /\ Len(SubSeq(s, k, Len(s))) < Len(s)
  <2>1. k \in Int /\ Len(s) \in Int /\ \A i \in k .. Len(s) : s[i] \in S
    BY <1>1
  <2>2. SubSeq(s, k, Len(s)) \in Seq(S)
        /\ Len(SubSeq(s, k, Len(s))) = IF k <= Len(s) THEN Len(s) - k + 1 ELSE 0
    BY <2>1, SubSeqProperties
  <2>3. QED
    BY <1>1, <2>2
<1>4. QED
  BY <1>1, <1>2, <1>3

LEMMA DecodeIs ==
  ASSUME NEW s \in Strings
  PROVE  url_decode[s] =
           IF s = << >> THEN << >>
           ELSE IF s[1] = PERCENT
           THEN <<char_to_num(s[2]) * 16 + char_to_num(s[3])>> \o url_decode[SubSeq(s, 4, Len(s))]
           ELSE <<s[1]>> \o url_decode[Tail(s)]
<1> DEFINE front(r) == IF r[1] = PERCENT THEN <<char_to_num(r[2]) * 16 + char_to_num(r[3])>> ELSE <<r[1]>>
           left(r) == IF r[1] = PERCENT THEN SubSeq(r, 4, Len(r)) ELSE Tail(r)
           head == [r \in Seq(Byte) |-> front(r)]
           rest == [r \in Seq(Byte) |-> left(r)]
           step(f, r) == IF r = << >> THEN << >>
                         ELSE IF r[1] = PERCENT
                         THEN <<char_to_num(r[2]) * 16 + char_to_num(r[3])>> \o f[SubSeq(r, 4, Len(r))]
                         ELSE <<r[1]>> \o f[Tail(r)]
<1> HIDE DEF front, left
<1>1. \A r \in Seq(Byte) : head[r] = front(r) /\ rest[r] = left(r)
  OBVIOUS
<1> HIDE DEF head, rest
<1>2. ASSUME NEW r \in Seq(Byte), r # << >> PROVE rest[r] \in Seq(Byte) /\ Len(rest[r]) < Len(r)
  <2>1. rest[r] = IF r[1] = PERCENT THEN SubSeq(r, 4, Len(r)) ELSE Tail(r)
    BY <1>1 DEF left
  <2>2. /\ Len(r) \in Nat /\ Tail(r) \in Seq(Byte) /\ Len(Tail(r)) = Len(r) - 1
        /\ SubSeq(r, 4, Len(r)) \in Seq(Byte) /\ Len(SubSeq(r, 4, Len(r))) < Len(r)
    BY <1>2, SeqFacts
  <2>3. QED
    BY <2>1, <2>2
<1>3. PICK f : Recurs(Seq(Byte), head, rest, f)
  BY <1>2, RecursExists, Zenon
<1>4. ASSUME NEW r \in Seq(Byte)
      PROVE  (IF r = << >> THEN << >> ELSE head[r] \o f[rest[r]]) = step(f, r)
  BY <1>1 DEF front, left
<1>5. f = [r \in Seq(Byte) |-> IF r = << >> THEN << >> ELSE head[r] \o f[rest[r]]]
  BY <1>3, Zenon DEF Recurs
<1>6. f = [r \in Strings |-> step(f, r)]
  <2> HIDE DEF step
  <2>1. QED
    BY <1>4, <1>5, Zenon DEF Strings
<1>7. \E g : g = [r \in Strings |-> step(g, r)]
  BY <1>6, Zenon
<1>8. url_decode = CHOOSE g : g = [r \in Strings |-> step(g, r)]
  BY DEF url_decode
<1>9. url_decode = [r \in Strings |-> step(url_decode, r)]
  <2> HIDE DEF step
  <2>1. QED
    BY <1>7, <1>8
<1>10. url_decode[s] = step(url_decode, s)
  <2> HIDE DEF step
  <2>1. QED
    BY <1>9
<1>11. QED
  BY <1>10

LEMMA DecodePlain ==
  ASSUME NEW c \in Byte, c # PERCENT, NEW r \in Strings
  PROVE  url_decode[<<c>> \o r] = <<c>> \o url_decode[r]
<1> DEFINE s == <<c>> \o r
<1>1. <<c>> \in Seq(Byte) /\ Len(<<c>>) = 1 /\ r \in Seq(Byte)
  BY DEF Strings
<1>2. s \in Seq(Byte) /\ Len(s) = Len(r) + 1 /\ s[1] = c /\ s # << >> /\ Len(r) \in Nat
      /\ \A i \in 1 .. Len(r) : s[i + 1] = r[i]
  BY <1>1
<1> HIDE DEF s
<1>3. Tail(s) = r
  <2>1. Tail(s) \in Seq(Byte) /\ Len(Tail(s)) = Len(r) /\ \A i \in 1 .. Len(Tail(s)) : Tail(s)[i] = s[i + 1]
    BY <1>2, HeadTailProperties
  <2>2. \A i \in 1 .. Len(r) : Tail(s)[i] = r[i]
    BY <1>2, <2>1
  <2>3. QED
    BY <1>1, <2>1, <2>2, SeqEqual
<1>4. s \in Strings
  BY <1>2 DEF Strings
<1>5. url_decode[s] = <<s[1]>> \o url_decode[Tail(s)]
  BY <1>2, <1>4, DecodeIs, Zenon
<1>6. QED
  BY <1>2, <1>3, <1>5, Zenon DEF s

LEMMA DecodeEscape ==
  ASSUME NEW a \in Byte, NEW b \in Byte, NEW r \in Strings
  PROVE  url_decode[<<PERCENT, a, b>> \o r] = <<char_to_num(a) * 16 + char_to_num(b)>> \o url_decode[r]
<1> DEFINE e == <<PERCENT, a, b>>
           s == e \o r
<1>1. e \in Seq(Byte) /\ Len(e) = 3 /\ r \in Seq(Byte) /\ e[1] = PERCENT /\ e[2] = a /\ e[3] = b
  BY DEF Strings, PERCENT, Byte
<1> HIDE DEF e
<1>2. s \in Seq(Byte) /\ Len(s) = Len(r) + 3 /\ s[1] = PERCENT /\ s[2] = a /\ s[3] = b
      /\ Len(r) \in Nat /\ \A i \in 1 .. Len(r) : s[i + 3] = r[i]
  <2>1. /\ s \in Seq(Byte) /\ Len(s) = Len(e) + Len(r)
        /\ \A i \in 1 .. Len(e) + Len(r) : s[i] = IF i <= Len(e) THEN e[i] ELSE r[i - Len(e)]
    BY <1>1, ConcatProperties, Zenon
  <2>2. Len(r) \in Nat
    BY <1>1
  <2> HIDE DEF s
  <2>3. \A i \in 1 .. 3 + Len(r) : s[i] = IF i <= 3 THEN e[i] ELSE r[i - 3]
    BY <1>1, <2>1
  <2>4. s[1] = e[1] /\ s[2] = e[2] /\ s[3] = e[3]
    BY <2>2, <2>3
  <2>5. ASSUME NEW i \in 1 .. Len(r) PROVE s[i + 3] = r[i]
    <3>1. i + 3 \in 1 .. 3 + Len(r) /\ ~(i + 3 <= 3) /\ (i + 3) - 3 = i
      BY <2>2
    <3>2. QED
      BY <2>3, <3>1
  <2>6. QED
    BY <1>1, <2>1, <2>2, <2>4, <2>5
<1> HIDE DEF s
<1>3. SubSeq(s, 4, Len(s)) = r
  <2>1. 4 \in Int /\ Len(s) \in Int /\ \A i \in 4 .. Len(s) : s[i] \in Byte
    BY <1>2
  <2>2. /\ SubSeq(s, 4, Len(s)) \in Seq(Byte)
        /\ Len(SubSeq(s, 4, Len(s))) = IF 4 <= Len(s) THEN Len(s) - 4 + 1 ELSE 0
        /\ \A i \in 1 .. Len(s) - 4 + 1 : SubSeq(s, 4, Len(s))[i] = s[4 + i - 1]
    BY <2>1, SubSeqProperties
  <2>3. Len(SubSeq(s, 4, Len(s))) = Len(r)
    BY <1>2, <2>2
  <2>4. ASSUME NEW i \in 1 .. Len(r) PROVE SubSeq(s, 4, Len(s))[i] = r[i]
    <3>1. i \in 1 .. Len(s) - 4 + 1 /\ 4 + i - 1 = i + 3
      BY <1>2
    <3>2. QED
      BY <1>2, <2>2, <3>1
  <2>5. QED
    BY <1>1, <2>2, <2>3, <2>4, SeqEqual, Zenon
<1>4. s \in Strings /\ s # << >>
  BY <1>2 DEF Strings
<1>5. url_decode[s] = <<char_to_num(s[2]) * 16 + char_to_num(s[3])>> \o url_decode[SubSeq(s, 4, Len(s))]
  BY <1>2, <1>4, DecodeIs, Zenon
<1>6. QED
  BY <1>2, <1>3, <1>5, Zenon DEF s, e

(* What url_encode puts for a byte, and what it is decoded to.             *)
Escaped(c) == IF c \in Reserved THEN <<PERCENT, HexDigit(c \div 16), HexDigit(c % 16)>> ELSE <<c>>

LEMMA HexByte ==
  ASSUME NEW c \in Byte
  PROVE  /\ HexDigit(c \div 16) \in Byte \ Reserved /\ HexDigit(c % 16) \in Byte \ Reserved
         /\ char_to_num(HexDigit(c \div 16)) * 16 + char_to_num(HexDigit(c % 16)) = c
<1>1. c \div 16 \in 0 .. 15 /\ c % 16 \in 0 .. 15 /\ c = 16 * (c \div 16) + (c % 16)
  BY DEF Byte
<1>2. ASSUME NEW d \in 0 .. 15
      PROVE  HexDigit(d) \in (48 .. 57) \union (65 .. 70) /\ char_to_num(HexDigit(d)) = d
  BY DEF HexDigit, char_to_num
<1>3. ASSUME NEW x \in (48 .. 57) \union (65 .. 70) PROVE x \in Byte \ Reserved
  BY DEF Byte, Reserved
<1>4. QED
  BY <1>1, <1>2, <1>3

LEMMA EscapedByte ==
  ASSUME NEW c \in Byte
  PROVE  /\ Escaped(c) \in Strings
         /\ \A i \in 1 .. Len(Escaped(c)) : Escaped(c)[i] \notin Reserved \ {37}
         /\ \A r \in Strings : url_decode[Escaped(c) \o r] = <<c>> \o url_decode[r]
<1>1. CASE c \in Reserved
  <2> DEFINE a == HexDigit(c \div 16)
             b == HexDigit(c % 16)
  <2>1. Escaped(c) = <<PERCENT, a, b>>
    BY <1>1 DEF Escaped
  <2>2. a \in Byte \ Reserved /\ b \in Byte \ Reserved /\ char_to_num(a) * 16 + char_to_num(b) = c
    BY HexByte
  <2> HIDE DEF a, b
  <2>3. PERCENT \in Byte /\ PERCENT = 37
    BY DEF PERCENT, Byte
  <2>4. /\ <<PERCENT, a, b>> \in Strings /\ Len(<<PERCENT, a, b>>) = 3
        /\ \A i \in 1 .. 3 : <<PERCENT, a, b>>[i] \notin Reserved \ {37}
    BY <2>2, <2>3 DEF Strings
  <2>5. \A r \in Strings : url_decode[<<PERCENT, a, b>> \o r] = <<c>> \o url_decode[r]
    BY <2>2, DecodeEscape, Zenon
  <2>6. QED
    BY <2>1, <2>4, <2>5, Zenon
<1>2. CASE c \notin Reserved
  <2>1. Escaped(c) = <<c>>
    BY <1>2 DEF Escaped
  <2>2. c # PERCENT
    BY <1>2 DEF PERCENT, Reserved
  <2>3. <<c>> \in Strings /\ Len(<<c>>) = 1 /\ \A i \in 1 .. 1 : <<c>>[i] \notin Reserved \ {37}
    BY <1>2 DEF Strings
  <2>4. \A r \in Strings : url_decode[<<c>> \o r] = <<c>> \o url_decode[r]
    BY <2>2, DecodePlain
  <2>5. QED
    BY <2>1, <2>3, <2>4
<1>3. QED
  BY <1>1, <1>2

LEMMA UrlRoundTrip ==
  ASSUME NEW x \in Strings
  PROVE  LET coded0 == Concat([i \in 1 .. Len(x) |-> Escaped(x[i])])
         IN  /\ coded0 \in Strings
             /\ \A i \in 1 .. Len(coded0) : coded0[i] \notin Reserved \ {37}
             /\ url_decode[coded0] = x
<1> DEFINE pieces(y) == [i \in 1 .. Len(y) |-> Escaped(y[i])]
           E(y) == Concat(pieces(y))
           R == {r \in Strings : url_decode[r] \in Strings}
           P == {y \in Strings :
                   /\ E(y) \in Strings
                   /\ \A i \in 1 .. Len(E(y)) : E(y)[i] \notin Reserved \ {37}
                   /\ \A r \in R : url_decode[E(y) \o r] = y \o url_decode[r]}
<1>1. << >> \in P
  <2>1. pieces(<< >>) = << >>
    OBVIOUS
  <2>2. E(<< >>) = << >>
    BY <2>1, ConcatNone
  <2>3. << >> \in Strings /\ Len(<< >>) = 0
    BY DEF Strings
  <2>4. ASSUME NEW r \in R PROVE << >> \o r = r /\ << >> \o url_decode[r] = url_decode[r]
    BY DEF Strings
  <2> HIDE DEF E, R
  <2>5. \A r \in R : url_decode[E(<< >>) \o r] = << >> \o url_decode[r]
    BY <2>2, <2>4, Zenon
  <2>6. \A i \in 1 .. Len(E(<< >>)) : E(<< >>)[i] \notin Reserved \ {37}
    BY <2>2, <2>3
  <2>7. QED
    BY <2>2, <2>3, <2>5, <2>6, Zenon
<1>2. ASSUME NEW y \in Strings, NEW c \in Byte, y \in P PROVE Append(y, c) \in P
  <2> DEFINE z == Append(y, c)
  <2>1. /\ z \in Strings /\ Len(z) = Len(y) + 1 /\ Len(y) \in Nat /\ y \in Seq(Byte)
        /\ (\A i \in 1 .. Len(y) : z[i] = y[i] /\ y[i] \in Byte) /\ z[Len(y) + 1] = c /\ z = y \o <<c>>
    BY AppendProperties, AppendIsConcat DEF Strings
  <2> HIDE DEF z
  <2>2. E(z) = E(y) \o Escaped(c) /\ E(y) \in Strings
    <3>1. pieces(y) \in [1 .. Len(y) -> Strings]
      BY <2>1, EscapedByte, Zenon
    <3>2. pieces(z) \in [1 .. Len(y) + 1 -> Strings]
      <4>1. ASSUME NEW i \in 1 .. Len(y) + 1 PROVE Escaped(z[i]) \in Strings
        <5>1. i \in 1 .. Len(y) \/ i = Len(y) + 1
          BY <2>1
        <5>2. z[i] \in Byte
          BY <2>1, <5>1
        <5>3. QED
          BY <5>2, EscapedByte, Zenon
      <4>2. QED
        BY <2>1, <4>1
    <3>3. \A i \in 1 .. Len(y) : pieces(z)[i] = pieces(y)[i]
      BY <2>1
    <3>4. pieces(z)[Len(y) + 1] = Escaped(c)
      BY <2>1
    <3> HIDE DEF pieces
    <3>5. Concat(pieces(y)) \in Strings /\ Concat(pieces(z)) = Concat(pieces(y)) \o pieces(z)[Len(y) + 1]
      BY <2>1, <3>1, <3>2, <3>3, ConcatGrows, Zenon
    <3>6. QED
      BY <3>4, <3>5
  <2> DEFINE e == Escaped(c)
             d == E(y)
  <2>3. /\ e \in Strings
        /\ \A i \in 1 .. Len(e) : e[i] \notin Reserved \ {37}
        /\ \A r \in Strings : url_decode[e \o r] = <<c>> \o url_decode[r]
    BY EscapedByte
  <2>4. /\ d \in Strings
        /\ \A i \in 1 .. Len(d) : d[i] \notin Reserved \ {37}
        /\ \A r \in R : url_decode[d \o r] = y \o url_decode[r]
    BY <1>2
  <2>5. E(z) = d \o e
    BY <2>2, Zenon
  <2> HIDE DEF d, e, E
  <2>6. d \o e \in Strings /\ \A i \in 1 .. Len(d \o e) : (d \o e)[i] \notin Reserved \ {37}
    <3> HIDE DEF R
    <3>1. /\ d \o e \in Seq(Byte) /\ Len(d \o e) = Len(d) + Len(e)
          /\ \A i \in 1 .. Len(d) + Len(e) : (d \o e)[i] = IF i <= Len(d) THEN d[i] ELSE e[i - Len(d)]
      BY <2>3, <2>4, ConcatProperties DEF Strings
    <3>2. Len(d) \in Nat /\ Len(e) \in Nat
      BY <2>3, <2>4 DEF Strings
    <3>3. ASSUME NEW i \in 1 .. Len(d) + Len(e) PROVE (d \o e)[i] \notin Reserved \ {37}
      <4>1. i <= Len(d) => i \in 1 .. Len(d)
        BY <3>2
      <4>2. ~(i <= Len(d)) => i - Len(d) \in 1 .. Len(e)
        BY <3>2
      <4>3. QED
        BY <2>3, <2>4, <3>1, <4>1, <4>2
    <3>4. QED
      BY <3>1, <3>3 DEF Strings
  <2>7. ASSUME NEW r \in R PROVE url_decode[(d \o e) \o r] = z \o url_decode[r]
    <3>1. r \in Strings /\ url_decode[r] \in Strings
      OBVIOUS
    <3>2. e \o r \in Strings /\ (d \o e) \o r = d \o (e \o r)
      <4>1. d \in Seq(Byte) /\ e \in Seq(Byte) /\ r \in Seq(Byte)
        BY <2>3, <2>4, <3>1 DEF Strings
      <4>2. e \o r \in Seq(Byte)
        BY <4>1, ConcatProperties
      <4>3. (d \o e) \o r = d \o (e \o r)
        BY <4>1, ConcatAssociative
      <4>4. QED
        BY <4>2, <4>3 DEF Strings
    <3>3. url_decode[e \o r] = <<c>> \o url_decode[r]
      BY <2>3, <3>1
    <3>4. <<c>> \o url_decode[r] \in Strings /\ y \o (<<c>> \o url_decode[r]) = (y \o <<c>>) \o url_decode[r]
      <4>1. <<c>> \in Seq(Byte) /\ y \in Seq(Byte) /\ url_decode[r] \in Seq(Byte)
        BY <2>1, <3>1 DEF Strings
      <4>2. QED
        <5>1. <<c>> \in Strings /\ y \in Strings /\ url_decode[r] \in Strings
          BY <4>1 DEF Strings
        <5>2. PICK u : u = url_decode[r]
          OBVIOUS
        <5>3. <<c>> \in Strings /\ y \in Strings /\ u \in Strings
          BY <5>1, <5>2
        <5>4. <<c>> \o u \in Strings /\ y \o (<<c>> \o u) = (y \o <<c>>) \o u
          BY <5>3, StringsConcat
        <5>5. QED
          BY <5>2, <5>4, Zenon
    <3>5. e \o r \in R
      BY <3>2, <3>3, <3>4, Zenon
    <3>6. url_decode[d \o (e \o r)] = y \o url_decode[e \o r]
      BY <2>4, <3>5
    <3>7. QED
      BY <2>1, <3>2, <3>3, <3>4, <3>6, Zenon
  <2>8. z \in P
    <3> HIDE DEF R
    <3>1. QED
      BY <2>1, <2>5, <2>6, <2>7, Zenon
  <2>9. QED
    BY <2>8 DEF z
<1> HIDE DEF E, R
<1>3. Seq(Byte) \subseteq P
  <2>1. Strings = Seq(Byte)
    BY DEF Strings
  <2> HIDE DEF P
  <2>2. QED
    BY <1>1, <1>2, <2>1, SeqInd
<1>4. << >> \in R /\ url_decode[<< >>] = << >>
  <2>1. << >> \in Strings
    BY DEF Strings
  <2>2. url_decode[<< >>] = << >>
    BY <2>1, DecodeIs, Zenon
  <2>3. QED
    BY <2>1, <2>2 DEF R
<1>5. x \in P
  BY <1>3 DEF Strings
<1>6. url_decode[E(x) \o << >>] = x \o << >> /\ E(x) \in Strings
  BY <1>4, <1>5, Zenon
<1>7. E(x) \o << >> = E(x) /\ x \o << >> = x
  BY <1>6 DEF Strings
<1>8. url_decode[E(x)] = x /\ E(x) \in Strings /\ \A i \in 1 .. Len(E(x)) : E(x)[i] \notin Reserved \ {37}
  BY <1>5, <1>6, <1>7
<1>9. QED
  BY <1>8 DEF E

LEMMA CStringIs ==
  ASSUME NEW s \in Strings
  PROVE  CString(s) \in Strings /\ \A i \in 1 .. Len(CString(s)) : s[i] = CString(s)[i]
<1> DEFINE nuls == {i \in DOMAIN s : s[i] = 0}
           m == CHOOSE i \in nuls : \A j \in nuls : i <= j
<1>1. Len(s) \in Nat /\ DOMAIN s = 1 .. Len(s) /\ (\A i \in 1 .. Len(s) : s[i] \in Byte) /\ s \in Seq(Byte)
  BY DEF Strings
<1>2. CASE nuls = {}
  BY <1>2 DEF CString
<1>3. CASE nuls # {}
  <2>1. nuls \subseteq Nat
    BY <1>1
  <2>2. \E i \in nuls : \A j \in nuls : i <= j
    <3> HIDE DEF nuls
    <3>1. QED
      BY <1>3, <2>1, LeastNat, Zenon
  <2>3. m \in nuls
    <3> HIDE DEF nuls
    <3>1. QED
      BY <2>2
  <2>4. CString(s) = SubSeq(s, 1, m - 1)
    BY <1>3, Zenon DEF CString
  <2>5. m \in 1 .. Len(s)
    BY <1>1, <2>3
  <2> HIDE DEF m, nuls
  <2>6. 1 \in Int /\ m - 1 \in Int /\ \A i \in 1 .. m - 1 : s[i] \in Byte
    BY <1>1, <2>5
  <2>7. PICK n : n = m - 1
    OBVIOUS
  <2>8. /\ SubSeq(s, 1, n) \in Seq(Byte)
        /\ Len(SubSeq(s, 1, n)) = IF 1 <= n THEN n - 1 + 1 ELSE 0
        /\ \A i \in 1 .. n - 1 + 1 : SubSeq(s, 1, n)[i] = s[1 + i - 1]
    BY <2>6, <2>7, SubSeqProperties
  <2>9. n \in Nat /\ Len(SubSeq(s, 1, n)) = n
    BY <2>5, <2>7, <2>8
  <2>10. \A i \in 1 .. n : SubSeq(s, 1, n)[i] = s[i]
    BY <2>8, <2>9
  <2>11. QED
    BY <2>4, <2>7, <2>8, <2>9, <2>10 DEF Strings
<1>4. QED
  BY <1>2, <1>3

(* What is encoded is decoded to the C string that was encoded, and what   *)
(* is reserved occurs in it only as the percent of an escape.              *)
LEMMA UrlIsExact ==
  ASSUME NEW s \in Strings
  PROVE  /\ url_decode[url_encode(s)] = CString(s)
         /\ \A i \in DOMAIN url_encode(s) : url_encode(s)[i] \notin Reserved \ {37}
<1> DEFINE x == CString(s)
<1>1. x \in Strings /\ \A i \in 1 .. Len(x) : s[i] = x[i]
  BY CStringIs
<1>2. url_encode(s) = Concat([i \in 1 .. Len(x) |-> Escaped(s[i])])
  BY DEF url_encode, Escaped
<1> HIDE DEF x
<1>3. [i \in 1 .. Len(x) |-> Escaped(s[i])] = [i \in 1 .. Len(x) |-> Escaped(x[i])]
  BY <1>1
<1>4. url_encode(s) = Concat([i \in 1 .. Len(x) |-> Escaped(x[i])])
  BY <1>2, <1>3
<1>5. /\ url_encode(s) \in Strings
      /\ \A i \in 1 .. Len(url_encode(s)) : url_encode(s)[i] \notin Reserved \ {37}
      /\ url_decode[url_encode(s)] = x
  BY <1>1, <1>4, UrlRoundTrip
<1>6. DOMAIN url_encode(s) = 1 .. Len(url_encode(s))
  BY <1>5 DEF Strings
<1>7. QED
  BY <1>5, <1>6 DEF x

-----------------------------------------------------------------------------
(* Where a CRLF ends in a string, and where a line begins.                 *)
EndsOf(s) == {i \in 2 .. Len(s) : s[i - 1] = 13 /\ s[i] = 10}

LastIs(s, c) == s # << >> /\ s[Len(s)] = c

LEMMA Appended ==
  ASSUME NEW s, NEW c, s \in Strings, c \in Byte
  PROVE  /\ Append(s, c) \in Strings /\ Append(s, c) # << >>
         /\ Len(s) \in Nat /\ Len(Append(s, c)) = Len(s) + 1
         /\ \A i \in 1 .. Len(s) : Append(s, c)[i] = s[i] /\ s[i] \in Byte
         /\ Append(s, c)[Len(s) + 1] = c
         /\ Append(s, c) = s \o <<c>>
<1>1. s \in Seq(Byte)
  BY DEF Strings
<1>2. QED
  BY <1>1, AppendProperties, AppendIsConcat DEF Strings

LEMMA EndsAppend ==
  ASSUME NEW s, NEW c, s \in Strings, c \in Byte
  PROVE  EndsOf(Append(s, c)) =
           EndsOf(s) \union (IF LastIs(s, 13) /\ c = 10 THEN {Len(s) + 1} ELSE {})
<1> DEFINE z == Append(s, c)
<1>1. /\ Len(s) \in Nat /\ Len(z) = Len(s) + 1
      /\ (\A i \in 1 .. Len(s) : z[i] = s[i]) /\ z[Len(s) + 1] = c
  BY Appended
<1>2. s # << >> <=> Len(s) >= 1
  BY <1>1 DEF Strings
<1> HIDE DEF z
<1>3. ASSUME NEW i \in 2 .. Len(s) PROVE i \in EndsOf(z) <=> i \in EndsOf(s)
  <2>1. i \in 1 .. Len(s) /\ i - 1 \in 1 .. Len(s) /\ i \in 2 .. Len(z)
    BY <1>1
  <2>2. z[i] = s[i] /\ z[i - 1] = s[i - 1]
    BY <1>1, <2>1
  <2>3. QED
    BY <2>1, <2>2 DEF EndsOf
<1>4. Len(s) + 1 \in EndsOf(z) <=> (LastIs(s, 13) /\ c = 10)
  <2>1. (Len(s) + 1) - 1 = Len(s)
    BY <1>1
  <2>2. CASE Len(s) >= 1
    <3>1. z[Len(s)] = s[Len(s)] /\ Len(s) + 1 \in 2 .. Len(z)
      BY <1>1, <2>2
    <3>2. QED
      BY <1>1, <1>2, <2>1, <2>2, <3>1 DEF EndsOf, LastIs
  <2>3. CASE ~(Len(s) >= 1)
    BY <1>1, <1>2, <2>3 DEF EndsOf, LastIs
  <2>4. QED
    BY <2>2, <2>3
<1>5. EndsOf(z) \subseteq 2 .. Len(s) + 1 /\ EndsOf(s) \subseteq 2 .. Len(s)
  BY <1>1 DEF EndsOf
<1>6. ASSUME NEW i
      PROVE  i \in EndsOf(z) <=> (i \in EndsOf(s) \/ (i = Len(s) + 1 /\ LastIs(s, 13) /\ c = 10))
  <2>1. i \in EndsOf(z) => (i \in 2 .. Len(s) \/ i = Len(s) + 1)
    BY <1>1, <1>5
  <2>2. i \in EndsOf(s) => i \in 2 .. Len(s)
    BY <1>5
  <2>3. QED
    BY <1>3, <1>4, <2>1, <2>2
<1>7. EndsOf(z) = EndsOf(s) \union (IF LastIs(s, 13) /\ c = 10 THEN {Len(s) + 1} ELSE {})
  BY <1>6
<1>8. QED
  BY <1>7 DEF z

LEMMA BeginsAre ==
  ASSUME NEW s \in Strings
  PROVE  Begins(s) = {1} \union {i + 1 : i \in EndsOf(s)}
<1>1. Len(s) \in Nat /\ \A i \in 1 .. Len(s) : s[i] \in Byte
  BY DEF Strings
<1>2. ASSUME NEW i \in 3 .. Len(s) + 1
      PROVE  SubSeq(s, i - 2, i - 1) = CRLF <=> i - 1 \in EndsOf(s)
  <2>1. PICK m : m = i - 2
    OBVIOUS
  <2>2. PICK n : n = i - 1
    OBVIOUS
  <2>3. m \in Int /\ n \in Int /\ n = m + 1 /\ m \in 1 .. Len(s) /\ n \in 2 .. Len(s) /\ n - 1 = m
        /\ n \in 1 .. Len(s)
    BY <1>1, <2>1, <2>2
  <2>4. \A j \in m .. n : s[j] \in Byte
    BY <1>1, <2>3
  <2>5. /\ SubSeq(s, m, n) \in Seq(Byte) /\ Len(SubSeq(s, m, n)) = IF m <= n THEN n - m + 1 ELSE 0
        /\ \A j \in 1 .. n - m + 1 : SubSeq(s, m, n)[j] = s[m + j - 1]
    BY <2>3, <2>4, SubSeqProperties
  <2>6. /\ Len(SubSeq(s, m, n)) = 2
        /\ \A j \in 1 .. 2 : SubSeq(s, m, n)[j] = s[m + j - 1]
    BY <2>3, <2>5
  <2>7. m + 1 - 1 = m /\ m + 2 - 1 = n
    BY <2>3
  <2>8. SubSeq(s, m, n)[1] = s[m] /\ SubSeq(s, m, n)[2] = s[n]
    <3>1. 1 \in 1 .. 2 /\ 2 \in 1 .. 2
      OBVIOUS
    <3>2. SubSeq(s, m, n)[1] = s[m + 1 - 1] /\ SubSeq(s, m, n)[2] = s[m + 2 - 1]
      BY <2>6, <3>1, Zenon
    <3>3. QED
      BY <2>7, <3>2
  <2>9. CRLF = <<13, 10>> /\ CRLF \in Seq(Byte) /\ Len(CRLF) = 2 /\ CRLF[1] = 13 /\ CRLF[2] = 10
    BY DEF CRLF, ByteCR, ByteLF, Byte
  <2>10. SubSeq(s, m, n) = CRLF <=> (s[m] = 13 /\ s[n] = 10)
    <3>1. ASSUME s[m] = 13, s[n] = 10 PROVE SubSeq(s, m, n) = CRLF
      <4>1. \A j \in 1 .. 2 : SubSeq(s, m, n)[j] = CRLF[j]
        <5>1. ASSUME NEW j \in 1 .. 2 PROVE SubSeq(s, m, n)[j] = CRLF[j]
          <6>1. j = 1 \/ j = 2
            OBVIOUS
          <6>2. QED
            BY <2>8, <2>9, <3>1, <6>1, Zenon
        <5>2. QED
          BY <5>1, Zenon
      <4>2. QED
        BY <2>5, <2>6, <2>9, <4>1, SeqEqual, Zenon
    <3>2. ASSUME SubSeq(s, m, n) = CRLF PROVE s[m] = 13 /\ s[n] = 10
      BY <2>8, <2>9, <3>2
    <3>3. QED
      BY <3>1, <3>2
  <2>11. n \in EndsOf(s) <=> (s[m] = 13 /\ s[n] = 10)
    BY <2>3 DEF EndsOf
  <2>12. QED
    BY <2>1, <2>2, <2>10, <2>11
<1>3. ASSUME NEW i, i \in 3 .. Len(s) + 1, SubSeq(s, i - 2, i - 1) = CRLF
      PROVE  \E j \in EndsOf(s) : i = j + 1
  <2>1. i - 1 \in EndsOf(s) /\ i = (i - 1) + 1
    BY <1>2, <1>3
  <2>2. QED
    BY <2>1
<1>4. ASSUME NEW j \in EndsOf(s)
      PROVE  j + 1 \in 3 .. Len(s) + 1 /\ SubSeq(s, (j + 1) - 2, (j + 1) - 1) = CRLF
  <2>1. j \in 2 .. Len(s)
    BY DEF EndsOf
  <2>2. j + 1 \in 3 .. Len(s) + 1 /\ (j + 1) - 1 = j
    BY <1>1, <2>1
  <2>3. (j + 1) - 1 \in EndsOf(s)
    BY <2>2
  <2>4. QED
    BY <1>2, <2>2, <2>3, Zenon
<1>5. QED
  BY <1>3, <1>4, Zenon DEF Begins

(* The begins of the lines of a longer string are those of the string, and *)
(* perhaps the place after it.                                             *)
LEMMA BeginsAppend ==
  ASSUME NEW s, NEW c, s \in Strings, c \in Byte
  PROVE  Begins(Append(s, c)) =
           Begins(s) \union (IF LastIs(s, 13) /\ c = 10 THEN {Len(s) + 2} ELSE {})
<1>1. Append(s, c) \in Strings /\ Len(s) \in Nat
  BY Appended, Zenon
<1>2. /\ Begins(s) = {1} \union {i + 1 : i \in EndsOf(s)}
      /\ Begins(Append(s, c)) = {1} \union {i + 1 : i \in EndsOf(Append(s, c))}
  BY <1>1, BeginsAre
<1>3. EndsOf(Append(s, c)) = EndsOf(s) \union (IF LastIs(s, 13) /\ c = 10 THEN {Len(s) + 1} ELSE {})
  BY EndsAppend
<1>4. (Len(s) + 1) + 1 = Len(s) + 2
  BY <1>1
<1>5. QED
  BY <1>2, <1>3, <1>4, Zenon

LEMMA BeginsBound ==
  ASSUME NEW s, s \in Strings
  PROVE  /\ Begins(s) \subseteq 1 .. Len(s) + 1
         /\ Len(s) + 1 \in Begins(s) => (s = << >> \/ LastIs(s, 10))
<1>1. Len(s) \in Nat /\ (s = << >> <=> Len(s) = 0)
  BY DEF Strings
<1>2. Begins(s) = {1} \union {i + 1 : i \in EndsOf(s)}
  BY BeginsAre
<1>3. \A i \in EndsOf(s) : i \in 2 .. Len(s) /\ s[i] = 10
  BY DEF EndsOf
<1>4. Begins(s) \subseteq 1 .. Len(s) + 1
  BY <1>1, <1>2, <1>3
<1>5. ASSUME Len(s) + 1 \in Begins(s), s # << >> PROVE LastIs(s, 10)
  <2>1. PICK i \in EndsOf(s) : Len(s) + 1 = i + 1
    BY <1>1, <1>2, <1>5
  <2>2. i = Len(s)
    BY <1>1, <1>3, <2>1
  <2>3. QED
    BY <1>3, <1>5, <2>2 DEF LastIs
<1>6. QED
  BY <1>4, <1>5

LEMMA UnstuffedAppend ==
  ASSUME NEW s, NEW c, s \in Strings, c \in Byte
  PROVE  /\ Unstuffed(s) \in Strings
         /\ Unstuffed(Append(s, c)) =
              Unstuffed(s) \o (IF Len(s) + 1 \in Begins(s) /\ c = 46 THEN << >> ELSE <<c>>)
<1> DEFINE z == Append(s, c)
           kept(t) == [i \in 1 .. Len(t) |-> IF i \in Begins(t) /\ t[i] = 46 THEN << >> ELSE <<t[i]>>]
<1>1. /\ Len(s) \in Nat /\ z \in Strings /\ Len(z) = Len(s) + 1
      /\ (\A i \in 1 .. Len(s) : z[i] = s[i] /\ s[i] \in Byte) /\ z[Len(s) + 1] = c
  BY Appended, Zenon
<1>2. ASSUME NEW i \in 1 .. Len(s) + 1 PROVE i \in Begins(z) <=> i \in Begins(s)
  <2>1. Begins(z) = Begins(s) \union (IF LastIs(s, 13) /\ c = 10 THEN {Len(s) + 2} ELSE {})
    BY BeginsAppend
  <2>2. i # Len(s) + 2
    BY <1>1
  <2>3. QED
    BY <2>1, <2>2
<1> HIDE DEF z
<1>3. kept(s) \in [1 .. Len(s) -> Strings]
  BY <1>1 DEF Strings
<1>4. kept(z) \in [1 .. Len(s) + 1 -> Strings]
  <2>1. \A i \in 1 .. Len(s) + 1 : z[i] \in Byte
    <3>1. ASSUME NEW i \in 1 .. Len(s) + 1 PROVE z[i] \in Byte
      <4>1. i \in 1 .. Len(s) \/ i = Len(s) + 1
        BY <1>1
      <4>2. QED
        BY <1>1, <4>1
    <3>2. QED
      BY <3>1
  <2>2. QED
    BY <1>1, <2>1 DEF Strings
<1>5. \A i \in 1 .. Len(s) : kept(z)[i] = kept(s)[i]
  <2>1. ASSUME NEW i \in 1 .. Len(s) PROVE kept(z)[i] = kept(s)[i]
    <3>1. i \in 1 .. Len(s) + 1 /\ i \in 1 .. Len(z)
      BY <1>1
    <3>2. z[i] = s[i] /\ (i \in Begins(z) <=> i \in Begins(s))
      BY <1>1, <1>2, <3>1
    <3>3. QED
      BY <3>1, <3>2
  <2>2. QED
    BY <2>1
<1>6. kept(z)[Len(s) + 1] = IF Len(s) + 1 \in Begins(s) /\ c = 46 THEN << >> ELSE <<c>>
  <2>1. Len(s) + 1 \in 1 .. Len(s) + 1 /\ Len(s) + 1 \in 1 .. Len(z)
    BY <1>1
  <2>2. Len(s) + 1 \in Begins(z) <=> Len(s) + 1 \in Begins(s)
    BY <1>2, <2>1
  <2>3. QED
    BY <1>1, <2>1, <2>2
<1>7. Unstuffed(s) = Concat(kept(s)) /\ Unstuffed(z) = Concat(kept(z))
  BY DEF Unstuffed
<1> HIDE DEF kept
<1>8. Concat(kept(s)) \in Strings /\ Concat(kept(z)) = Concat(kept(s)) \o kept(z)[Len(s) + 1]
  BY <1>1, <1>3, <1>4, <1>5, ConcatGrows, Zenon
<1>9. QED
  BY <1>6, <1>7, <1>8 DEF z

-----------------------------------------------------------------------------
(* SMTP stuffing: s has been sent of the text t.                           *)
DotOK(s, state, t) ==
  /\ s \in Strings /\ t \in Strings /\ state \in 0 .. 2
  /\ Unstuffed(s) = t
  /\ state = 1 <=> LastIs(s, 13)
  /\ state = 2 <=> Len(s) + 1 \in Begins(s)
  /\ \A i \in Begins(s) : i <= Len(s) /\ s[i] = 46 => i + 1 <= Len(s) /\ s[i + 1] = 46

Stuffing == [out : Strings, state : 0 .. 2]

LEMMA DotDoubles ==
  ASSUME NEW s, NEW t, DotOK(s, 2, t)
  PROVE  DotOK(Append(Append(s, 46), 46), 0, Append(t, 46))
<1> DEFINE a == Append(s, 46)
           b == Append(a, 46)
<1>1. s \in Strings /\ t \in Strings /\ 46 \in Byte
  BY DEF DotOK, Byte
<1>2. /\ Len(s) \in Nat /\ a \in Strings /\ a # << >> /\ Len(a) = Len(s) + 1
      /\ (\A i \in 1 .. Len(s) : a[i] = s[i]) /\ a[Len(s) + 1] = 46
      /\ Append(t, 46) \in Strings /\ Append(t, 46) = t \o <<46>>
  BY <1>1, Appended
<1>3. Begins(a) = Begins(s) /\ Unstuffed(a) = t
  <2>1. Begins(a) = Begins(s)
    <3>1. Begins(a) = Begins(s) \union (IF LastIs(s, 13) /\ 46 = 10 THEN {Len(s) + 2} ELSE {})
      BY <1>1, BeginsAppend, Zenon
    <3> HIDE DEF a
    <3>2. QED
      BY <3>1
  <2>2. Unstuffed(a) = Unstuffed(s) \o << >>
    BY <1>1, UnstuffedAppend, Zenon DEF DotOK
  <2>3. Unstuffed(s) = t
    BY DEF DotOK
  <2>4. t \o << >> = t
    BY <1>1, StringsConcat
  <2>5. QED
    BY <2>1, <2>2, <2>3, <2>4
<1>4. ~ LastIs(a, 10) /\ ~ LastIs(a, 13)
  BY <1>2 DEF LastIs
<1>5. Len(a) + 1 \notin Begins(a)
  BY <1>2, <1>4, BeginsBound, Zenon
<1> HIDE DEF a
<1>6. /\ b \in Strings /\ b # << >> /\ Len(b) = Len(a) + 1
      /\ (\A i \in 1 .. Len(a) : b[i] = a[i]) /\ b[Len(a) + 1] = 46
  BY <1>1, <1>2, Appended
<1>7. Begins(b) = Begins(a)
  <2>1. Begins(b) = Begins(a) \union (IF LastIs(a, 13) /\ 46 = 10 THEN {Len(a) + 2} ELSE {})
    BY <1>1, <1>2, BeginsAppend, Zenon
  <2> HIDE DEF b
  <2>2. QED
    BY <2>1
<1>8. Unstuffed(b) = Append(t, 46)
  BY <1>1, <1>2, <1>3, <1>5, UnstuffedAppend, SMTT(30)
<1>9. ~ LastIs(b, 10) /\ ~ LastIs(b, 13)
  BY <1>2, <1>6 DEF LastIs
<1>10. Len(b) + 1 \notin Begins(b)
  BY <1>6, <1>9, BeginsBound, Zenon
<1>11. ASSUME NEW i \in Begins(b), i <= Len(b), b[i] = 46
       PROVE  i + 1 <= Len(b) /\ b[i + 1] = 46
  <2>1. i \in Begins(s) /\ i \in 1 .. Len(s) + 1
    BY <1>1, <1>3, <1>7, <1>11, BeginsBound
  <2>2. CASE i = Len(s) + 1
    BY <1>2, <1>6, <2>2
  <2>3. CASE i # Len(s) + 1
    <3>1. i \in 1 .. Len(s) /\ i \in 1 .. Len(a)
      BY <1>2, <2>1, <2>3
    <3>2. s[i] = 46 /\ i <= Len(s)
      BY <1>2, <1>6, <1>11, <3>1
    <3>3. i + 1 <= Len(s) /\ s[i + 1] = 46
      BY <2>1, <3>2 DEF DotOK
    <3>4. i + 1 \in 1 .. Len(s) /\ i + 1 \in 1 .. Len(a)
      BY <1>2, <3>1, <3>3
    <3>5. QED
      BY <1>2, <1>6, <3>3, <3>4
  <2>4. QED
    BY <2>2, <2>3, Zenon
<1> HIDE DEF b
<1>12. DotOK(b, 0, Append(t, 46))
  BY <1>2, <1>6, <1>8, <1>9, <1>10, <1>11 DEF DotOK
<1>13. QED
  BY <1>12 DEF a, b

LEMMA DotPuts ==
  ASSUME NEW s, NEW state, NEW t, DotOK(s, state, t), NEW c, c \in Byte, ~(c = 46 /\ state = 2)
  PROVE  DotOK(Append(s, c), IF c = 13 THEN 1 ELSE IF c = 10 /\ state = 1 THEN 2 ELSE 0, Append(t, c))
<1> DEFINE a == Append(s, c)
           next == IF c = 13 THEN 1 ELSE IF c = 10 /\ state = 1 THEN 2 ELSE 0
<1>1. s \in Strings /\ t \in Strings /\ state \in 0 .. 2
  BY DEF DotOK
<1>2. /\ Len(s) \in Nat /\ a \in Strings /\ a # << >> /\ Len(a) = Len(s) + 1
      /\ (\A i \in 1 .. Len(s) : a[i] = s[i]) /\ a[Len(s) + 1] = c
      /\ Append(t, c) \in Strings /\ Append(t, c) = t \o <<c>>
  BY <1>1, Appended
<1>3. Begins(a) = Begins(s) \union (IF LastIs(s, 13) /\ c = 10 THEN {Len(s) + 2} ELSE {})
  BY <1>1, BeginsAppend
<1>4. Unstuffed(a) = Append(t, c)
  <2>1. Unstuffed(a) = Unstuffed(s) \o (IF Len(s) + 1 \in Begins(s) /\ c = 46 THEN << >> ELSE <<c>>)
    BY <1>1, UnstuffedAppend
  <2>2. ~(Len(s) + 1 \in Begins(s) /\ c = 46) /\ Unstuffed(s) = t
    BY DEF DotOK
  <2>3. QED
    BY <1>2, <2>1, <2>2
<1>5. LastIs(a, 13) <=> c = 13
  BY <1>2 DEF LastIs
<1>6. Len(a) + 1 \in Begins(a) <=> (c = 10 /\ state = 1)
  <2>1. Begins(s) \subseteq 1 .. Len(s) + 1
    BY <1>1, BeginsBound
  <2>2. Len(a) + 1 = Len(s) + 2 /\ Len(s) + 2 \notin 1 .. Len(s) + 1
    BY <1>2
  <2>3. state = 1 <=> LastIs(s, 13)
    BY DEF DotOK
  <2> HIDE DEF a
  <2>4. QED
    BY <1>3, <2>1, <2>2, <2>3
<1>7. ASSUME NEW i \in Begins(a), i <= Len(a), a[i] = 46
      PROVE  i + 1 <= Len(a) /\ a[i + 1] = 46
  <2>1. i \in Begins(s) /\ i \in 1 .. Len(s) + 1
    <3>1. Begins(s) \subseteq 1 .. Len(s) + 1
      BY <1>1, BeginsBound
    <3>2. i # Len(s) + 2
      BY <1>2, <1>7
    <3>3. i \in Begins(s)
      BY <1>3, <3>2
    <3>4. QED
      BY <3>1, <3>3
  <2>2. i # Len(s) + 1
    <3>1. ASSUME i = Len(s) + 1 PROVE FALSE
      <4>1. c = 46
        BY <1>2, <1>7, <3>1
      <4>2. state = 2
        BY <2>1, <3>1 DEF DotOK
      <4>3. QED
        BY <4>1, <4>2
    <3>2. QED
      BY <3>1
  <2>3. i \in 1 .. Len(s)
    BY <1>2, <2>1, <2>2
  <2>4. s[i] = 46 /\ i <= Len(s)
    BY <1>2, <1>7, <2>3
  <2>5. i + 1 <= Len(s) /\ s[i + 1] = 46
    BY <2>1, <2>4 DEF DotOK
  <2>6. i + 1 \in 1 .. Len(s)
    BY <1>2, <2>3, <2>5
  <2>7. QED
    BY <1>2, <2>5, <2>6
<1>8. next \in 0 .. 2 /\ (next = 1 <=> c = 13) /\ (next = 2 <=> (c = 10 /\ state = 1))
  OBVIOUS
<1> HIDE DEF a, next
<1>9. DotOK(a, next, Append(t, c))
  BY <1>2, <1>4, <1>5, <1>6, <1>7, <1>8 DEF DotOK
<1>10. QED
  BY <1>9 DEF a, next

LEMMA DotLoop ==
  ASSUME NEW s, NEW state, NEW t, DotOK(s, state, t), NEW chunk \in Strings
  PROVE  /\ dot(state, chunk) \in Stuffing
         /\ DotOK(s \o dot(state, chunk).out, dot(state, chunk).state, t \o chunk)
<1> DEFINE start == [out |-> << >>, state |-> state]
           e(r) == Loop(dotbyte, start, r)
           P == {r \in Strings : e(r) \in Stuffing /\ DotOK(s \o e(r).out, e(r).state, t \o r)}
<1>1. s \in Strings /\ t \in Strings /\ state \in 0 .. 2 /\ << >> \in Strings
  BY DEF DotOK, Strings
<1>2. << >> \in P
  <2>1. e(<< >>) = start
    BY LoopNone
  <2>2. start \in Stuffing /\ start.out = << >> /\ start.state = state
    BY <1>1 DEF Stuffing
  <2>3. s \o << >> = s /\ t \o << >> = t
    BY <1>1, StringsConcat
  <2> HIDE DEF e, start
  <2>4. QED
    BY <1>1, <2>1, <2>2, <2>3, Zenon
<1>3. ASSUME NEW r \in Strings, NEW c \in Byte, r \in P PROVE Append(r, c) \in P
  <2>1. PICK acc : acc = e(r)
    OBVIOUS
  <2>2. acc \in Stuffing /\ DotOK(s \o acc.out, acc.state, t \o r)
    BY <1>3, <2>1
  <2>3. PICK o : o = acc.out
    OBVIOUS
  <2>4. PICK q : q = acc.state
    OBVIOUS
  <2>5. o \in Strings /\ q \in 0 .. 2 /\ DotOK(s \o o, q, t \o r)
    BY <2>2, <2>3, <2>4 DEF Stuffing
  <2>6. e(Append(r, c)) = dotbyte[acc][c]
    <3>1. r \in Seq(Byte)
      BY DEF Strings
    <3>2. QED
      BY <2>1, <3>1, LoopAppend
  <2>7. dotbyte[acc][c] =
          [out |-> o \o (IF c = 46 /\ q = 2 THEN <<46, 46>> ELSE <<c>>),
           state |-> IF c = 13 THEN 1 ELSE IF c = 10 /\ q = 1 THEN 2 ELSE 0]
    BY <2>2, <2>3, <2>4 DEF dotbyte, Stuffing, DOT, ByteCR, ByteLF
  <2>8. Append(r, c) \in Strings /\ t \o Append(r, c) = Append(t \o r, c) /\ s \o o \in Strings
    <3>1. r \in Seq(Byte) /\ t \in Seq(Byte) /\ s \in Seq(Byte) /\ o \in Seq(Byte)
      BY <1>1, <2>5 DEF Strings
    <3>2. QED
      BY <3>1, AppendToConcat DEF Strings
  <2> HIDE DEF e
  <2>9. CASE c = 46 /\ q = 2
    <3>1. DotOK(Append(Append(s \o o, 46), 46), 0, Append(t \o r, 46))
      BY <2>5, <2>9, DotDoubles
    <3>2. e(Append(r, c)) = [out |-> o \o <<46, 46>>, state |-> 0]
      BY <2>6, <2>7, <2>9
    <3>3. Append(Append(s \o o, 46), 46) = s \o (o \o <<46, 46>>) /\ o \o <<46, 46>> \in Strings
      <4>1. 46 \in Byte /\ <<46>> \in Strings /\ <<46, 46>> \in Strings /\ <<46>> \o <<46>> = <<46, 46>>
        <5>1. 46 \in Byte
          BY DEF Byte
        <5>2. QED
          BY <5>1, Pair
      <4>2. Append(s \o o, 46) \in Strings /\ Append(s \o o, 46) = (s \o o) \o <<46>>
        BY <2>8, <4>1, Appended
      <4>3. Append(Append(s \o o, 46), 46) = ((s \o o) \o <<46>>) \o <<46>>
        BY <4>1, <4>2, Appended
      <4>4. ((s \o o) \o <<46>>) \o <<46>> = (s \o o) \o (<<46>> \o <<46>>)
        BY <2>8, <4>1, StringsConcat
      <4>5. (s \o o) \o <<46, 46>> = s \o (o \o <<46, 46>>) /\ o \o <<46, 46>> \in Strings
        <5>1. PICK d : d = <<46, 46>>
          BY Zenon
        <5>2. d \in Strings
          BY <4>1, <5>1
        <5>3. (s \o o) \o d = s \o (o \o d)
          BY <1>1, <2>5, <5>2, StringsConcat
        <5>4. o \o d \in Strings
          BY <2>5, <5>2, StringsConcat, Zenon
        <5>5. QED
          BY <5>1, <5>3, <5>4, Zenon
      <4>6. QED
        BY <4>1, <4>3, <4>4, <4>5, Zenon
    <3>4. e(Append(r, c)).out = o \o <<46, 46>> /\ e(Append(r, c)).state = 0 /\ e(Append(r, c)) \in Stuffing
      BY <3>2, <3>3 DEF Stuffing
    <3>5. DotOK(s \o e(Append(r, c)).out, e(Append(r, c)).state, t \o Append(r, c))
      BY <2>8, <2>9, <3>1, <3>3, <3>4, Zenon
    <3>6. QED
      BY <2>8, <3>4, <3>5, Zenon
  <2>10. CASE ~(c = 46 /\ q = 2)
    <3> DEFINE n == IF c = 13 THEN 1 ELSE IF c = 10 /\ q = 1 THEN 2 ELSE 0
    <3>1. DotOK(Append(s \o o, c), n, Append(t \o r, c))
      BY <2>5, <2>10, DotPuts
    <3>2. e(Append(r, c)) = [out |-> o \o <<c>>, state |-> n]
      BY <2>6, <2>7, <2>10, Zenon
    <3>3. Append(s \o o, c) = s \o (o \o <<c>>) /\ o \o <<c>> \in Strings
      <4>1. <<c>> \in Strings
        BY DEF Strings
      <4>2. Append(s \o o, c) = (s \o o) \o <<c>>
        BY <2>8, Appended
      <4>3. (s \o o) \o <<c>> = s \o (o \o <<c>>) /\ o \o <<c>> \in Strings
        BY <1>1, <2>5, <4>1, StringsConcat
      <4>4. QED
        BY <4>2, <4>3, Zenon
    <3>4. n \in 0 .. 2
      OBVIOUS
    <3> HIDE DEF n
    <3>5. e(Append(r, c)).out = o \o <<c>> /\ e(Append(r, c)).state = n /\ e(Append(r, c)) \in Stuffing
      BY <3>2, <3>3, <3>4 DEF Stuffing
    <3>6. DotOK(s \o e(Append(r, c)).out, e(Append(r, c)).state, t \o Append(r, c))
      BY <2>8, <3>1, <3>3, <3>5
    <3>7. QED
      BY <2>8, <3>5, <3>6, Zenon
  <2>11. QED
    BY <2>9, <2>10
<1> HIDE DEF P
<1>4. Seq(Byte) \subseteq P
  <2>1. Strings = Seq(Byte)
    BY DEF Strings
  <2>2. QED
    BY <1>2, <1>3, <2>1, SeqInd
<1>5. chunk \in P
  BY <1>4 DEF Strings
<1>6. dot(state, chunk) = e(chunk)
  BY DEF dot
<1>7. QED
  BY <1>5, <1>6 DEF P

(* No line of what has been sent begins with a single dot.                 *)
LEMMA DotNeverEnds ==
  ASSUME NEW s, NEW state, NEW t, DotOK(s, state, t)
  PROVE  \A i \in Begins(s) : ~ IsPrefix(<<46, 13, 10>>, SubSeq(s, i, Len(s)))
<1> SUFFICES ASSUME NEW i \in Begins(s), IsPrefix(<<46, 13, 10>>, SubSeq(s, i, Len(s)))
             PROVE  FALSE
  OBVIOUS
<1> DEFINE u == SubSeq(s, i, Len(s))
<1>1. s \in Strings /\ s \in Seq(Byte) /\ Len(s) \in Nat /\ \A j \in 1 .. Len(s) : s[j] \in Byte
  BY DEF DotOK, Strings
<1>2. i \in 1 .. Len(s) + 1
  BY <1>1, BeginsBound
<1>3. /\ u \in Seq(Byte) /\ Len(u) = IF i <= Len(s) THEN Len(s) - i + 1 ELSE 0
      /\ \A j \in 1 .. Len(s) - i + 1 : u[j] = s[i + j - 1]
  <2>1. i \in Int /\ Len(s) \in Int /\ \A j \in i .. Len(s) : s[j] \in Byte
    BY <1>1, <1>2
  <2>2. QED
    BY <2>1, SubSeqProperties
<1> DEFINE dots == <<46, 13, 10>>
<1>4. dots \in Seq(Byte) /\ Len(dots) = 3 /\ dots[1] = 46 /\ dots[2] = 13
  BY DEF Byte
<1>5. Len(dots) <= Len(u) /\ SubSeq(dots, 1, Len(dots)) = SubSeq(u, 1, Len(dots))
  BY Zenon DEF IsPrefix
<1> HIDE DEF u, dots
<1>6. Len(s) - i + 1 >= 3 /\ Len(u) = Len(s) - i + 1
  BY <1>1, <1>2, <1>3, <1>4, <1>5
<1>7. u[1] = 46 /\ u[2] = 13
  <2>1. \A j \in 1 .. 3 : dots[j] \in Byte /\ u[j] \in Byte
    <3>1. ASSUME NEW j \in 1 .. 3 PROVE dots[j] \in Byte /\ u[j] \in Byte
      <4>1. j \in 1 .. Len(dots) /\ j \in 1 .. Len(u)
        BY <1>2, <1>4, <1>6
      <4>2. dots[j] \in Byte
        BY <1>4, <4>1, ElementOfSeq, Zenon
      <4>3. u[j] \in Byte
        BY <1>3, <4>1
      <4>4. QED
        BY <4>2, <4>3
    <3>2. QED
      BY <3>1
  <2>2. /\ \A j \in 1 .. 3 - 1 + 1 : SubSeq(dots, 1, 3)[j] = dots[1 + j - 1]
        /\ \A j \in 1 .. 3 - 1 + 1 : SubSeq(u, 1, 3)[j] = u[1 + j - 1]
    BY <2>1, SubSeqProperties
  <2>3. SubSeq(dots, 1, 3) = SubSeq(u, 1, 3)
    BY <1>4, <1>5
  <2>4. dots[1] = u[1] /\ dots[2] = u[2]
    BY <2>2, <2>3
  <2>5. QED
    BY <1>4, <2>4
<1>8. u[1] = s[i] /\ u[2] = s[i + 1]
  <2>1. 1 \in 1 .. Len(s) - i + 1 /\ 2 \in 1 .. Len(s) - i + 1 /\ i + 1 - 1 = i /\ i + 2 - 1 = i + 1
    BY <1>1, <1>2, <1>6
  <2>2. u[1] = s[i + 1 - 1] /\ u[2] = s[i + 2 - 1]
    BY <1>3, <2>1
  <2>3. QED
    BY <2>1, <2>2
<1>9. i <= Len(s)
  BY <1>1, <1>2, <1>6
<1>10. s[i + 1] = 46
  BY <1>7, <1>8, <1>9 DEF DotOK
<1>11. QED
  BY <1>7, <1>8, <1>10

-----------------------------------------------------------------------------
(* Line ends made uniform with the marker mk.                              *)
LineEnds == {13, 10}

UniStep(mk, f, text) ==
  IF text = << >> THEN << >>
  ELSE IF ~(text[1] \in {13, 10}) THEN <<text[1]>> \o f[Tail(text)]
  ELSE IF Len(text) > 1 /\ text[2] \in {13, 10}
  THEN mk \o (IF text[1] = text[2] THEN mk ELSE << >>) \o f[SubSeq(text, 3, Len(text))]
  ELSE mk \o f[Tail(text)]

Uni(mk) == CHOOSE f : f = [text \in Strings |-> UniStep(mk, f, text)]

LEMMA UniformIsUni == Uniform = Uni(marker)
  BY DEF Uniform, Uni, UniStep

LEMMA UniIs ==
  ASSUME NEW mk, mk \in Strings
  PROVE  \A s \in Strings : Uni(mk)[s] = UniStep(mk, Uni(mk), s) /\ Uni(mk)[s] \in Strings
<1> DEFINE front(r) == IF ~(r[1] \in {13, 10}) THEN <<r[1]>>
                       ELSE IF Len(r) > 1 /\ r[2] \in {13, 10}
                       THEN mk \o (IF r[1] = r[2] THEN mk ELSE << >>)
                       ELSE mk
           left(r) == IF ~(r[1] \in {13, 10}) THEN Tail(r)
                      ELSE IF Len(r) > 1 /\ r[2] \in {13, 10} THEN SubSeq(r, 3, Len(r))
                      ELSE Tail(r)
           head == [r \in Seq(Byte) |-> front(r)]
           rest == [r \in Seq(Byte) |-> left(r)]
<1> HIDE DEF front, left
<1>1. \A r \in Seq(Byte) : head[r] = front(r) /\ rest[r] = left(r)
  OBVIOUS
<1> HIDE DEF head, rest
<1>2. ASSUME NEW r \in Seq(Byte), r # << >> PROVE rest[r] \in Seq(Byte) /\ Len(rest[r]) < Len(r)
  <2>1. rest[r] = Tail(r) \/ rest[r] = SubSeq(r, 3, Len(r))
    BY <1>1, Zenon DEF left
  <2>2. /\ Len(r) \in Nat /\ Tail(r) \in Seq(Byte) /\ Len(Tail(r)) = Len(r) - 1
        /\ SubSeq(r, 3, Len(r)) \in Seq(Byte) /\ Len(SubSeq(r, 3, Len(r))) < Len(r)
    BY <1>2, SeqFacts
  <2>3. Len(Tail(r)) < Len(r)
    BY <2>2
  <2>4. CASE rest[r] = Tail(r)
    BY <2>2, <2>3, <2>4
  <2>5. CASE rest[r] = SubSeq(r, 3, Len(r))
    BY <2>2, <2>5
  <2>6. QED
    BY <2>1, <2>4, <2>5
<1>3. ASSUME NEW r \in Seq(Byte), r # << >> PROVE head[r] \in Seq(Byte)
  <2>1. mk \in Seq(Byte) /\ r[1] \in Byte
    BY <1>3 DEF Strings
  <2>2. <<r[1]>> \in Seq(Byte) /\ mk \o mk \in Seq(Byte) /\ mk \o << >> \in Seq(Byte)
    BY <2>1
  <2>3. head[r] = <<r[1]>> \/ head[r] = mk \o mk \/ head[r] = mk \o << >> \/ head[r] = mk
    BY <1>1, Zenon DEF front
  <2>4. QED
    BY <2>1, <2>2, <2>3, Zenon
<1>4. PICK f : Recurs(Seq(Byte), head, rest, f)
  BY <1>2, RecursExists, Zenon
<1>5. ASSUME NEW r \in Seq(Byte)
      PROVE  (IF r = << >> THEN << >> ELSE head[r] \o f[rest[r]]) = UniStep(mk, f, r)
  BY <1>1 DEF front, left, UniStep
<1>6. f = [r \in Seq(Byte) |-> IF r = << >> THEN << >> ELSE head[r] \o f[rest[r]]]
  BY <1>4, Zenon DEF Recurs
<1>7. f = [r \in Strings |-> UniStep(mk, f, r)]
  BY <1>5, <1>6, Zenon DEF Strings
<1>8. \E g : g = [r \in Strings |-> UniStep(mk, g, r)]
  BY <1>7
<1>9. PICK g : g = Uni(mk)
  OBVIOUS
<1>10. g = [r \in Strings |-> UniStep(mk, g, r)]
  BY <1>8, <1>9 DEF Uni
<1>11. ASSUME NEW s \in Strings PROVE g[s] = UniStep(mk, g, s)
  BY <1>10
<1>12. ASSUME NEW r \in Seq(Byte)
       PROVE  (IF r = << >> THEN << >> ELSE head[r] \o g[rest[r]]) = UniStep(mk, g, r)
  BY <1>1 DEF front, left, UniStep
<1>13. g = [r \in Seq(Byte) |-> IF r = << >> THEN << >> ELSE head[r] \o g[rest[r]]]
  BY <1>10, <1>12, Zenon DEF Strings
<1>14. Recurs(Seq(Byte), head, rest, g)
  BY <1>13, Zenon DEF Recurs
<1>15. \A s \in Seq(Byte) : g[s] \in Seq(Byte)
  BY <1>2, <1>3, <1>14, RecursTyped
<1>16. QED
  BY <1>9, <1>11, <1>15 DEF Strings

(* A string with a byte before it, and with two.                           *)
Begun(s, front, r) == s = front \o r

LEMMA ByteBefore ==
  ASSUME NEW s, NEW c, NEW r, c \in Byte, r \in Strings, Begun(s, <<c>>, r)
  PROVE  /\ s \in Strings /\ s # << >>
         /\ Len(r) \in Nat /\ Len(s) = Len(r) + 1
         /\ s[1] = c /\ (\A i \in 1 .. Len(r) : s[i + 1] = r[i])
         /\ Tail(s) = r
<1>1. <<c>> \in Seq(Byte) /\ Len(<<c>>) = 1 /\ r \in Seq(Byte)
  BY DEF Strings
<1>2. s \in Seq(Byte) /\ Len(s) = Len(r) + 1 /\ s[1] = c /\ s # << >> /\ Len(r) \in Nat
      /\ \A i \in 1 .. Len(r) : s[i + 1] = r[i]
  BY <1>1 DEF Begun
<1>3. Tail(s) = r
  <2>1. Tail(s) \in Seq(Byte) /\ Len(Tail(s)) = Len(r) /\ \A i \in 1 .. Len(Tail(s)) : Tail(s)[i] = s[i + 1]
    BY <1>2, HeadTailProperties
  <2>2. \A i \in 1 .. Len(r) : Tail(s)[i] = r[i]
    BY <1>2, <2>1
  <2>3. QED
    BY <1>1, <2>1, <2>2, SeqEqual
<1>4. s \in Strings
  BY <1>2 DEF Strings
<1>5. QED
  BY <1>2, <1>3, <1>4

LEMMA TwoBefore ==
  ASSUME NEW s, NEW c, NEW d, NEW r, c \in Byte, d \in Byte, r \in Strings,
         Begun(s, <<c, d>>, r)
  PROVE  /\ s \in Strings /\ s # << >>
         /\ Len(r) \in Nat /\ Len(s) = Len(r) + 2
         /\ s[1] = c /\ s[2] = d
         /\ Tail(s) = <<d>> \o r
         /\ SubSeq(s, 3, Len(s)) = r
<1>1. PICK p : Begun(p, <<d>>, r)
  BY Zenon DEF Begun
<1>2. /\ p \in Strings /\ p # << >>
      /\ Len(r) \in Nat /\ Len(p) = Len(r) + 1
      /\ p[1] = d /\ (\A i \in 1 .. Len(r) : p[i + 1] = r[i])
      /\ Tail(p) = r
  BY <1>1, ByteBefore
<1>3. Begun(s, <<c>>, p)
  <2>1. <<c>> \in Strings /\ <<d>> \in Strings /\ <<c>> \o <<d>> = <<c, d>>
    BY Pair, Zenon
  <2>2. (<<c>> \o <<d>>) \o r = <<c>> \o (<<d>> \o r)
    BY <2>1, StringsConcat
  <2>3. QED
    BY <1>1, <2>1, <2>2, Zenon DEF Begun
<1>4. /\ s \in Strings /\ s # << >>
      /\ Len(p) \in Nat /\ Len(s) = Len(p) + 1
      /\ s[1] = c /\ (\A i \in 1 .. Len(p) : s[i + 1] = p[i])
      /\ Tail(s) = p
  BY <1>2, <1>3, ByteBefore
<1>5. s[2] = d
  <2>1. 1 \in 1 .. Len(p) /\ 1 + 1 = 2
    BY <1>2
  <2>2. s[1 + 1] = p[1]
    BY <1>4, <2>1
  <2>3. QED
    BY <1>2, <2>1, <2>2
<1>6. SubSeq(s, 3, Len(s)) = r
  <2>1. 3 \in Int /\ Len(s) \in Int /\ s \in Seq(Byte) /\ \A i \in 3 .. Len(s) : s[i] \in Byte
    BY <1>2, <1>4 DEF Strings
  <2>2. /\ SubSeq(s, 3, Len(s)) \in Seq(Byte)
        /\ Len(SubSeq(s, 3, Len(s))) = IF 3 <= Len(s) THEN Len(s) - 3 + 1 ELSE 0
        /\ \A i \in 1 .. Len(s) - 3 + 1 : SubSeq(s, 3, Len(s))[i] = s[3 + i - 1]
    BY <2>1, SubSeqProperties
  <2>3. Len(SubSeq(s, 3, Len(s))) = Len(r)
    BY <1>2, <1>4, <2>2
  <2>4. ASSUME NEW i \in 1 .. Len(r) PROVE SubSeq(s, 3, Len(s))[i] = r[i]
    <3>1. i \in 1 .. Len(s) - 3 + 1 /\ 3 + i - 1 = (i + 1) + 1 /\ i + 1 \in 1 .. Len(p)
      BY <1>2, <1>4
    <3>2. SubSeq(s, 3, Len(s))[i] = s[3 + i - 1]
      BY <2>2, <3>1
    <3>3. s[(i + 1) + 1] = p[i + 1]
      BY <1>4, <3>1
    <3>4. p[i + 1] = r[i]
      BY <1>2
    <3>5. QED
      BY <3>1, <3>2, <3>3, <3>4
  <2>5. r \in Seq(Byte)
    BY DEF Strings
  <2>6. QED
    BY <2>2, <2>3, <2>4, <2>5, SeqEqual, Zenon
<1>7. Len(s) = Len(r) + 2
  BY <1>2, <1>4
<1>8. Tail(s) = <<d>> \o r
  BY <1>1, <1>4 DEF Begun
<1>9. QED
  BY <1>2, <1>4, <1>5, <1>6, <1>7, <1>8

(* The text a is uniform as o, whatever follows it.                        *)
Whole(mk, a, o) == \A x \in Strings : Uni(mk)[a \o x] = o \o Uni(mk)[x]

LEMMA WholeNone == ASSUME NEW mk, mk \in Strings PROVE Whole(mk, << >>, << >>)
<1> SUFFICES ASSUME NEW x \in Strings PROVE Uni(mk)[<< >> \o x] = << >> \o Uni(mk)[x]
  BY DEF Whole
<1>1. PICK u : u = Uni(mk)[x]
  OBVIOUS
<1>2. u \in Strings
  BY <1>1, UniIs
<1>3. << >> \o u = u /\ << >> \o x = x
  BY <1>2, StringsConcat
<1>4. QED
  BY <1>1, <1>3

LEMMA WholeGrows ==
  ASSUME NEW mk, mk \in Strings, NEW a, NEW o, NEW b, NEW p,
         a \in Strings, o \in Strings, b \in Strings, p \in Strings,
         Whole(mk, a, o), Whole(mk, b, p)
  PROVE  Whole(mk, a \o b, o \o p)
<1> SUFFICES ASSUME NEW x \in Strings PROVE Uni(mk)[(a \o b) \o x] = (o \o p) \o Uni(mk)[x]
  BY Zenon DEF Whole
<1>1. PICK u : u = Uni(mk)[x]
  OBVIOUS
<1>2. u \in Strings
  BY <1>1, UniIs
<1>3. (a \o b) \o x = a \o (b \o x) /\ b \o x \in Strings /\ (o \o p) \o u = o \o (p \o u)
  <2>1. (a \o b) \o x = a \o (b \o x)
    BY StringsConcat
  <2>2. b \o x \in Strings
    BY StringsConcat
  <2>3. (o \o p) \o u = o \o (p \o u)
    BY <1>2, StringsConcat
  <2>4. QED
    BY <2>1, <2>2, <2>3
<1>4. Uni(mk)[a \o (b \o x)] = o \o Uni(mk)[b \o x]
  BY <1>3 DEF Whole
<1>5. Uni(mk)[b \o x] = p \o Uni(mk)[x]
  BY DEF Whole
<1>6. QED
  BY <1>1, <1>3, <1>4, <1>5

LEMMA WholePlain ==
  ASSUME NEW mk, mk \in Strings, NEW c, c \in Byte, c \notin LineEnds
  PROVE  Whole(mk, <<c>>, <<c>>)
<1> SUFFICES ASSUME NEW x \in Strings PROVE Uni(mk)[<<c>> \o x] = <<c>> \o Uni(mk)[x]
  BY DEF Whole
<1>1. PICK s : Begun(s, <<c>>, x)
  BY Zenon DEF Begun
<1>2. s \in Strings /\ s # << >> /\ s[1] = c /\ Tail(s) = x
  BY <1>1, ByteBefore
<1>3. Uni(mk)[s] = UniStep(mk, Uni(mk), s)
  BY <1>2, UniIs
<1>4. UniStep(mk, Uni(mk), s) = <<c>> \o Uni(mk)[x]
  BY <1>2, Zenon DEF UniStep, LineEnds
<1>5. QED
  BY <1>1, <1>3, <1>4 DEF Begun

LEMMA WholePair ==
  ASSUME NEW mk, mk \in Strings, NEW c, NEW d, c \in LineEnds, d \in LineEnds
  PROVE  Whole(mk, <<c, d>>, mk \o (IF c = d THEN mk ELSE << >>))
<1> SUFFICES ASSUME NEW x \in Strings
             PROVE  Uni(mk)[<<c, d>> \o x] = (mk \o (IF c = d THEN mk ELSE << >>)) \o Uni(mk)[x]
  BY Zenon DEF Whole
<1>0. PICK s : Begun(s, <<c, d>>, x)
  BY Zenon DEF Begun
<1>1. c \in Byte /\ d \in Byte
  BY DEF LineEnds, Byte
<1>2. /\ s \in Strings /\ s # << >>
      /\ Len(x) \in Nat /\ Len(s) = Len(x) + 2
      /\ s[1] = c /\ s[2] = d
      /\ Tail(s) = <<d>> \o x
      /\ SubSeq(s, 3, Len(s)) = x
  BY <1>0, <1>1, TwoBefore, Zenon
<1>3. Uni(mk)[s] = UniStep(mk, Uni(mk), s)
  BY <1>2, UniIs
<1>4. Len(s) > 1
  BY <1>2
<1>5. UniStep(mk, Uni(mk), s) = mk \o (IF s[1] = s[2] THEN mk ELSE << >>) \o Uni(mk)[SubSeq(s, 3, Len(s))]
  BY <1>2, <1>4, Zenon DEF UniStep, LineEnds
<1>6. QED
  BY <1>0, <1>2, <1>3, <1>5, Zenon DEF Begun

LEMMA WholeAlone ==
  ASSUME NEW mk, mk \in Strings, NEW c, NEW d, c \in LineEnds, d \in Byte, d \notin LineEnds
  PROVE  Whole(mk, <<c, d>>, mk \o <<d>>)
<1> SUFFICES ASSUME NEW x \in Strings PROVE Uni(mk)[<<c, d>> \o x] = (mk \o <<d>>) \o Uni(mk)[x]
  BY Zenon DEF Whole
<1>0. PICK s : Begun(s, <<c, d>>, x)
  BY Zenon DEF Begun
<1>1. c \in Byte
  BY DEF LineEnds, Byte
<1>2. /\ s \in Strings /\ s # << >>
      /\ Len(x) \in Nat /\ Len(s) = Len(x) + 2
      /\ s[1] = c /\ s[2] = d
      /\ Tail(s) = <<d>> \o x
      /\ SubSeq(s, 3, Len(s)) = x
  BY <1>0, <1>1, TwoBefore, Zenon
<1>3. Uni(mk)[s] = UniStep(mk, Uni(mk), s)
  BY <1>2, UniIs
<1>4. UniStep(mk, Uni(mk), s) = mk \o Uni(mk)[Tail(s)]
  BY <1>2, Zenon DEF UniStep, LineEnds
<1>5. Uni(mk)[<<d>> \o x] = <<d>> \o Uni(mk)[x]
  BY WholePlain DEF Whole
<1>6. PICK u : u = Uni(mk)[x]
  OBVIOUS
<1>7. u \in Strings
  BY <1>6, UniIs
<1>8. <<d>> \in Strings
  BY Pair, Zenon
<1>9. mk \o (<<d>> \o u) = (mk \o <<d>>) \o u
  BY <1>7, <1>8, StringsConcat
<1>10. QED
  BY <1>0, <1>2, <1>3, <1>4, <1>5, <1>6, <1>9, Zenon DEF Begun

LEMMA UniOne ==
  ASSUME NEW mk, mk \in Strings, NEW c, c \in LineEnds
  PROVE  Uni(mk)[<<c>>] = mk /\ Uni(mk)[<< >>] = << >>
<1>1. c \in Byte /\ << >> \in Strings
  BY DEF LineEnds, Byte, Strings
<1>2. <<c>> \in Strings /\ <<c>> # << >> /\ Len(<<c>>) = 1 /\ <<c>>[1] = c
  BY <1>1, Pair, Zenon
<1>3. Tail(<<c>>) = << >>
  <2>1. <<c>> \o << >> = <<c>>
    BY <1>1, <1>2, StringsConcat
  <2>2. Begun(<<c>>, <<c>>, << >>)
    BY <2>1 DEF Begun
  <2>3. QED
    BY <1>1, <2>2, ByteBefore
<1>4. Uni(mk)[<< >>] = << >>
  <2>1. Uni(mk)[<< >>] = UniStep(mk, Uni(mk), << >>)
    BY <1>1, UniIs
  <2>2. QED
    BY <2>1 DEF UniStep
<1>5. Uni(mk)[<<c>>] = mk \o Uni(mk)[Tail(<<c>>)]
  <2>1. Uni(mk)[<<c>>] = UniStep(mk, Uni(mk), <<c>>)
    BY <1>2, UniIs
  <2>2. UniStep(mk, Uni(mk), <<c>>) = mk \o Uni(mk)[Tail(<<c>>)]
    <3> DEFINE t == <<c>>
    <3>1. t # << >> /\ Len(t) = 1 /\ t[1] = c
      BY <1>2
    <3> HIDE DEF t
    <3>2. UniStep(mk, Uni(mk), t) = mk \o Uni(mk)[Tail(t)]
      BY <3>1 DEF UniStep, LineEnds
    <3>3. QED
      BY <3>2 DEF t
  <2>3. QED
    BY <2>1, <2>2
<1>6. mk \o << >> = mk
  BY <1>1, StringsConcat
<1>7. QED
  BY <1>3, <1>4, <1>5, <1>6, Zenon

(* s has been made of the text t, whose last line end may not be over.     *)
Pending(seen) == IF seen = 0 THEN << >> ELSE <<seen>>
Marked(mk, seen) == IF seen = 0 THEN << >> ELSE mk

EolOK(mk, s, seen, t) ==
  /\ mk \in Strings /\ s \in Strings /\ t \in Strings /\ seen \in {0, 10, 13}
  /\ \E a \in Strings : \E o \in Strings :
       t = a \o Pending(seen) /\ s = o \o Marked(mk, seen) /\ Whole(mk, a, o)

LEMMA EolUniform ==
  ASSUME NEW mk, NEW s, NEW seen, NEW t, EolOK(mk, s, seen, t)
  PROVE  s = Uni(mk)[t]
<1>1. mk \in Strings /\ seen \in {0, 10, 13} /\ << >> \in Strings
  BY DEF EolOK, Strings
<1>2. PICK a \in Strings : \E o \in Strings :
        t = a \o Pending(seen) /\ s = o \o Marked(mk, seen) /\ Whole(mk, a, o)
  BY Zenon DEF EolOK
<1>3. PICK o \in Strings : t = a \o Pending(seen) /\ s = o \o Marked(mk, seen) /\ Whole(mk, a, o)
  BY <1>2, Zenon
<1>4. CASE seen = 0
  <2>1. t = a \o << >> /\ s = o \o << >>
    BY <1>3, <1>4 DEF Pending, Marked
  <2>2. Uni(mk)[a \o << >>] = o \o Uni(mk)[<< >>]
    BY <1>1, <1>3, Zenon DEF Whole
  <2>3. Uni(mk)[<< >>] = << >>
    <3>1. 10 \in LineEnds
      BY DEF LineEnds
    <3>2. QED
      BY <1>1, <3>1, UniOne, Zenon
  <2>4. QED
    BY <2>1, <2>2, <2>3
<1>5. CASE seen # 0
  <2>1. t = a \o <<seen>> /\ s = o \o mk /\ seen \in LineEnds
    BY <1>1, <1>3, <1>5 DEF Pending, Marked, LineEnds
  <2>2. <<seen>> \in Strings
    <3>1. seen \in Byte
      BY <1>1 DEF Byte
    <3>2. QED
      BY <3>1, Pair, Zenon
  <2>3. Uni(mk)[a \o <<seen>>] = o \o Uni(mk)[<<seen>>]
    BY <1>3, <2>2, Zenon DEF Whole
  <2>4. Uni(mk)[<<seen>>] = mk
    BY <1>1, <2>1, UniOne
  <2>5. QED
    BY <2>1, <2>3, <2>4
<1>6. QED
  BY <1>4, <1>5

LEMMA EolByte ==
  ASSUME NEW mk, NEW s, NEW seen, NEW t, EolOK(mk, s, seen, t), NEW c, c \in Byte
  PROVE  IF c \notin LineEnds THEN EolOK(mk, s \o <<c>>, 0, t \o <<c>>)
         ELSE IF seen = 0 THEN EolOK(mk, s \o mk, c, t \o <<c>>)
         ELSE EolOK(mk, s \o (IF c = seen THEN mk ELSE << >>), 0, t \o <<c>>)
<1>1. /\ mk \in Strings /\ s \in Strings /\ t \in Strings /\ seen \in {0, 10, 13}
      /\ << >> \in Strings /\ <<c>> \in Strings
  BY DEF EolOK, Strings
<1>2. PICK a \in Strings : \E o \in Strings :
        t = a \o Pending(seen) /\ s = o \o Marked(mk, seen) /\ Whole(mk, a, o)
  BY Zenon DEF EolOK
<1>3. PICK o \in Strings : t = a \o Pending(seen) /\ s = o \o Marked(mk, seen) /\ Whole(mk, a, o)
  BY <1>2, Zenon
<1>4. t \o <<c>> \in Strings /\ s \o <<c>> \in Strings /\ s \o mk \in Strings /\ s \o << >> \in Strings
  BY <1>1, StringsConcat
<1>5. ASSUME NEW b, NEW p, NEW x, b \in Strings, p \in Strings, x \in Strings,
             t \o <<c>> = a \o b, s \o x = o \o p, Whole(mk, b, p)
      PROVE  EolOK(mk, s \o x, 0, t \o <<c>>)
  <2>1. Whole(mk, a \o b, o \o p) /\ a \o b \in Strings /\ o \o p \in Strings
    BY <1>1, <1>3, <1>5, WholeGrows, StringsConcat
  <2>2. (a \o b) \o << >> = a \o b /\ (o \o p) \o << >> = o \o p
    BY <1>1, <2>1, StringsConcat
  <2>3. Pending(0) = << >> /\ Marked(mk, 0) = << >>
    BY DEF Pending, Marked
  <2>4. s \o x \in Strings
    BY <1>1, <1>5, StringsConcat
  <2>5. t \o <<c>> = (a \o b) \o Pending(0) /\ s \o x = (o \o p) \o Marked(mk, 0)
    BY <1>5, <2>2, <2>3, Zenon
  <2>6. QED
    BY <1>1, <1>4, <2>1, <2>4, <2>5, Zenon DEF EolOK
<1>6. CASE seen = 0
  <2>1. t = a /\ s = o
    <3>1. t = a \o << >> /\ s = o \o << >>
      BY <1>3, <1>6 DEF Pending, Marked
    <3>2. QED
      BY <1>1, <3>1, StringsConcat
  <2>2. CASE c \notin LineEnds
    <3>1. Whole(mk, <<c>>, <<c>>)
      BY <1>1, <2>2, WholePlain
    <3>2. EolOK(mk, s \o <<c>>, 0, t \o <<c>>)
      BY <1>1, <1>5, <2>1, <3>1, Zenon
    <3>3. QED
      BY <2>2, <3>2
  <2>3. CASE c \in LineEnds
    <3>1. c # 0 /\ c \in {0, 10, 13}
      BY <2>3 DEF LineEnds
    <3>2. Pending(c) = <<c>> /\ Marked(mk, c) = mk
      BY <3>1 DEF Pending, Marked
    <3>3. EolOK(mk, s \o mk, c, t \o <<c>>)
      BY <1>1, <1>3, <1>4, <2>1, <3>1, <3>2, Zenon DEF EolOK
    <3>4. QED
      BY <1>6, <2>3, <3>3
  <2>4. QED
    BY <2>2, <2>3
<1>7. CASE seen # 0
  <2>1. t = a \o <<seen>> /\ s = o \o mk /\ seen \in LineEnds /\ seen \in Byte
    BY <1>1, <1>3, <1>7 DEF Pending, Marked, LineEnds, Byte
  <2>2. <<seen>> \in Strings /\ <<seen, c>> \in Strings /\ <<seen>> \o <<c>> = <<seen, c>>
    BY <2>1, Pair
  <2>3. t \o <<c>> = a \o <<seen, c>>
    <3>1. (a \o <<seen>>) \o <<c>> = a \o (<<seen>> \o <<c>>)
      BY <1>1, <2>2, StringsConcat
    <3>2. QED
      BY <2>1, <2>2, <3>1
  <2>4. \A x \in Strings : s \o x = o \o (mk \o x) /\ mk \o x \in Strings
    <3>1. ASSUME NEW x \in Strings PROVE s \o x = o \o (mk \o x) /\ mk \o x \in Strings
      BY <1>1, <2>1, StringsConcat, SMTT(30)
    <3>2. QED
      BY <3>1, Zenon
  <2>5. CASE c \notin LineEnds
    <3>1. Whole(mk, <<seen, c>>, mk \o <<c>>)
      BY <1>1, <2>1, <2>5, WholeAlone
    <3>2. EolOK(mk, s \o <<c>>, 0, t \o <<c>>)
      BY <1>1, <1>5, <2>2, <2>3, <2>4, <3>1, Zenon
    <3>3. QED
      BY <2>5, <3>2
  <2>6. CASE c \in LineEnds
    <3> DEFINE x == IF c = seen THEN mk ELSE << >>
    <3>1. x \in Strings
      BY <1>1
    <3>2. Whole(mk, <<seen, c>>, mk \o x)
      <4>1. Whole(mk, <<seen, c>>, mk \o (IF seen = c THEN mk ELSE << >>))
        BY <1>1, <2>1, <2>6, WholePair
      <4>2. QED
        BY <4>1
    <3>3. EolOK(mk, s \o x, 0, t \o <<c>>)
      <4> HIDE DEF x
      <4>1. QED
        BY <1>1, <1>5, <2>2, <2>3, <2>4, <3>1, <3>2, Zenon
    <3>4. QED
      BY <1>7, <2>6, <3>3
  <2>7. QED
    BY <2>5, <2>6
<1>8. QED
  BY <1>6, <1>7

Ending == [out : Strings, last : Byte]

LEMMA EolLoop ==
  ASSUME NEW mk, NEW s, NEW seen, NEW t, EolOK(mk, s, seen, t), NEW chunk \in Strings
  PROVE  /\ eol(seen, chunk, mk) \in Ending
         /\ EolOK(mk, s \o eol(seen, chunk, mk).out, eol(seen, chunk, mk).last, t \o chunk)
<1> DEFINE start == [out |-> << >>, last |-> seen]
           e(r) == Loop(eolprocess(mk), start, r)
           P == {r \in Strings : e(r) \in Ending /\ EolOK(mk, s \o e(r).out, e(r).last, t \o r)}
<1>1. mk \in Strings /\ s \in Strings /\ t \in Strings /\ seen \in Byte /\ << >> \in Strings
  BY DEF EolOK, Strings, Byte
<1>2. << >> \in P
  <2>1. e(<< >>) = start
    BY LoopNone
  <2>2. start \in Ending /\ start.out = << >> /\ start.last = seen
    BY <1>1 DEF Ending
  <2>3. s \o << >> = s /\ t \o << >> = t
    BY <1>1, StringsConcat
  <2> HIDE DEF e, start
  <2>4. QED
    BY <1>1, <2>1, <2>2, <2>3, Zenon
<1>3. ASSUME NEW r \in Strings, NEW c \in Byte, r \in P PROVE Append(r, c) \in P
  <2>1. PICK acc : acc = e(r)
    OBVIOUS
  <2>2. acc \in Ending /\ EolOK(mk, s \o acc.out, acc.last, t \o r)
    BY <1>3, <2>1
  <2>3. PICK o : o = acc.out
    OBVIOUS
  <2>4. PICK q : q = acc.last
    OBVIOUS
  <2>5. o \in Strings /\ q \in Byte /\ EolOK(mk, s \o o, q, t \o r)
    BY <2>2, <2>3, <2>4 DEF Ending
  <2>6. e(Append(r, c)) = eolprocess(mk)[acc][c]
    <3>1. r \in Seq(Byte)
      BY DEF Strings
    <3>2. QED
      BY <2>1, <3>1, LoopAppend
  <2>7. q \in LineEnds <=> q # 0
    BY <2>5 DEF EolOK, LineEnds
  <2> DEFINE x == IF c \notin LineEnds THEN <<c>> ELSE IF q = 0 THEN mk ELSE IF c = q THEN mk ELSE << >>
             n == IF c \in LineEnds /\ q = 0 THEN c ELSE 0
  <2>8. eolprocess(mk)[acc][c] = [out |-> o \o x, last |-> n]
    BY <2>2, <2>3, <2>4, <2>7, Zenon DEF eolprocess, Ending, LineEnds, ByteCR, ByteLF
  <2>9. Append(r, c) \in Strings /\ t \o Append(r, c) = (t \o r) \o <<c>> /\ <<c>> \in Strings
    <3>1. <<c>> \in Strings
      BY Pair, Zenon
    <3>2. (t \o r) \o <<c>> = t \o (r \o <<c>>)
      BY <1>1, <3>1, StringsConcat
    <3>3. Append(r, c) = r \o <<c>> /\ Append(r, c) \in Strings
      BY Appended
    <3>4. QED
      BY <3>1, <3>2, <3>3
  <2>10. EolOK(mk, (s \o o) \o x, n, (t \o r) \o <<c>>)
    <3>1. IF c \notin LineEnds THEN EolOK(mk, (s \o o) \o <<c>>, 0, (t \o r) \o <<c>>)
          ELSE IF q = 0 THEN EolOK(mk, (s \o o) \o mk, c, (t \o r) \o <<c>>)
          ELSE EolOK(mk, (s \o o) \o (IF c = q THEN mk ELSE << >>), 0, (t \o r) \o <<c>>)
      BY <2>5, EolByte
    <3>2. CASE c \notin LineEnds
      BY <3>1, <3>2
    <3>3. CASE c \in LineEnds /\ q = 0
      BY <3>1, <3>3
    <3>4. CASE c \in LineEnds /\ q # 0
      BY <3>1, <3>4
    <3>5. QED
      BY <3>2, <3>3, <3>4
  <2>11. x \in Strings /\ n \in Byte
    BY <1>1, <2>9 DEF Byte
  <2> HIDE DEF x, n, e
  <2>12. (s \o o) \o x = s \o (o \o x) /\ o \o x \in Strings
    BY <1>1, <2>5, <2>11, StringsConcat
  <2>13. e(Append(r, c)).out = o \o x /\ e(Append(r, c)).last = n /\ e(Append(r, c)) \in Ending
    BY <2>6, <2>8, <2>11, <2>12 DEF Ending
  <2>14. EolOK(mk, s \o e(Append(r, c)).out, e(Append(r, c)).last, t \o Append(r, c))
    BY <2>9, <2>10, <2>12, <2>13
  <2>15. QED
    BY <2>9, <2>13, <2>14, Zenon
<1> HIDE DEF P
<1>4. Seq(Byte) \subseteq P
  <2>1. Strings = Seq(Byte)
    BY DEF Strings
  <2>2. QED
    BY <1>2, <1>3, <2>1, SeqInd
<1>5. chunk \in P
  BY <1>4 DEF Strings
<1>6. eol(seen, chunk, mk) = e(chunk)
  BY DEF eol
<1>7. QED
  BY <1>5, <1>6 DEF P

(* Strings of three and of four bytes.                                     *)
IsAppended(s, c, t) ==
  Len(t) = Len(s) + 1 /\ (\A i \in 1 .. Len(s) : t[i] = s[i]) /\ t[Len(s) + 1] = c

LEMMA AppendedTo ==
  ASSUME NEW s, NEW c, NEW t, s \in Strings, c \in Byte, t \in Strings, IsAppended(s, c, t)
  PROVE  Append(s, c) = t /\ s \o <<c>> = t
<1>1. PICK z : z = Append(s, c)
  BY Zenon
<1>2. z \in Strings /\ Len(s) \in Nat /\ Len(z) = Len(s) + 1
      /\ (\A i \in 1 .. Len(s) : z[i] = s[i]) /\ z[Len(s) + 1] = c
      /\ z = s \o <<c>>
  BY <1>1, Appended
<1>3. ASSUME NEW i \in 1 .. Len(s) + 1 PROVE z[i] = t[i]
  <2>1. i \in 1 .. Len(s) \/ i = Len(s) + 1
    BY <1>2
  <2>2. QED
    BY <1>2, <2>1 DEF IsAppended
<1>4. z = t
  BY <1>2, <1>3, SeqEqual DEF Strings, IsAppended
<1>5. QED
  BY <1>1, <1>2, <1>4

LEMMA Three ==
  ASSUME NEW a, NEW b, NEW c, a \in Byte, b \in Byte, c \in Byte
  PROVE  /\ <<a, b, c>> \in Strings
         /\ <<a, b>> \o <<c>> = <<a, b, c>> /\ Append(<<a, b>>, c) = <<a, b, c>>
         /\ <<a>> \o <<b, c>> = <<a, b, c>>
<1>1. PICK s : s = <<a, b>>
  BY Zenon
<1>2. PICK t : t = <<a, b, c>>
  BY Zenon
<1>3. s \in Strings /\ Len(s) = 2 /\ s[1] = a /\ s[2] = b
  BY <1>1 DEF Strings
<1>4. t \in Strings /\ Len(t) = 3 /\ t[1] = a /\ t[2] = b /\ t[3] = c
  BY <1>2 DEF Strings
<1>5. Len(t) = Len(s) + 1 /\ t[Len(s) + 1] = c
  BY <1>3, <1>4
<1>6. ASSUME NEW i \in 1 .. Len(s) PROVE t[i] = s[i]
  <2>1. i = 1 \/ i = 2
    BY <1>3
  <2>2. QED
    BY <1>3, <1>4, <2>1
<1>0. IsAppended(s, c, t)
  BY <1>5, <1>6 DEF IsAppended
<1>7. Append(s, c) = t /\ s \o <<c>> = t
  BY <1>0, <1>3, <1>4, AppendedTo, Zenon
<1>8. /\ <<a>> \in Strings /\ <<b>> \in Strings /\ <<c>> \in Strings
      /\ <<a>> \o <<b>> = <<a, b>> /\ <<b>> \o <<c>> = <<b, c>>
  BY Pair, Zenon
<1>9. (<<a>> \o <<b>>) \o <<c>> = <<a>> \o (<<b>> \o <<c>>)
  BY <1>8, StringsConcat
<1>10. <<a>> \o <<b, c>> = t
  BY <1>1, <1>7, <1>8, <1>9
<1>11. QED
  BY <1>1, <1>2, <1>4, <1>7, <1>10

LEMMA Four ==
  ASSUME NEW a, NEW b, NEW c, NEW d, a \in Byte, b \in Byte, c \in Byte, d \in Byte
  PROVE  /\ <<a, b, c, d>> \in Strings
         /\ <<a, b, c>> \o <<d>> = <<a, b, c, d>> /\ Append(<<a, b, c>>, d) = <<a, b, c, d>>
<1>1. PICK s : s = <<a, b, c>>
  BY Zenon
<1>2. PICK t : t = <<a, b, c, d>>
  BY Zenon
<1>3. s \in Strings /\ Len(s) = 3 /\ s[1] = a /\ s[2] = b /\ s[3] = c
  BY <1>1 DEF Strings
<1>4. t \in Strings /\ Len(t) = 4 /\ t[1] = a /\ t[2] = b /\ t[3] = c /\ t[4] = d
  BY <1>2 DEF Strings
<1>5. Len(t) = Len(s) + 1 /\ t[Len(s) + 1] = d
  BY <1>3, <1>4
<1>6. ASSUME NEW i \in 1 .. Len(s) PROVE t[i] = s[i]
  <2>1. i = 1 \/ i = 2 \/ i = 3
    BY <1>3
  <2>2. QED
    BY <1>3, <1>4, <2>1
<1>0. IsAppended(s, d, t)
  BY <1>5, <1>6 DEF IsAppended
<1>7. Append(s, d) = t /\ s \o <<d>> = t
  BY <1>0, <1>3, <1>4, AppendedTo, Zenon
<1>8. QED
  BY <1>1, <1>2, <1>4, <1>7

-----------------------------------------------------------------------------
(* A wrapped text: every line that is over keeps to the length, and left   *)
(* is the room on the last one.                                            *)
LinesOK(s, left, L) ==
  /\ s \in Strings /\ L \in Nat /\ left \in 0 .. L
  /\ \E b \in {0} \union EndsOf(s) :
       /\ Len(s) - b = L - left
       /\ \A j \in EndsOf(s) : j <= b
       /\ \A i \in {0} \union EndsOf(s) : i # b => \E j \in EndsOf(s) : j > i /\ j - i - 2 <= L

LEMMA LinesNone == ASSUME NEW L, L \in Nat PROVE LinesOK(<< >>, L, L)
<1>1. << >> \in Strings /\ Len(<< >>) = 0
  BY DEF Strings
<1>2. EndsOf(<< >>) = {}
  BY <1>1 DEF EndsOf
<1>3. L \in 0 .. L /\ 0 - 0 = L - L
  OBVIOUS
<1>4. \E b \in {0} \union EndsOf(<< >>) :
        /\ Len(<< >>) - b = L - L
        /\ \A j \in EndsOf(<< >>) : j <= b
        /\ \A i \in {0} \union EndsOf(<< >>) : i # b => \E j \in EndsOf(<< >>) : j > i /\ j - i - 2 <= L
  <2>1. 0 \in {0} \union EndsOf(<< >>) /\ Len(<< >>) - 0 = L - L
    BY <1>1
  <2>2. QED
    BY <1>2, <2>1
<1>5. QED
  BY <1>1, <1>3, <1>4 DEF LinesOK

LEMMA LinesPut ==
  ASSUME NEW s, NEW left, NEW L, LinesOK(s, left, L), left >= 1, NEW c, c \in Byte, c # 10
  PROVE  LinesOK(Append(s, c), left - 1, L)
<1>1. s \in Strings /\ L \in Nat /\ left \in 0 .. L
  BY DEF LinesOK
<1>2. PICK b \in {0} \union EndsOf(s) :
        /\ Len(s) - b = L - left
        /\ \A j \in EndsOf(s) : j <= b
        /\ \A i \in {0} \union EndsOf(s) : i # b => \E j \in EndsOf(s) : j > i /\ j - i - 2 <= L
  BY DEF LinesOK
<1>3. PICK z : z = Append(s, c)
  BY Zenon
<1>4. z \in Strings /\ Len(s) \in Nat /\ Len(z) = Len(s) + 1
  BY <1>1, <1>3, Appended, Zenon
<1>5. EndsOf(z) = EndsOf(s)
  <2>1. EndsOf(z) = EndsOf(s) \union (IF LastIs(s, 13) /\ c = 10 THEN {Len(s) + 1} ELSE {})
    BY <1>1, <1>3, EndsAppend
  <2>2. QED
    BY <2>1
<1>6. b \in Int
  BY <1>4 DEF EndsOf
<1>7. Len(z) - b = L - (left - 1) /\ left - 1 \in 0 .. L
  BY <1>1, <1>2, <1>4, <1>6
<1>8. b \in {0} \union EndsOf(z)
  BY <1>2, <1>5
<1>9. \E d \in {0} \union EndsOf(z) :
        /\ Len(z) - d = L - (left - 1)
        /\ \A j \in EndsOf(z) : j <= d
        /\ \A i \in {0} \union EndsOf(z) : i # d => \E j \in EndsOf(z) : j > i /\ j - i - 2 <= L
  BY <1>2, <1>5, <1>7, <1>8
<1>10. LinesOK(z, left - 1, L)
  BY <1>1, <1>4, <1>7, <1>9, Zenon DEF LinesOK
<1>11. QED
  BY <1>3, <1>10

LEMMA LinesEnd ==
  ASSUME NEW s, NEW left, NEW L, LinesOK(s, left, L)
  PROVE  LinesOK(Append(Append(s, 13), 10), L, L)
<1>1. s \in Strings /\ L \in Nat /\ left \in 0 .. L
  BY DEF LinesOK
<1>2. PICK b \in {0} \union EndsOf(s) :
        /\ Len(s) - b = L - left
        /\ \A j \in EndsOf(s) : j <= b
        /\ \A i \in {0} \union EndsOf(s) : i # b => \E j \in EndsOf(s) : j > i /\ j - i - 2 <= L
  BY Zenon DEF LinesOK
<1>3. PICK y : y = Append(s, 13)
  BY Zenon
<1>4. PICK z : z = Append(y, 10)
  BY Zenon
<1>5. 13 \in Byte /\ 10 \in Byte
  BY DEF Byte
<1>6. /\ y \in Strings /\ y # << >> /\ Len(s) \in Nat /\ Len(y) = Len(s) + 1 /\ y[Len(s) + 1] = 13
  BY <1>1, <1>3, <1>5, Appended, Zenon
<1>7. z \in Strings /\ Len(z) = Len(y) + 1
  BY <1>4, <1>5, <1>6, Appended, Zenon
<1>8. EndsOf(y) = EndsOf(s)
  <2>1. EndsOf(y) = EndsOf(s) \union (IF LastIs(s, 13) /\ 13 = 10 THEN {Len(s) + 1} ELSE {})
    BY <1>1, <1>3, <1>5, EndsAppend, Zenon
  <2>2. QED
    BY <2>1
<1>9. EndsOf(z) = EndsOf(s) \union {Len(s) + 2}
  <2>1. EndsOf(z) = EndsOf(y) \union (IF LastIs(y, 13) /\ 10 = 10 THEN {Len(y) + 1} ELSE {})
    BY <1>4, <1>5, <1>6, EndsAppend
  <2>2. LastIs(y, 13)
    BY <1>6 DEF LastIs
  <2>3. Len(y) + 1 = Len(s) + 2
    BY <1>6
  <2>4. QED
    BY <1>8, <2>1, <2>2, <2>3
<1>10. PICK d : d = Len(s) + 2
  OBVIOUS
<1>11. d \in Int /\ Len(z) - d = L - L /\ L \in 0 .. L
  BY <1>1, <1>6, <1>7, <1>10
<1>12. \A j \in EndsOf(s) : j \in Int /\ j <= Len(s)
  BY <1>6 DEF EndsOf
<1>13. \A j \in EndsOf(z) : j <= d
  BY <1>6, <1>9, <1>10, <1>12
<1>14. ASSUME NEW i \in {0} \union EndsOf(z), i # d
       PROVE  \E j \in EndsOf(z) : j > i /\ j - i - 2 <= L
  <2>1. i \in {0} \union EndsOf(s) /\ i \in Int /\ i <= Len(s)
    BY <1>6, <1>9, <1>10, <1>12, <1>14
  <2>2. CASE i = b
    <3>1. d > i /\ d - i - 2 <= L
      BY <1>1, <1>2, <1>6, <1>10, <2>1, <2>2
    <3>2. d \in EndsOf(z)
      BY <1>9, <1>10
    <3>3. QED
      BY <3>1, <3>2
  <2>3. CASE i # b
    BY <1>2, <1>9, <2>1, <2>3
  <2>4. QED
    BY <2>2, <2>3
<1>15. d \in {0} \union EndsOf(z)
  BY <1>9, <1>10
<1>16. \E e \in {0} \union EndsOf(z) :
         /\ Len(z) - e = L - L
         /\ \A j \in EndsOf(z) : j <= e
         /\ \A i \in {0} \union EndsOf(z) : i # e => \E j \in EndsOf(z) : j > i /\ j - i - 2 <= L
  BY <1>11, <1>13, <1>14, <1>15
<1>17. LinesOK(z, L, L)
  BY <1>1, <1>7, <1>11, <1>16 DEF LinesOK
<1>18. QED
  BY <1>3, <1>4, <1>17

(* The same, as the wraps put them: a byte, a line end, a soft line break. *)
LEMMA LinesGrow ==
  ASSUME NEW s, NEW left, NEW L, LinesOK(s, left, L)
  PROVE  /\ \A c \in Byte : left >= 1 /\ c # 10 => LinesOK(s \o <<c>>, left - 1, L)
         /\ LinesOK(s \o CRLF, L, L)
         /\ left >= 1 => LinesOK(s \o EQCRLF, L, L)
<1>1. s \in Strings /\ L \in Nat /\ left \in 0 .. L
  BY DEF LinesOK
<1>2. 13 \in Byte /\ 10 \in Byte /\ 61 \in Byte
  BY DEF Byte
<1>3. \A c \in Byte : Append(s, c) = s \o <<c>> /\ <<c>> \in Strings
  BY <1>1, Appended, Pair
<1>4. ASSUME NEW c \in Byte, left >= 1, c # 10 PROVE LinesOK(s \o <<c>>, left - 1, L)
  BY <1>3, <1>4, LinesPut, Zenon
<1>5. CRLF = <<13>> \o <<10>> /\ EQCRLF = <<61>> \o CRLF
  <2>1. <<13>> \o <<10>> = <<13, 10>>
    BY <1>2, Pair, Zenon
  <2>2. <<61>> \o <<13, 10>> = <<61, 13, 10>>
    BY <1>2, Three, Zenon
  <2>3. QED
    BY <2>1, <2>2 DEF CRLF, EQCRLF, EQ, ByteCR, ByteLF
<1>6. ASSUME NEW t, NEW l, LinesOK(t, l, L) PROVE LinesOK(t \o CRLF, L, L)
  <2>1. LinesOK(Append(Append(t, 13), 10), L, L)
    BY <1>6, LinesEnd
  <2>2. t \in Strings
    BY <1>6 DEF LinesOK
  <2>3. Append(t, 13) \in Strings /\ Append(t, 13) = t \o <<13>>
    BY <1>2, <2>2, Appended
  <2>4. Append(Append(t, 13), 10) = (t \o <<13>>) \o <<10>>
    BY <1>2, <2>3, Appended
  <2>5. (t \o <<13>>) \o <<10>> = t \o (<<13>> \o <<10>>)
    BY <1>2, <1>3, <2>2, StringsConcat
  <2>6. QED
    BY <1>5, <2>1, <2>4, <2>5, Zenon
<1>7. ASSUME left >= 1 PROVE LinesOK(s \o EQCRLF, L, L)
  <2>1. LinesOK(s \o <<61>>, left - 1, L)
    BY <1>2, <1>4, <1>7
  <2>2. LinesOK((s \o <<61>>) \o CRLF, L, L)
    BY <1>6, <2>1
  <2>3. CRLF \in Strings
    BY <1>2, Pair, Zenon DEF CRLF, ByteCR, ByteLF
  <2>4. (s \o <<61>>) \o CRLF = s \o (<<61>> \o CRLF)
    BY <1>1, <1>2, <1>3, <2>3, StringsConcat
  <2>5. QED
    BY <1>5, <2>2, <2>4, Zenon
<1>8. QED
  BY <1>4, <1>6, <1>7

(* What CodingIsExact says of the lines.                                   *)
LEMMA LinesBound ==
  ASSUME NEW s, NEW left, NEW L, LinesOK(s, left, L)
  PROVE  \A i \in {0} \union EndsOf(s) :
           Min({j \in EndsOf(s) : j > i} \union {Len(s) + 2}) - i - 2 <= L
<1> SUFFICES ASSUME NEW i \in {0} \union EndsOf(s)
             PROVE  Min({j \in EndsOf(s) : j > i} \union {Len(s) + 2}) - i - 2 <= L
  OBVIOUS
<1>1. s \in Strings /\ L \in Nat /\ left \in 0 .. L /\ Len(s) \in Nat
  BY DEF LinesOK, Strings
<1>2. PICK b \in {0} \union EndsOf(s) :
        /\ Len(s) - b = L - left
        /\ \A j \in EndsOf(s) : j <= b
        /\ \A k \in {0} \union EndsOf(s) : k # b => \E j \in EndsOf(s) : j > k /\ j - k - 2 <= L
  BY DEF LinesOK
<1>3. PICK M : M = {j \in EndsOf(s) : j > i} \union {Len(s) + 2}
  BY Zenon
<1>4. M \subseteq Nat /\ M # {} /\ i \in Nat /\ b \in Nat
  <2>1. EndsOf(s) \subseteq Nat
    BY <1>1 DEF EndsOf
  <2>2. QED
    BY <1>1, <1>3, <2>1
<1>5. Min(M) \in M /\ \A x \in M : Min(M) <= x
  <2>1. \E x \in M : \A y \in M : x <= y
    BY <1>4, LeastNat, Zenon
  <2>2. QED
    BY <2>1 DEF Min
<1>6. \E x \in M : x - i - 2 <= L
  <2>1. CASE i = b
    <3>1. Len(s) + 2 \in M
      BY <1>3
    <3>2. (Len(s) + 2) - i - 2 <= L
      BY <1>1, <1>2, <1>4, <2>1
    <3>3. QED
      BY <3>1, <3>2
  <2>2. CASE i # b
    <3>1. PICK j \in EndsOf(s) : j > i /\ j - i - 2 <= L
      BY <1>2, <2>2
    <3>2. j \in M
      BY <1>3, <3>1
    <3>3. QED
      BY <3>1, <3>2
  <2>3. QED
    BY <2>1, <2>2
<1>7. PICK x \in M : x - i - 2 <= L
  BY <1>6
<1>8. PICK n : n = Min(M)
  OBVIOUS
<1>9. n \in Nat /\ n <= x /\ x \in Nat
  BY <1>4, <1>5, <1>7, <1>8, Zenon
<1>10. n - i - 2 <= L
  BY <1>1, <1>4, <1>7, <1>9
<1>11. QED
  BY <1>3, <1>8, <1>10

(* What a call has sent: acc is what the wrap has made, and what it has    *)
(* put out, decoded by D, leaves the bytes p held and has given o back;    *)
(* the room left on the line is lo at least.                               *)
Passed(D, L, s, acc, p, lo, o) ==
  /\ s \in Strings /\ acc \in Wrapped /\ p \in Strings /\ o \in Strings /\ L \in Nat
  /\ acc.left \in lo .. L
  /\ LinesOK(s \o acc.out, acc.left, L)
  /\ Loop(D, Nothing, acc.out) = [atom |-> p, out |-> o]

LEMMA PassedGrows ==
  ASSUME NEW D, NEW L, NEW s, NEW acc, NEW p, NEW lo, NEW o, Passed(D, L, s, acc, p, lo, o),
         NEW piece, NEW left, NEW a, NEW m, NEW la,
         piece \in Strings, a \in Strings, m \in Strings, left \in la .. L, la \in Nat,
         LinesOK((s \o acc.out) \o piece, left, L),
         Loop(D, [atom |-> p, out |-> o], piece) = [atom |-> a, out |-> o \o m]
  PROVE  Passed(D, L, s, Wrote(acc, piece, left), a, la, o \o m)
<1>1. s \in Strings /\ acc \in Wrapped /\ acc.out \in Strings /\ o \in Strings /\ L \in Nat
  BY DEF Passed, Wrapped
<1>2. PICK w : w = acc.out
  OBVIOUS
<1>3. w \in Strings
  BY <1>1, <1>2
<1>4. (s \o w) \o piece = s \o (w \o piece) /\ w \o piece \in Strings
  BY <1>1, <1>3, StringsConcat, SMTT(30)
<1>5. o \o m \in Strings
  BY <1>1, StringsConcat
<1>6. Loop(D, Nothing, w \o piece) = [atom |-> a, out |-> o \o m]
  <2>1. w \in Seq(Byte) /\ piece \in Seq(Byte)
    BY <1>3 DEF Strings
  <2>2. Loop(D, Nothing, w \o piece) = Loop(D, Loop(D, Nothing, w), piece)
    BY <2>1, LoopConcat
  <2>3. Loop(D, Nothing, w) = [atom |-> p, out |-> o]
    BY <1>2 DEF Passed
  <2>4. QED
    BY <2>2, <2>3
<1>7. PICK z : z = Wrote(acc, piece, left)
  OBVIOUS
<1>8. left \in Int
  BY <1>1
<1>9. z \in Wrapped /\ z.out = w \o piece /\ z.left = left
  BY <1>2, <1>4, <1>7, <1>8 DEF Wrote, Wrapped
<1>10. LinesOK(s \o z.out, z.left, L)
  BY <1>2, <1>4, <1>9
<1>11. Loop(D, Nothing, z.out) = [atom |-> a, out |-> o \o m]
  BY <1>6, <1>9
<1>12. Passed(D, L, s, z, a, la, o \o m)
  BY <1>1, <1>5, <1>9, <1>10, <1>11 DEF Passed
<1>13. QED
  BY <1>7, <1>12

(* The text x, put through the wrap W and the decoder D, means m: it takes *)
(* the decoder from p to a, wherever the line happens to be cut.           *)
Means(W, D, L, x, p, lp, a, la, m) ==
  /\ x \in Strings /\ m \in Strings
  /\ \A s \in Strings : \A acc \in Wrapped : \A o \in Strings :
       Passed(D, L, s, acc, p, lp, o) => Passed(D, L, s, Loop(W, acc, x), a, la, o \o m)

LEMMA MeansNone ==
  ASSUME NEW W, NEW D, NEW L, NEW p, NEW lp
  PROVE  Means(W, D, L, << >>, p, lp, p, lp, << >>)
<1>1. << >> \in Strings
  BY DEF Strings
<1>2. \A o \in Strings : o \o << >> = o
  BY <1>1, StringsConcat
<1>3. \A acc : Loop(W, acc, << >>) = acc
  BY LoopNone
<1>4. QED
  BY <1>1, <1>2, <1>3 DEF Means

LEMMA MeansThen ==
  ASSUME NEW W, NEW D, NEW L, NEW x, NEW p, NEW lp, NEW a, NEW la, NEW m,
         Means(W, D, L, x, p, lp, a, la, m),
         NEW y, NEW b, NEW lb, NEW n, Means(W, D, L, y, a, la, b, lb, n)
  PROVE  Means(W, D, L, x \o y, p, lp, b, lb, m \o n)
<1>1. x \in Strings /\ y \in Strings /\ m \in Strings /\ n \in Strings
  BY DEF Means
<1>2. x \o y \in Strings /\ m \o n \in Strings
  BY <1>1, StringsConcat
<1>3. ASSUME NEW s \in Strings, NEW acc \in Wrapped, NEW o \in Strings, Passed(D, L, s, acc, p, lp, o)
      PROVE  Passed(D, L, s, Loop(W, acc, x \o y), b, lb, o \o (m \o n))
  <2>1. PICK mid : mid = Loop(W, acc, x)
    OBVIOUS
  <2>2. Passed(D, L, s, mid, a, la, o \o m)
    BY <1>3, <2>1 DEF Means
  <2>3. mid \in Wrapped /\ o \o m \in Strings
    BY <2>2 DEF Passed
  <2>4. Passed(D, L, s, Loop(W, mid, y), b, lb, (o \o m) \o n)
    BY <2>2, <2>3 DEF Means
  <2>5. Loop(W, acc, x \o y) = Loop(W, mid, y)
    <3>1. x \in Seq(Byte) /\ y \in Seq(Byte)
      BY <1>1 DEF Strings
    <3>2. QED
      BY <2>1, <3>1, LoopConcat
  <2>6. (o \o m) \o n = o \o (m \o n)
    BY <1>1, StringsConcat
  <2>7. QED
    BY <2>4, <2>5, <2>6
<1>4. QED
  BY <1>2, <1>3 DEF Means

-----------------------------------------------------------------------------
(* Base64: a byte of the code through the wrap and the decoder.            *)
LEMMA LoopOne ==
  ASSUME NEW body, NEW start, NEW c, c \in Byte
  PROVE  Loop(body, start, <<c>>) = body[start][c]
<1>1. << >> \in Seq(Byte) /\ Append(<< >>, c) = <<c>>
  OBVIOUS
<1>2. Loop(body, start, Append(<< >>, c)) = body[Loop(body, start, << >>)][c]
  BY <1>1, LoopAppend, Zenon
<1>3. Loop(body, start, << >>) = start
  BY LoopNone
<1>4. QED
  BY <1>1, <1>2, <1>3

LEMMA LoopThen ==
  ASSUME NEW body, NEW start, NEW s, NEW c, s \in Strings, c \in Byte
  PROVE  Loop(body, start, s \o <<c>>) = body[Loop(body, start, s)][c]
<1>1. s \in Seq(Byte) /\ Append(s, c) = s \o <<c>>
  BY Appended DEF Strings
<1>2. Loop(body, start, Append(s, c)) = body[Loop(body, start, s)][c]
  BY <1>1, LoopAppend, Zenon
<1>3. QED
  BY <1>1, <1>2

LEMMA Marks ==
  /\ CRLF \in Strings /\ CRLF = <<13>> \o <<10>> /\ <<13>> \in Strings /\ <<10>> \in Strings
  /\ EQCRLF \in Strings /\ EQCRLF = <<61>> \o CRLF /\ <<61>> \in Strings
  /\ << >> \in Strings /\ 13 \in Byte /\ 10 \in Byte /\ 61 \in Byte
<1>1. 13 \in Byte /\ 10 \in Byte /\ 61 \in Byte
  BY DEF Byte
<1>2. CRLF = <<13, 10>> /\ EQCRLF = <<61, 13, 10>>
  BY DEF CRLF, EQCRLF, EQ, ByteCR, ByteLF
<1>3. <<13>> \o <<10>> = <<13, 10>> /\ <<13, 10>> \in Strings /\ <<13>> \in Strings
  BY <1>1, Pair
<1>4. <<61>> \o <<13, 10>> = <<61, 13, 10>> /\ <<61, 13, 10>> \in Strings
  BY <1>1, Three, Zenon
<1>5. <<10>> \in Strings /\ <<61>> \in Strings /\ << >> \in Strings
  BY <1>1 DEF Strings
<1>6. QED
  BY <1>1, <1>2, <1>3, <1>4, <1>5

(* One byte takes the decoder from p to a, and it gives m back.            *)
Takes(D, p, c, a, m) ==
  \A o \in Strings : D[[atom |-> p, out |-> o]][c] = [atom |-> a, out |-> o \o m]

LEMMA Base64Table ==
  /\ \A i \in 0 .. 63 : b64base[i] \in 43 .. 122 /\ b64base[i] # 61 /\ b64unbase[b64base[i]] = i
  /\ b64unbase[61] = 0 /\ b64unbase[13] = 255 /\ b64unbase[10] = 255
<1> DEFINE base(i) == IF i < 26 THEN 65 + i
                      ELSE IF i < 52 THEN 71 + i
                      ELSE IF i < 62 THEN i - 4
                      ELSE IF i = 62 THEN 43 ELSE 47
<1>1. \A i \in 0 .. 63 : b64base[i] = base(i)
  BY DEF b64base
<1>2. ASSUME NEW i \in 0 .. 63
      PROVE  \/ i < 26 /\ base(i) = 65 + i
             \/ i \in 26 .. 51 /\ base(i) = 71 + i
             \/ i \in 52 .. 61 /\ base(i) = i - 4
             \/ i = 62 /\ base(i) = 43
             \/ i = 63 /\ base(i) = 47
  OBVIOUS
<1> HIDE DEF base
<1>3. ASSUME NEW i \in 0 .. 63
      PROVE  base(i) \in 43 .. 122 /\ base(i) # 61
  BY <1>2
<1>4. ASSUME NEW i \in 0 .. 63, NEW j \in 0 .. 63, base(i) = base(j)
      PROVE  i = j
  BY <1>2, <1>4
<1> DEFINE un(c) == IF c = 61 THEN 0
                    ELSE IF \E i \in 0 .. 63 : b64base[i] = c THEN CHOOSE i \in 0 .. 63 : b64base[i] = c
                    ELSE 255
<1>5. \A c \in 0 .. 255 : b64unbase[c] = un(c)
  BY DEF b64unbase, EQ
<1>6. ASSUME NEW i \in 0 .. 63 PROVE b64unbase[b64base[i]] = i
  <2>1. PICK c : c = b64base[i]
    OBVIOUS
  <2>2. c \in 0 .. 255 /\ c # 61
    BY <1>1, <1>3, <2>1
  <2>3. un(c) = CHOOSE j \in 0 .. 63 : b64base[j] = c
    BY <2>1, <2>2, Zenon
  <2>4. \A j \in 0 .. 63 : b64base[j] = c => j = i
    BY <1>1, <1>4, <2>1, Zenon
  <2>5. (CHOOSE j \in 0 .. 63 : b64base[j] = c) = i
    BY <2>1, <2>4, Zenon
  <2> HIDE DEF un
  <2>6. QED
    BY <1>5, <2>1, <2>2, <2>3, <2>5, Zenon
<1>7. \A i \in 0 .. 63 : b64base[i] \in 43 .. 122 /\ b64base[i] # 61
  <2>1. ASSUME NEW i \in 0 .. 63 PROVE b64base[i] \in 43 .. 122 /\ b64base[i] # 61
    BY <1>1, <1>3
  <2>2. QED
    BY <2>1, Zenon
<1>8. ASSUME NEW c, c # 61, \A i \in 0 .. 63 : b64base[i] # c PROVE un(c) = 255
  BY <1>8, Zenon
<1>9. ASSUME NEW c \in {10, 13} PROVE b64unbase[c] = 255
  <2>1. c \in 0 .. 255 /\ c # 61 /\ c \notin 43 .. 122
    OBVIOUS
  <2>2. \A i \in 0 .. 63 : b64base[i] # c
    <3> HIDE DEF un
    <3>1. ASSUME NEW i \in 0 .. 63 PROVE b64base[i] # c
      <4>1. b64base[i] \in 43 .. 122
        BY <1>7
      <4>2. PICK b : b = b64base[i]
        OBVIOUS
      <4>3. b \in 43 .. 122
        BY <4>1, <4>2
      <4>4. b # c
        BY <2>1, <4>3
      <4>5. QED
        BY <4>2, <4>4
    <3>2. QED
      BY <3>1
  <2>3. un(c) = 255
    BY <1>8, <2>1, <2>2
  <2> HIDE DEF un
  <2>4. QED
    BY <1>5, <2>1, <2>3
<1>10. b64unbase[61] = 0
  <2>1. un(61) = 0
    BY Zenon
  <2>2. 61 \in 0 .. 255
    OBVIOUS
  <2> HIDE DEF un
  <2>3. QED
    BY <1>5, <2>1, <2>2
<1> HIDE DEF un
<1>11. \A i \in 0 .. 63 : b64base[i] \in 43 .. 122 /\ b64base[i] # 61 /\ b64unbase[b64base[i]] = i
  BY <1>6, <1>7, SMTT(30)
<1>12. b64unbase[13] = 255 /\ b64unbase[10] = 255
  BY <1>9
<1>13. QED
  BY <1>10, <1>11, <1>12, Zenon

LEMMA Base64Decodes ==
  ASSUME NEW q, q \in Held, NEW c, c \in Byte
  PROVE  /\ b64unbase[c] > 64 => b64decode[q][c] = q
         /\ ~(b64unbase[c] > 64) /\ Len(Append(q.atom, c)) < 4
              => b64decode[q][c] = [atom |-> Append(q.atom, c), out |-> q.out]
<1> DEFINE input == Append(q.atom, c)
           word == ((b64unbase[input[1]] * 64 + b64unbase[input[2]]) * 64
                     + b64unbase[input[3]]) * 64 + b64unbase[input[4]]
           valid == IF input[3] = EQ THEN 1 ELSE IF input[4] = EQ THEN 2 ELSE 3
           decoded == <<((word \div 256) \div 256) % 256, (word \div 256) % 256, word % 256>>
<1>1. b64decode[q][c] =
        IF b64unbase[c] > 64 THEN q
        ELSE IF Len(input) < 4 THEN [atom |-> input, out |-> q.out]
        ELSE [atom |-> << >>, out |-> q.out \o SubSeq(decoded, 1, valid)]
  BY Zenon DEF b64decode
<1>2. QED
  BY <1>1, Zenon

LEMMA Base64Skips ==
  ASSUME NEW q, q \in Held, NEW c, c \in {10, 13}
  PROVE  b64decode[q][c] = q
<1>1. b64unbase[c] = 255
  BY Base64Table
<1>2. c \in Byte /\ 255 > 64
  BY DEF Byte
<1>3. b64unbase[c] > 64
  BY <1>1, <1>2
<1>4. QED
  BY <1>2, <1>3, Base64Decodes, Zenon

LEMMA Base64Byte ==
  ASSUME NEW L, L \in Nat, L >= 1, NEW c, c \in Byte, c # 13, c # 10,
         NEW p, NEW a, NEW m, p \in Strings, a \in Strings, m \in Strings,
         Takes(b64decode, p, c, a, m)
  PROVE  Means(wrpbyte(L), b64decode, L, <<c>>, p, 0, a, 0, m)
<1> DEFINE D == b64decode
           W == wrpbyte(L)
<1>1. <<c>> \in Strings
  BY Pair, Zenon
<1>2. ASSUME NEW s \in Strings, NEW acc \in Wrapped, NEW o \in Strings, Passed(D, L, s, acc, p, 0, o)
      PROVE  Passed(D, L, s, Loop(W, acc, <<c>>), a, 0, o \o m)
  <2>1. Loop(W, acc, <<c>>) = W[acc][c]
    BY LoopOne
  <2>2. W[acc][c] = IF acc.left <= 0 THEN Wrote(acc, CRLF \o <<c>>, L - 1)
                    ELSE Wrote(acc, <<c>>, acc.left - 1)
    BY DEF wrpbyte, ByteCR, ByteLF
  <2> HIDE DEF D, W
  <2>3. PICK t : t = s \o acc.out
    BY Zenon
  <2>4. acc.left \in 0 .. L /\ LinesOK(t, acc.left, L) /\ t \in Strings
    BY <1>2, <2>3, Zenon DEF Passed, LinesOK
  <2>5. [atom |-> p, out |-> o] \in Held
    BY DEF Held
  <2>6. D[[atom |-> p, out |-> o]][c] = [atom |-> a, out |-> o \o m]
    BY Zenon DEF Takes, D
  <2>7. 0 \in Nat
    OBVIOUS
  <2>8. CASE acc.left <= 0
    <3>1. CRLF \o <<c>> \in Strings
      BY <1>1, Marks, StringsConcat
    <3>2. LinesOK(t \o (CRLF \o <<c>>), L - 1, L)
      <4>1. LinesOK(t \o CRLF, L, L)
        BY <2>4, LinesGrow
      <4>2. LinesOK((t \o CRLF) \o <<c>>, L - 1, L)
        BY <4>1, LinesGrow
      <4>3. (t \o CRLF) \o <<c>> = t \o (CRLF \o <<c>>)
        BY <1>1, <2>4, Marks, StringsConcat
      <4>4. QED
        BY <4>2, <4>3, Zenon
    <3>3. Loop(D, [atom |-> p, out |-> o], CRLF \o <<c>>) = [atom |-> a, out |-> o \o m]
      <4>1. PICK q : q = [atom |-> p, out |-> o]
        BY Zenon
      <4>2. Loop(D, q, <<13>>) = D[q][13]
        BY Marks, LoopOne
      <4>3. Loop(D, q, CRLF) = D[Loop(D, q, <<13>>)][10]
        BY Marks, LoopThen
      <4>4. D[q][13] = q /\ D[q][10] = q
        BY <2>5, <4>1, Base64Skips DEF D
      <4>5. Loop(D, q, CRLF \o <<c>>) = D[Loop(D, q, CRLF)][c]
        BY Marks, LoopThen
      <4>6. QED
        BY <2>6, <4>1, <4>2, <4>3, <4>4, <4>5
    <3>4. L - 1 \in 0 .. L
      OBVIOUS
    <3>5. Passed(D, L, s, Wrote(acc, CRLF \o <<c>>, L - 1), a, 0, o \o m)
      BY <1>2, <2>3, <2>7, <3>1, <3>2, <3>3, <3>4, PassedGrows, Zenon
    <3>6. QED
      BY <2>1, <2>2, <2>8, <3>5
  <2>9. CASE ~(acc.left <= 0)
    <3>1. PICK n : n = acc.left
      OBVIOUS
    <3>2. n \in 0 .. L /\ n >= 1 /\ n - 1 \in 0 .. L /\ LinesOK(t, n, L)
      BY <2>4, <2>9, <3>1
    <3>3. LinesOK(t \o <<c>>, n - 1, L)
      BY <3>2, LinesGrow
    <3>4. Loop(D, [atom |-> p, out |-> o], <<c>>) = [atom |-> a, out |-> o \o m]
      BY <2>6, LoopOne
    <3>5. Passed(D, L, s, Wrote(acc, <<c>>, n - 1), a, 0, o \o m)
      BY <1>1, <1>2, <2>3, <2>7, <3>2, <3>3, <3>4, PassedGrows, Zenon
    <3>6. QED
      BY <2>1, <2>2, <2>9, <3>1, <3>5
  <2>10. QED
    BY <2>8, <2>9
<1>3. QED
  BY <1>1, <1>2 DEF Means

(* Four bytes of the code are three, two or one bytes of the text.         *)
LEMMA Base64Takes ==
  ASSUME NEW p, NEW c, p \in Strings, c \in Byte, ~(b64unbase[c] > 64), Len(Append(p, c)) < 4
  PROVE  Takes(b64decode, p, c, Append(p, c), << >>)
<1>1. ASSUME NEW o \in Strings
      PROVE  b64decode[[atom |-> p, out |-> o]][c] = [atom |-> Append(p, c), out |-> o \o << >>]
  <2>1. PICK q : q = [atom |-> p, out |-> o]
    BY Zenon
  <2>2. q \in Held /\ q.atom = p /\ q.out = o
    BY <2>1 DEF Held
  <2>3. b64decode[q][c] = [atom |-> Append(q.atom, c), out |-> q.out]
    BY <2>2, Base64Decodes
  <2>4. o \o << >> = o
    BY StringsConcat
  <2>5. QED
    BY <2>1, <2>2, <2>3, <2>4
<1>2. QED
  BY <1>1 DEF Takes

Value(a, b, c, d) == ((a * 64 + b) * 64 + c) * 64 + d
Decoded(v) == <<((v \div 256) \div 256) % 256, (v \div 256) % 256, v % 256>>

LEMMA Base64Ends ==
  ASSUME NEW a, NEW b, NEW c, NEW d, a \in Byte, b \in Byte, c \in Byte, d \in Byte,
         ~(b64unbase[d] > 64),
         NEW v, v = Value(b64unbase[a], b64unbase[b], b64unbase[c], b64unbase[d]),
         NEW k, k = IF c = 61 THEN 1 ELSE IF d = 61 THEN 2 ELSE 3
  PROVE  Takes(b64decode, <<a, b, c>>, d, << >>, SubSeq(Decoded(v), 1, k))
<1>1. <<a, b, c>> \in Strings /\ Append(<<a, b, c>>, d) = <<a, b, c, d>>
  BY Three, Four, Zenon
<1>2. PICK p : p = <<a, b, c>>
  BY Zenon
<1>3. PICK t : t = <<a, b, c, d>>
  BY Zenon
<1>4. t[1] = a /\ t[2] = b /\ t[3] = c /\ t[4] = d /\ Len(t) = 4
  BY <1>3
<1>5. p \in Strings /\ Append(p, d) = t
  BY <1>1, <1>2, <1>3
<1>6. ASSUME NEW o \in Strings
      PROVE  b64decode[[atom |-> p, out |-> o]][d] = [atom |-> << >>, out |-> o \o SubSeq(Decoded(v), 1, k)]
  <2>1. PICK q : q = [atom |-> p, out |-> o]
    BY Zenon
  <2>2. q \in Held /\ q.atom = p /\ q.out = o
    BY <1>5, <2>1 DEF Held
  <2>3. Append(q.atom, d) = t /\ ~(Len(t) < 4)
    BY <1>4, <1>5, <2>2
  <2> DEFINE input == Append(q.atom, d)
             word == ((b64unbase[input[1]] * 64 + b64unbase[input[2]]) * 64
                       + b64unbase[input[3]]) * 64 + b64unbase[input[4]]
             valid == IF input[3] = EQ THEN 1 ELSE IF input[4] = EQ THEN 2 ELSE 3
             decoded == <<((word \div 256) \div 256) % 256, (word \div 256) % 256, word % 256>>
  <2>4. b64decode[q][d] =
          IF b64unbase[d] > 64 THEN q
          ELSE IF Len(input) < 4 THEN [atom |-> input, out |-> q.out]
          ELSE [atom |-> << >>, out |-> q.out \o SubSeq(decoded, 1, valid)]
    BY <2>2, Zenon DEF b64decode
  <2>5. word = v
    BY <1>4, <2>3, Zenon DEF Value
  <2>6. valid = k
    BY <1>4, <2>3, ZenonT(60) DEF EQ
  <2>7. decoded = Decoded(v)
    <3> HIDE DEF word
    <3>1. QED
      BY <2>5, ZenonT(60) DEF Decoded
  <2> HIDE DEF word, valid, decoded
  <2>8. b64decode[q][d] = [atom |-> << >>, out |-> q.out \o SubSeq(decoded, 1, valid)]
    BY <2>3, <2>4, Zenon
  <2>9. QED
    BY <2>1, <2>2, <2>6, <2>7, <2>8, Zenon
<1>7. QED
  BY <1>2, <1>6, Zenon DEF Takes

LEMMA Firsts ==
  ASSUME NEW x, NEW y, NEW z, x \in Byte, y \in Byte, z \in Byte
  PROVE  /\ SubSeq(<<x, y, z>>, 1, 1) = <<x>>
         /\ SubSeq(<<x, y, z>>, 1, 2) = <<x, y>>
         /\ SubSeq(<<x, y, z>>, 1, 3) = <<x, y, z>>
<1>1. PICK t : t = <<x, y, z>>
  OBVIOUS
<1>2. t \in Strings /\ t \in Seq(Byte) /\ Len(t) = 3 /\ t[1] = x /\ t[2] = y /\ t[3] = z
  BY <1>1 DEF Strings
<1> DEFINE First(u, k) == u \in Seq(Byte) /\ Len(u) = k /\ \A i \in 1 .. k : u[i] = t[i]
<1>3. ASSUME NEW k \in 1 .. 3, NEW u, First(u, k)
      PROVE  SubSeq(t, 1, k) = u
  <2>1. 1 \in Int /\ k \in Int /\ \A i \in 1 .. k : t[i] \in Byte
    BY <1>2
  <2>2. /\ SubSeq(t, 1, k) \in Seq(Byte)
        /\ Len(SubSeq(t, 1, k)) = IF 1 <= k THEN k - 1 + 1 ELSE 0
        /\ \A i \in 1 .. k - 1 + 1 : SubSeq(t, 1, k)[i] = t[1 + i - 1]
    BY <2>1, SubSeqProperties
  <2>3. Len(SubSeq(t, 1, k)) = k
    BY <2>2
  <2>4. ASSUME NEW i \in 1 .. k PROVE SubSeq(t, 1, k)[i] = u[i]
    <3>1. i \in 1 .. k - 1 + 1 /\ 1 + i - 1 = i
      OBVIOUS
    <3>2. SubSeq(t, 1, k)[i] = t[1 + i - 1]
      BY <2>2, <3>1
    <3>3. QED
      BY <1>3, <3>1, <3>2
  <2>5. QED
    BY <1>3, <2>2, <2>3, <2>4, SeqEqual
<1>4. SubSeq(t, 1, 1) = <<x>>
  <2>1. PICK u : u = <<x>>
    BY Zenon
  <2>2. First(u, 1)
    BY <1>2, <2>1
  <2>3. 1 \in 1 .. 3
    OBVIOUS
  <2> HIDE DEF First
  <2>4. SubSeq(t, 1, 1) = u
    BY <1>3, <2>2, <2>3
  <2>5. QED
    BY <2>1, <2>4
<1>5. SubSeq(t, 1, 2) = <<x, y>>
  <2>1. PICK u : u = <<x, y>>
    OBVIOUS
  <2>2. u \in Seq(Byte) /\ Len(u) = 2 /\ u[1] = x /\ u[2] = y
    BY <2>1
  <2>3. \A i \in 1 .. 2 : u[i] = t[i]
    <3>1. ASSUME NEW i \in 1 .. 2 PROVE u[i] = t[i]
      <4>1. i = 1 \/ i = 2
        OBVIOUS
      <4>2. QED
        BY <1>2, <2>2, <4>1
    <3>2. QED
      BY <3>1
  <2>4. First(u, 2)
    BY <2>2, <2>3
  <2>5. 2 \in 1 .. 3
    OBVIOUS
  <2> HIDE DEF First
  <2>6. SubSeq(t, 1, 2) = u
    BY <1>3, <2>4, <2>5
  <2>7. QED
    BY <2>1, <2>6
<1>6. SubSeq(t, 1, 3) = t
  <2>1. First(t, 3)
    BY <1>2
  <2> HIDE DEF First
  <2>2. QED
    BY <1>3, <2>1
<1>7. QED
  BY <1>1, <1>4, <1>5, <1>6

CodeByte(c) == c \in Byte /\ c # 13 /\ c # 10 /\ ~(b64unbase[c] > 64)

LEMMA CodeBytes == (\A i \in 0 .. 63 : CodeByte(b64base[i]) /\ b64base[i] # 61) /\ CodeByte(61)
<1>1. ASSUME NEW i \in 0 .. 63 PROVE CodeByte(b64base[i]) /\ b64base[i] # 61
  <2>1. PICK c : c = b64base[i]
    OBVIOUS
  <2>2. c \in 43 .. 122 /\ c # 61 /\ b64unbase[c] = i
    BY <2>1, Base64Table, SMTT(30)
  <2>3. c \in Byte /\ c # 13 /\ c # 10 /\ ~(i > 64)
    BY <2>2 DEF Byte
  <2>4. CodeByte(c)
    BY <2>2, <2>3 DEF CodeByte
  <2>5. QED
    BY <2>1, <2>2, <2>4
<1>2. CodeByte(61)
  <2>1. b64unbase[61] = 0 /\ ~(0 > 64)
    BY Base64Table
  <2>2. 61 \in Byte /\ 61 # 13 /\ 61 # 10
    BY DEF Byte
  <2>3. QED
    BY <2>1, <2>2 DEF CodeByte
<1>3. QED
  BY <1>1, <1>2

LEMMA Base64Four ==
  ASSUME NEW L, L \in Nat, L >= 1, NEW a, NEW b, NEW c, NEW d,
         CodeByte(a), CodeByte(b), CodeByte(c), CodeByte(d),
         NEW v, v = Value(b64unbase[a], b64unbase[b], b64unbase[c], b64unbase[d]),
         NEW k, k = IF c = 61 THEN 1 ELSE IF d = 61 THEN 2 ELSE 3,
         NEW m, m \in Strings, m = SubSeq(Decoded(v), 1, k)
  PROVE  Means(wrpbyte(L), b64decode, L, <<a, b, c, d>>, << >>, 0, << >>, 0, m)
<1> DEFINE M(x, p, q, n) == Means(wrpbyte(L), b64decode, L, x, p, 0, q, 0, n)
<1>1. a \in Byte /\ b \in Byte /\ c \in Byte /\ d \in Byte
  BY DEF CodeByte
<1>2. /\ << >> \in Strings /\ <<a>> \in Strings /\ <<a, b>> \in Strings /\ <<a, b, c>> \in Strings
      /\ <<a>> \o <<b>> = <<a, b>> /\ <<a, b>> \o <<c>> = <<a, b, c>>
      /\ <<a, b, c>> \o <<d>> = <<a, b, c, d>>
  <2>1. << >> \in Strings
    BY Marks
  <2>2. <<a>> \in Strings /\ <<a, b>> \in Strings /\ <<a>> \o <<b>> = <<a, b>>
    BY <1>1, Pair, Zenon
  <2>3. <<a, b, c>> \in Strings /\ <<a, b>> \o <<c>> = <<a, b, c>>
    BY <1>1, Three, Zenon
  <2>4. <<a, b, c>> \o <<d>> = <<a, b, c, d>>
    BY <1>1, Four, Zenon
  <2>5. QED
    BY <2>1, <2>2, <2>3, <2>4
<1>3. Append(<< >>, a) = <<a>> /\ Append(<<a>>, b) = <<a, b>> /\ Append(<<a, b>>, c) = <<a, b, c>>
  <2>1. Append(<< >>, a) = <<a>>
    OBVIOUS
  <2>2. Append(<<a>>, b) = <<a, b>> /\ Append(<<a, b>>, c) = <<a, b, c>>
    BY <1>1, Pair, Three, Zenon
  <2>3. QED
    BY <2>1, <2>2
<1>4. Len(<<a>>) < 4 /\ Len(<<a, b>>) < 4 /\ Len(<<a, b, c>>) < 4
  OBVIOUS
<1>5. Takes(b64decode, << >>, a, <<a>>, << >>)
  BY <1>1, <1>2, <1>3, <1>4, Base64Takes, Zenon DEF CodeByte
<1>6. Takes(b64decode, <<a>>, b, <<a, b>>, << >>)
  BY <1>1, <1>2, <1>3, <1>4, Base64Takes, Zenon DEF CodeByte
<1>7. Takes(b64decode, <<a, b>>, c, <<a, b, c>>, << >>)
  BY <1>1, <1>2, <1>3, <1>4, Base64Takes, Zenon DEF CodeByte
<1>8. Takes(b64decode, <<a, b, c>>, d, << >>, m)
  BY <1>1, Base64Ends DEF CodeByte
<1>9. M(<<a>>, << >>, <<a>>, << >>)
  BY <1>1, <1>2, <1>5, Base64Byte DEF CodeByte
<1>10. M(<<b>>, <<a>>, <<a, b>>, << >>)
  BY <1>1, <1>2, <1>6, Base64Byte DEF CodeByte
<1>11. M(<<c>>, <<a, b>>, <<a, b, c>>, << >>)
  BY <1>1, <1>2, <1>7, Base64Byte DEF CodeByte
<1>12. M(<<d>>, <<a, b, c>>, << >>, m)
  BY <1>1, <1>2, <1>8, Base64Byte DEF CodeByte
<1>13. M(<<a>> \o <<b>>, << >>, <<a, b>>, << >> \o << >>)
  BY <1>9, <1>10, MeansThen, Zenon
<1>14. << >> \o << >> = << >> /\ << >> \o m = m
  BY <1>2, StringsConcat
<1>15. M(<<a, b>>, << >>, <<a, b>>, << >>)
  BY <1>2, <1>13, <1>14, Zenon
<1>16. M(<<a, b>> \o <<c>>, << >>, <<a, b, c>>, << >> \o << >>)
  BY <1>11, <1>15, MeansThen, Zenon
<1>17. M(<<a, b, c>>, << >>, <<a, b, c>>, << >>)
  BY <1>2, <1>14, <1>16, Zenon
<1>18. M(<<a, b, c>> \o <<d>>, << >>, << >>, << >> \o m)
  BY <1>12, <1>17, MeansThen, Zenon
<1>19. QED
  BY <1>2, <1>14, <1>18, Zenon

LEMMA ShiftSix ==
  ASSUME NEW v, v \in Nat
  PROVE  \E q \in Nat : \E r \in 0 .. 63 : q = v \div 64 /\ r = v % 64 /\ v = q * 64 + r
<1>1. v \div 64 \in Nat
  OBVIOUS
<1>2. v % 64 \in 0 .. 63
  OBVIOUS
<1>3. v = 64 * (v \div 64) + (v % 64)
  OBVIOUS
<1>4. QED
  BY <1>1, <1>2, <1>3

LEMMA Sextets ==
  ASSUME NEW x, NEW y, NEW z, x \in Byte, y \in Byte, z \in Byte,
         NEW v, v = (x * 256 + y) * 256 + z
  PROVE  /\ ((v \div 64) \div 64) \div 64 \in 0 .. 63 /\ ((v \div 64) \div 64) % 64 \in 0 .. 63
         /\ (v \div 64) % 64 \in 0 .. 63 /\ v % 64 \in 0 .. 63
         /\ Value(((v \div 64) \div 64) \div 64, ((v \div 64) \div 64) % 64, (v \div 64) % 64, v % 64) = v
         /\ Decoded(v) = <<x, y, z>>
<1>1. x \in 0 .. 255 /\ y \in 0 .. 255 /\ z \in 0 .. 255
  BY DEF Byte
<1>2. v \in Nat /\ v < 64 * (64 * (64 * 64))
  BY <1>1
<1>3. PICK q \in Nat : \E r \in 0 .. 63 : q = v \div 64 /\ r = v % 64 /\ v = q * 64 + r
  BY <1>2, ShiftSix, SMTT(30)
<1>4. PICK d \in 0 .. 63 : q = v \div 64 /\ d = v % 64 /\ v = q * 64 + d
  BY <1>3, Zenon
<1>5. PICK r \in Nat : \E e \in 0 .. 63 : r = q \div 64 /\ e = q % 64 /\ q = r * 64 + e
  BY ShiftSix
<1>6. PICK c \in 0 .. 63 : r = q \div 64 /\ c = q % 64 /\ q = r * 64 + c
  BY <1>5
<1>7. PICK a \in Nat : \E e \in 0 .. 63 : a = r \div 64 /\ e = r % 64 /\ r = a * 64 + e
  BY ShiftSix
<1>8. PICK b \in 0 .. 63 : a = r \div 64 /\ b = r % 64 /\ r = a * 64 + b
  BY <1>7
<1>15. a \in 0 .. 63
  <2>1. q < 64 * (64 * 64)
    BY <1>2, <1>4
  <2>2. r < 64 * 64
    BY <1>6, <2>1
  <2>3. a < 64
    BY <1>8, <2>2
  <2>4. QED
    BY <2>3
<1>9. Value(a, b, c, d) = v
  BY <1>4, <1>6, <1>8 DEF Value
<1>10. v % 256 = z /\ v \div 256 = x * 256 + y
  BY <1>1
<1>11. (x * 256 + y) % 256 = y /\ (x * 256 + y) \div 256 = x
  BY <1>1
<1>12. x % 256 = x
  BY <1>1
<1>13. Decoded(v) = <<x, y, z>>
  BY <1>10, <1>11, <1>12 DEF Decoded
<1>14. QED
  BY <1>4, <1>6, <1>8, <1>9, <1>13, <1>15

Word(x, y, z) == (x * 256 + y) * 256 + z

Code(v) == <<b64base[((v \div 64) \div 64) \div 64], b64base[((v \div 64) \div 64) % 64],
             b64base[(v \div 64) % 64], b64base[v % 64]>>
PadOne(v) == <<b64base[v \div 64], b64base[v % 64], 61, 61>>
PadTwo(v) == <<b64base[(v \div 64) \div 64], b64base[(v \div 64) % 64], b64base[v % 64], 61>>

LEMMA Base64Group ==
  ASSUME NEW L, L \in Nat, L >= 1, NEW x, NEW y, NEW z, x \in Byte, y \in Byte, z \in Byte
  PROVE  /\ Means(wrpbyte(L), b64decode, L, Code(Word(x, y, z)), << >>, 0, << >>, 0, <<x, y, z>>)
         /\ Code(Word(x, y, z)) \in Strings
<1>0. PICK v : v = Word(x, y, z)
  OBVIOUS
<1>1. v = (x * 256 + y) * 256 + z
  BY <1>0 DEF Word
<1>2. PICK i \in 0 .. 63 : i = ((v \div 64) \div 64) \div 64
  BY <1>1, Sextets
<1>3. PICK j \in 0 .. 63 : j = ((v \div 64) \div 64) % 64
  BY <1>1, Sextets
<1>4. PICK k \in 0 .. 63 : k = (v \div 64) % 64
  BY <1>1, Sextets
<1>5. PICK l \in 0 .. 63 : l = v % 64
  BY <1>1, Sextets
<1>6. Value(i, j, k, l) = v /\ Decoded(v) = <<x, y, z>>
  BY <1>1, <1>2, <1>3, <1>4, <1>5, Sextets
<1>7. PICK a : a = b64base[i]
  OBVIOUS
<1>8. PICK b : b = b64base[j]
  OBVIOUS
<1>9. PICK c : c = b64base[k]
  OBVIOUS
<1>10. PICK d : d = b64base[l]
  OBVIOUS
<1>11. CodeByte(a) /\ CodeByte(b) /\ CodeByte(c) /\ CodeByte(d) /\ c # 61 /\ d # 61
  BY <1>7, <1>8, <1>9, <1>10, CodeBytes
<1>12. b64unbase[a] = i /\ b64unbase[b] = j /\ b64unbase[c] = k /\ b64unbase[d] = l
  <2>1. b64unbase[a] = i /\ b64unbase[b] = j
    BY <1>7, <1>8, Base64Table, SMTT(30)
  <2>2. b64unbase[c] = k /\ b64unbase[d] = l
    BY <1>9, <1>10, Base64Table, SMTT(30)
  <2>3. QED
    BY <2>1, <2>2
<1>13. <<x, y, z>> \in Strings /\ <<x, y, z>> = SubSeq(Decoded(v), 1, 3)
  <2>1. SubSeq(<<x, y, z>>, 1, 3) = <<x, y, z>>
    BY Firsts
  <2>2. QED
    BY <1>6, <2>1, Three, Zenon
<1>14. v = Value(b64unbase[a], b64unbase[b], b64unbase[c], b64unbase[d])
  BY <1>6, <1>12
<1>15. 3 = IF c = 61 THEN 1 ELSE IF d = 61 THEN 2 ELSE 3
  BY <1>11
<1>16. Means(wrpbyte(L), b64decode, L, <<a, b, c, d>>, << >>, 0, << >>, 0, <<x, y, z>>)
  BY <1>11, <1>13, <1>14, <1>15, Base64Four, Zenon
<1>17. Code(v) = <<a, b, c, d>>
  BY <1>2, <1>3, <1>4, <1>5, <1>7, <1>8, <1>9, <1>10 DEF Code
<1>18. <<a, b, c, d>> \in Strings
  BY <1>11, Four, Zenon DEF CodeByte
<1>19. QED
  BY <1>0, <1>16, <1>17, <1>18

LEMMA Base64PadOne ==
  ASSUME NEW L, L \in Nat, L >= 1, NEW x, x \in Byte
  PROVE  Means(wrpbyte(L), b64decode, L, PadOne(x * 16), << >>, 0, << >>, 0, <<x>>)
<1>1. PICK w : w = x * 16
  OBVIOUS
<1>2. w \in Nat /\ w < 64 * 64
  BY <1>1 DEF Byte
<1>3. PICK i \in Nat : \E r \in 0 .. 63 : i = w \div 64 /\ r = w % 64 /\ w = i * 64 + r
  BY <1>2, ShiftSix
<1>4. PICK j \in 0 .. 63 : i = w \div 64 /\ j = w % 64 /\ w = i * 64 + j
  BY <1>3
<1>5. i \in 0 .. 63
  BY <1>2, <1>4
<1>6. PICK v : v = (x * 256 + 0) * 256 + 0
  OBVIOUS
<1>7. Value(i, j, 0, 0) = v
  BY <1>1, <1>4, <1>5, <1>6 DEF Value, Byte
<1>8. Decoded(v) = <<x, 0, 0>> /\ 0 \in Byte
  <2>1. 0 \in Byte
    BY DEF Byte
  <2>2. QED
    BY <1>6, <2>1, Sextets
<1>9. PICK a : a = b64base[i]
  OBVIOUS
<1>10. PICK b : b = b64base[j]
  OBVIOUS
<1>11. CodeByte(a) /\ CodeByte(b) /\ CodeByte(61)
  BY <1>5, <1>9, <1>10, CodeBytes
<1>12. b64unbase[a] = i /\ b64unbase[b] = j /\ b64unbase[61] = 0
  BY <1>5, <1>9, <1>10, Base64Table, SMTT(30)
<1>13. <<x>> \in Strings /\ <<x>> = SubSeq(Decoded(v), 1, 1)
  <2>1. <<x>> \in Strings
    BY Pair
  <2>2. SubSeq(<<x, 0, 0>>, 1, 1) = <<x>>
    BY <1>8, Firsts
  <2>3. QED
    BY <1>8, <2>1, <2>2
<1>14. v = Value(b64unbase[a], b64unbase[b], b64unbase[61], b64unbase[61])
  BY <1>7, <1>12
<1>15. 1 = IF 61 = 61 THEN 1 ELSE IF 61 = 61 THEN 2 ELSE 3
  OBVIOUS
<1>16. Means(wrpbyte(L), b64decode, L, <<a, b, 61, 61>>, << >>, 0, << >>, 0, <<x>>)
  BY <1>11, <1>13, <1>14, <1>15, Base64Four, Zenon
<1>17. PadOne(w) = <<a, b, 61, 61>>
  BY <1>4, <1>9, <1>10 DEF PadOne
<1>18. QED
  BY <1>1, <1>16, <1>17

LEMMA Base64PadTwo ==
  ASSUME NEW L, L \in Nat, L >= 1, NEW x, NEW y, x \in Byte, y \in Byte
  PROVE  Means(wrpbyte(L), b64decode, L, PadTwo((x * 256 + y) * 4), << >>, 0, << >>, 0, <<x, y>>)
<1>1. PICK w : w = (x * 256 + y) * 4
  OBVIOUS
<1>2. w \in Nat /\ w < 64 * (64 * 64)
  BY <1>1 DEF Byte
<1>3. PICK q \in Nat : \E r \in 0 .. 63 : q = w \div 64 /\ r = w % 64 /\ w = q * 64 + r
  BY <1>2, ShiftSix
<1>4. PICK k \in 0 .. 63 : q = w \div 64 /\ k = w % 64 /\ w = q * 64 + k
  BY <1>3
<1>5. PICK i \in Nat : \E r \in 0 .. 63 : i = q \div 64 /\ r = q % 64 /\ q = i * 64 + r
  BY ShiftSix
<1>6. PICK j \in 0 .. 63 : i = q \div 64 /\ j = q % 64 /\ q = i * 64 + j
  BY <1>5
<1>7. i \in 0 .. 63
  <2>1. q < 64 * 64
    BY <1>2, <1>4
  <2>2. i < 64
    BY <1>6, <2>1
  <2>3. QED
    BY <2>2
<1>8. PICK v : v = (x * 256 + y) * 256 + 0
  OBVIOUS
<1>9. Value(i, j, k, 0) = v
  <2>1. x \in Int /\ y \in Int
    BY DEF Byte
  <2>2. Value(i, j, k, 0) = w * 64
    BY <1>4, <1>6, <1>7 DEF Value
  <2>3. QED
    BY <1>1, <1>8, <2>1, <2>2
<1>10. Decoded(v) = <<x, y, 0>> /\ 0 \in Byte
  <2>1. 0 \in Byte
    BY DEF Byte
  <2>2. QED
    BY <1>8, <2>1, Sextets
<1>11. PICK a : a = b64base[i]
  OBVIOUS
<1>12. PICK b : b = b64base[j]
  OBVIOUS
<1>13. PICK c : c = b64base[k]
  OBVIOUS
<1>14. CodeByte(a) /\ CodeByte(b) /\ CodeByte(c) /\ c # 61 /\ CodeByte(61)
  BY <1>7, <1>11, <1>12, <1>13, CodeBytes
<1>15. b64unbase[a] = i /\ b64unbase[b] = j /\ b64unbase[c] = k /\ b64unbase[61] = 0
  BY <1>7, <1>11, <1>12, <1>13, Base64Table, SMTT(30)
<1>16. <<x, y>> \in Strings /\ <<x, y>> = SubSeq(Decoded(v), 1, 2)
  BY <1>10, Firsts, Pair, Zenon
<1>17. v = Value(b64unbase[a], b64unbase[b], b64unbase[c], b64unbase[61])
  BY <1>9, <1>15
<1>18. 2 = IF c = 61 THEN 1 ELSE IF 61 = 61 THEN 2 ELSE 3
  BY <1>14
<1>19. Means(wrpbyte(L), b64decode, L, <<a, b, c, 61>>, << >>, 0, << >>, 0, <<x, y>>)
  BY <1>14, <1>16, <1>17, <1>18, Base64Four, Zenon
<1>20. PadTwo(w) = <<a, b, c, 61>>
  BY <1>4, <1>6, <1>11, <1>12, <1>13 DEF PadTwo
<1>21. QED
  BY <1>1, <1>19, <1>20

(* What the encoder has put out means the text up to the bytes it holds.   *)
Base64OK(L, r, q) ==
  /\ q \in Held /\ Len(q.atom) <= 2
  /\ \E m \in Strings : /\ r = m \o q.atom
                        /\ Means(wrpbyte(L), b64decode, L, q.out, << >>, 0, << >>, 0, m)

LEMMA Base64Holds ==
  ASSUME NEW q, q \in Held, NEW c, c \in Byte, Len(Append(q.atom, c)) < 3
  PROVE  b64encode[q][c] = [atom |-> Append(q.atom, c), out |-> q.out]
<1> DEFINE input == Append(q.atom, c)
           word == (input[1] * 256 + input[2]) * 256 + input[3]
<1>1. b64encode[q][c] = IF Len(input) < 3 THEN [atom |-> input, out |-> q.out]
                        ELSE [atom |-> << >>, out |-> q.out \o Code(word)]
  BY Zenon DEF b64encode, Code
<1>2. QED
  BY <1>1, Zenon

TwoHeld(s, x, y) == s = <<x, y>>

LEMMA Base64Codes ==
  ASSUME NEW q, q \in Held, NEW x, NEW y, NEW c, x \in Byte, y \in Byte, c \in Byte,
         TwoHeld(q.atom, x, y)
  PROVE  b64encode[q][c] = [atom |-> << >>, out |-> q.out \o Code(Word(x, y, c))]
<1> DEFINE input == Append(q.atom, c)
           word == (input[1] * 256 + input[2]) * 256 + input[3]
<1>1. b64encode[q][c] = IF Len(input) < 3 THEN [atom |-> input, out |-> q.out]
                        ELSE [atom |-> << >>, out |-> q.out \o Code(word)]
  BY Zenon DEF b64encode, Code
<1>2. PICK t : t = <<x, y, c>>
  BY Zenon
<1>3. t[1] = x /\ t[2] = y /\ t[3] = c /\ ~(Len(t) < 3)
  BY <1>2
<1>4. input = t
  BY <1>2, Three, Zenon DEF TwoHeld
<1>5. word = Word(x, y, c)
  BY <1>3, <1>4, ZenonT(60) DEF Word
<1> HIDE DEF word, input
<1>6. QED
  BY <1>1, <1>3, <1>4, <1>5, Zenon

LEMMA AtMostTwo ==
  ASSUME NEW s, s \in Strings, Len(s) <= 2
  PROVE  \/ s = << >> /\ Len(s) = 0
         \/ \E x \in Byte : s = <<x>> /\ Len(s) = 1
         \/ \E x \in Byte : \E y \in Byte : s = <<x, y>> /\ Len(s) = 2
<1>1. s \in Seq(Byte) /\ Len(s) \in Nat
  BY DEF Strings
<1>2. Len(s) = 0 \/ Len(s) = 1 \/ Len(s) = 2
  <2>1. ASSUME NEW n \in Nat, n <= 2 PROVE n = 0 \/ n = 1 \/ n = 2
    BY <2>1
  <2>2. QED
    BY <1>1, <2>1, Zenon
<1>4. CASE Len(s) = 0
  <2>1. s = << >>
    BY <1>1, <1>4
  <2>2. QED
    BY <1>4, <2>1
<1>5. CASE Len(s) = 1
  <2>1. s[1] \in Byte
    BY <1>1, <1>5
  <2>2. PICK t : t = <<s[1]>>
    BY Zenon
  <2>3. t \in Seq(Byte) /\ Len(t) = 1 /\ t[1] = s[1]
    BY <2>1, <2>2
  <2>4. \A i \in 1 .. 1 : t[i] = s[i]
    BY <2>3
  <2>5. t = s
    BY <1>1, <1>5, <2>3, <2>4, SeqEqual
  <2>6. QED
    BY <1>5, <2>1, <2>2, <2>5
<1>6. CASE Len(s) = 2
  <2>1. s[1] \in Byte /\ s[2] \in Byte
    <3>1. 1 \in 1 .. Len(s) /\ 2 \in 1 .. Len(s)
      BY <1>6
    <3>2. QED
      BY <1>1, <3>1, ElementOfSeq
  <2>2. PICK t : t = <<s[1], s[2]>>
    BY Zenon
  <2>3. t \in Seq(Byte) /\ Len(t) = 2 /\ t[1] = s[1] /\ t[2] = s[2]
    BY <2>1, <2>2
  <2>4. ASSUME NEW i \in 1 .. 2 PROVE t[i] = s[i]
    <3>1. i = 1 \/ i = 2
      OBVIOUS
    <3>2. QED
      BY <2>3, <3>1
  <2>5. t = s
    BY <1>1, <1>6, <2>3, <2>4, SeqEqual
  <2>6. QED
    BY <1>6, <2>1, <2>2, <2>5
<1>7. QED
  BY <1>2, <1>4, <1>5, <1>6

LEMMA Base64Text ==
  ASSUME NEW L, L \in Nat, L >= 1, NEW text, text \in Strings
  PROVE  Base64OK(L, text, Loop(b64encode, Nothing, text))
<1> DEFINE e(r) == Loop(b64encode, Nothing, r)
           P == {r \in Strings : Base64OK(L, r, e(r))}
           M(x, m) == Means(wrpbyte(L), b64decode, L, x, << >>, 0, << >>, 0, m)
<1>1. << >> \in P
  <2>1. e(<< >>) = Nothing
    BY LoopNone
  <2>2. M(<< >>, << >>)
    BY MeansNone
  <2>3. << >> \in Strings /\ << >> \o << >> = << >>
    BY Marks, StringsConcat
  <2>4. Nothing \in Held /\ Nothing.atom = << >> /\ Nothing.out = << >> /\ Len(<< >>) <= 2
    BY <2>3 DEF Nothing, Held
  <2> HIDE DEF e, M
  <2>5. \E m \in Strings : << >> = m \o Nothing.atom /\ M(Nothing.out, m)
    BY <2>2, <2>3, <2>4
  <2>6. QED
    BY <2>1, <2>3, <2>4, <2>5, Zenon DEF Base64OK, M
<1>2. ASSUME NEW r \in Strings, NEW c \in Byte, r \in P PROVE Append(r, c) \in P
  <2>1. PICK q : q = e(r)
    OBVIOUS
  <2>2. Base64OK(L, r, q)
    BY <1>2, <2>1
  <2>3. q \in Held /\ Len(q.atom) <= 2
    BY <2>2 DEF Base64OK
  <2>4. PICK atom : atom = q.atom
    OBVIOUS
  <2>5. PICK m \in Strings : r = m \o atom /\ M(q.out, m)
    BY <2>2, <2>4, Zenon DEF Base64OK
  <2>6. atom \in Strings /\ q.out \in Strings /\ Len(atom) <= 2 /\ Len(atom) \in Nat
    BY <2>3, <2>4 DEF Held, Strings
  <2>7. e(Append(r, c)) = b64encode[q][c]
    <3>1. r \in Seq(Byte)
      BY DEF Strings
    <3>2. QED
      BY <2>1, <3>1, LoopAppend
  <2>8. Append(r, c) \in Strings /\ Append(r, c) = m \o Append(atom, c)
    <3>1. m \in Seq(Byte) /\ atom \in Seq(Byte)
      BY <2>6 DEF Strings
    <3>2. m \o Append(atom, c) = Append(m \o atom, c)
      BY <3>1, AppendToConcat
    <3>3. QED
      BY <2>5, <3>2, Appended, Zenon
  <2>9. Append(atom, c) \in Strings /\ Len(Append(atom, c)) = Len(atom) + 1
    BY <2>6, Appended, Zenon
  <2> HIDE DEF e
  <2>10. CASE Len(atom) = 0 \/ Len(atom) = 1
    <3>1. Len(Append(atom, c)) < 3 /\ Len(Append(atom, c)) <= 2
      <4>1. PICK n : n = Len(Append(atom, c))
        OBVIOUS
      <4>2. n = Len(atom) + 1
        BY <2>9, <4>1
      <4>3. n = 1 \/ n = 2
        <5>1. CASE Len(atom) = 0
          BY <4>2, <5>1
        <5>2. CASE Len(atom) = 1
          BY <4>2, <5>2
        <5>3. QED
          BY <2>10, <5>1, <5>2
      <4>4. n < 3 /\ n <= 2
        BY <4>3
      <4>5. QED
        BY <4>1, <4>4
    <3>2. b64encode[q][c] = [atom |-> Append(atom, c), out |-> q.out]
      BY <2>3, <2>4, <3>1, Base64Holds
    <3>3. PICK z : z = b64encode[q][c]
      OBVIOUS
    <3>4. z \in Held /\ z.atom = Append(atom, c) /\ z.out = q.out
      BY <2>6, <2>9, <3>2, <3>3 DEF Held
    <3>5. Base64OK(L, Append(r, c), z)
      BY <2>5, <2>8, <3>1, <3>4, Zenon DEF Base64OK
    <3>6. QED
      BY <2>7, <2>8, <3>3, <3>5
  <2>11. CASE \E x \in Byte : \E y \in Byte : atom = <<x, y>>
    <3>2. PICK x \in Byte : \E y \in Byte : atom = <<x, y>>
      BY <2>11
    <3>3. PICK y \in Byte : atom = <<x, y>>
      BY <3>2
    <3>4. Append(<<x, y>>, c) = <<x, y, c>> /\ <<x, y, c>> \in Strings
      BY Three, Zenon
    <3>5. PICK v : v = Word(x, y, c)
      OBVIOUS
    <3>6. M(Code(v), <<x, y, c>>) /\ Code(v) \in Strings
      BY <3>5, Base64Group, Zenon
    <3>1. TwoHeld(q.atom, x, y)
      BY <2>4, <3>3 DEF TwoHeld
    <3>7. b64encode[q][c] = [atom |-> << >>, out |-> q.out \o Code(v)]
      <4>1. b64encode[q][c] = [atom |-> << >>, out |-> q.out \o Code(Word(x, y, c))]
        BY <2>3, <3>1, Base64Codes
      <4>2. QED
        BY <3>5, <4>1
    <3>8. PICK z : z = b64encode[q][c]
      OBVIOUS
    <3>9. << >> \in Strings /\ q.out \o Code(v) \in Strings /\ m \o <<x, y, c>> \in Strings
          /\ (m \o <<x, y, c>>) \o << >> = m \o <<x, y, c>>
      BY <2>6, <3>4, <3>6, Marks, StringsConcat
    <3>10. z \in Held /\ z.atom = << >> /\ z.out = q.out \o Code(v) /\ Len(<< >>) <= 2
      BY <3>7, <3>8, <3>9 DEF Held
    <3>11. M(q.out \o Code(v), m \o <<x, y, c>>)
      BY <2>5, <3>6, MeansThen
    <3>12. Append(r, c) = (m \o <<x, y, c>>) \o << >>
      BY <2>8, <3>3, <3>4, <3>9, Zenon
    <3>13. Base64OK(L, Append(r, c), z)
      BY <3>9, <3>10, <3>11, <3>12, Zenon DEF Base64OK
    <3>14. QED
      BY <2>7, <2>8, <3>8, <3>13
  <2>12. \/ Len(atom) = 0 \/ Len(atom) = 1
         \/ \E x \in Byte : \E y \in Byte : atom = <<x, y>>
    BY <2>6, AtMostTwo
  <2>13. QED
    BY <2>10, <2>11, <2>12
<1> HIDE DEF P
<1>3. Seq(Byte) \subseteq P
  <2>1. Strings = Seq(Byte)
    BY DEF Strings
  <2>2. QED
    BY <1>1, <1>2, <2>1, SeqInd
<1>4. text \in P
  BY <1>3 DEF Strings
<1>5. QED
  BY <1>4 DEF P

(* The bytes that are still held at the end.                               *)
LEMMA Base64Pads ==
  ASSUME NEW L, L \in Nat, L >= 1, NEW atom, atom \in Strings, Len(atom) <= 2
  PROVE  Means(wrpbyte(L), b64decode, L, b64pad(atom), << >>, 0, << >>, 0, atom)
<1> DEFINE one == atom[1] * 16
           two == (atom[1] * 256 + atom[2]) * 4
<1>1. b64pad(atom) = IF Len(atom) = 1 THEN PadOne(one)
                     ELSE IF Len(atom) = 2 THEN PadTwo(two) ELSE << >>
  BY Zenon DEF b64pad, PadOne, PadTwo, EQ
<1>2. CASE atom = << >> /\ Len(atom) = 0
  <2> HIDE DEF one, two
  <2>1. b64pad(atom) = << >>
    BY <1>1, <1>2
  <2>2. QED
    BY <1>2, <2>1, MeansNone
<1>3. CASE \E x \in Byte : atom = <<x>> /\ Len(atom) = 1
  <2>1. PICK x \in Byte : atom = <<x>> /\ Len(atom) = 1
    BY <1>3
  <2>2. one = x * 16
    BY <2>1
  <2> HIDE DEF one, two
  <2>3. b64pad(atom) = PadOne(x * 16)
    BY <1>1, <2>1, <2>2
  <2>4. QED
    BY <2>1, <2>3, Base64PadOne
<1>4. CASE \E x \in Byte : \E y \in Byte : atom = <<x, y>> /\ Len(atom) = 2
  <2>1. PICK x \in Byte : \E y \in Byte : atom = <<x, y>> /\ Len(atom) = 2
    BY <1>4
  <2>2. PICK y \in Byte : atom = <<x, y>> /\ Len(atom) = 2
    BY <2>1
  <2>3. two = (x * 256 + y) * 4
    BY <2>2
  <2> HIDE DEF one, two
  <2>4. b64pad(atom) = PadTwo((x * 256 + y) * 4)
    BY <1>1, <2>2, <2>3
  <2>5. QED
    BY <2>2, <2>4, Base64PadTwo
<1>5. QED
  BY <1>2, <1>3, <1>4, AtMostTwo

-----------------------------------------------------------------------------
(* Quoted-printable: what the decoder makes of a byte.                     *)
QPStep(q, c) ==
  LET input == Append(q.atom, c)
      hi == qpunbase[input[2]]
      lo == qpunbase[input[3]]
      Put(text) == [atom |-> << >>, out |-> q.out \o text]
      Hold == [atom |-> input, out |-> q.out]
  IN IF input[1] = EQ
     THEN IF Len(input) < 3 THEN Hold
          ELSE IF input[2] = ByteCR /\ input[3] = ByteLF THEN Put(<< >>)
          ELSE IF hi > 15 \/ lo > 15 THEN Put(input)
          ELSE Put(<<hi * 16 + lo>>)
     ELSE IF input[1] = ByteCR
     THEN IF Len(input) < 2 THEN Hold
          ELSE Put(IF input[2] = ByteLF THEN CRLF ELSE << >>)
     ELSE Put(IF input[1] = 9 \/ input[1] \in 32..126 THEN <<input[1]>> ELSE << >>)

LEMMA QPStepIs ==
  ASSUME NEW p, NEW o, NEW c, p \in Strings, o \in Strings, c \in Byte
  PROVE  qpdecode[[atom |-> p, out |-> o]][c] = QPStep([atom |-> p, out |-> o], c)
<1>1. PICK q : q = [atom |-> p, out |-> o]
  BY Zenon
<1>2. q \in Held
  BY <1>1 DEF Held
<1>3. qpdecode[q][c] = QPStep(q, c)
  BY <1>2, Zenon DEF qpdecode, QPStep
<1>4. QED
  BY <1>1, <1>3

(* A byte that is held, and one that is put out.                           *)
LEMMA QPHolds ==
  ASSUME NEW p, NEW c, NEW t, p \in Strings, c \in Byte, t = Append(p, c),
         \/ t[1] = 61 /\ Len(t) < 3
         \/ t[1] = 13 /\ Len(t) < 2
  PROVE  Takes(qpdecode, p, c, t, << >>)
<1>1. ASSUME NEW o \in Strings
      PROVE  qpdecode[[atom |-> p, out |-> o]][c] = [atom |-> t, out |-> o \o << >>]
  <2>1. PICK q : q = [atom |-> p, out |-> o]
    BY Zenon
  <2>2. q.atom = p /\ q.out = o
    BY <2>1
  <2>3. Append(q.atom, c) = t
    BY <2>2
  <2>4. 13 # 61
    OBVIOUS
  <2>5. QPStep(q, c) = [atom |-> t, out |-> q.out]
    <3>1. CASE t[1] = 61 /\ Len(t) < 3
      BY <2>3, <3>1, Zenon DEF QPStep, EQ
    <3>2. CASE t[1] = 13 /\ Len(t) < 2
      BY <2>3, <2>4, <3>2, ZenonT(60) DEF QPStep, EQ, ByteCR
    <3>3. QED
      BY <3>1, <3>2
  <2>6. o \o << >> = o
    BY StringsConcat
  <2>7. qpdecode[q][c] = QPStep(q, c)
    BY <2>1, QPStepIs
  <2>8. QED
    BY <2>1, <2>2, <2>5, <2>6, <2>7
<1>2. QED
  BY <1>1 DEF Takes

LEMMA QPSoft == Takes(qpdecode, <<61, 13>>, 10, << >>, << >>)
<1>1. 61 \in Byte /\ 13 \in Byte /\ 10 \in Byte /\ <<61, 13>> \in Strings /\ Append(<<61, 13>>, 10) = <<61, 13, 10>>
  BY Marks, Pair, Three
<1>2. PICK t : t = <<61, 13, 10>>
  BY Zenon
<1>3. t[1] = 61 /\ t[2] = 13 /\ t[3] = 10 /\ ~(Len(t) < 3)
  BY <1>2
<1>4. ASSUME NEW o \in Strings
      PROVE  qpdecode[[atom |-> <<61, 13>>, out |-> o]][10] = [atom |-> << >>, out |-> o \o << >>]
  <2>1. PICK q : q = [atom |-> <<61, 13>>, out |-> o]
    BY Zenon
  <2>2. q.atom = <<61, 13>> /\ q.out = o
    BY <2>1
  <2>3. Append(q.atom, 10) = t
    BY <1>1, <1>2, <2>2
  <2>4. QPStep(q, 10) = [atom |-> << >>, out |-> q.out \o << >>]
    BY <1>3, <2>3, Zenon DEF QPStep, EQ, ByteCR, ByteLF
  <2>5. qpdecode[q][10] = QPStep(q, 10)
    BY <1>1, <2>1, QPStepIs
  <2>6. QED
    BY <2>1, <2>2, <2>4, <2>5
<1>5. QED
  BY <1>4 DEF Takes

LEMMA QPLine == Takes(qpdecode, <<13>>, 10, << >>, CRLF)
<1>1. 13 \in Byte /\ 10 \in Byte /\ <<13>> \in Strings /\ Append(<<13>>, 10) = <<13, 10>>
  BY Marks, Pair
<1>2. PICK t : t = <<13, 10>>
  BY Zenon
<1>3. t[1] = 13 /\ t[2] = 10 /\ ~(Len(t) < 2) /\ 13 # 61
  BY <1>2
<1>4. ASSUME NEW o \in Strings
      PROVE  qpdecode[[atom |-> <<13>>, out |-> o]][10] = [atom |-> << >>, out |-> o \o CRLF]
  <2>1. PICK q : q = [atom |-> <<13>>, out |-> o]
    BY Zenon
  <2>2. q.atom = <<13>> /\ q.out = o
    BY <2>1
  <2>3. Append(q.atom, 10) = t
    BY <1>1, <1>2, <2>2
  <2>4. QPStep(q, 10) = [atom |-> << >>, out |-> q.out \o CRLF]
    BY <1>3, <2>3, Zenon DEF QPStep, EQ, ByteCR, ByteLF
  <2>5. qpdecode[q][10] = QPStep(q, 10)
    BY <1>1, <2>1, QPStepIs
  <2>6. QED
    BY <2>1, <2>2, <2>4, <2>5
<1>5. QED
  BY <1>4 DEF Takes

Printed(c) == c = 9 \/ c \in 32 .. 126

LEMMA QPPlain ==
  ASSUME NEW c, c \in Byte, Printed(c), c # 61, c # 13
  PROVE  Takes(qpdecode, << >>, c, << >>, <<c>>)
<1>1. << >> \in Strings /\ Append(<< >>, c) = <<c>>
  <2>1. << >> \in Strings
    BY Marks
  <2>2. Append(<< >>, c) = <<c>>
    OBVIOUS
  <2>3. QED
    BY <2>1, <2>2
<1>2. PICK t : t = <<c>>
  BY Zenon
<1>3. t[1] = c
  BY <1>2
<1>4. ASSUME NEW o \in Strings
      PROVE  qpdecode[[atom |-> << >>, out |-> o]][c] = [atom |-> << >>, out |-> o \o <<c>>]
  <2>1. PICK q : q = [atom |-> << >>, out |-> o]
    BY Zenon
  <2>2. q.atom = << >> /\ q.out = o
    BY <2>1
  <2>3. Append(q.atom, c) = t
    BY <1>1, <1>2, <2>2
  <2>4. QPStep(q, c) = [atom |-> << >>, out |-> q.out \o <<c>>]
    BY <1>3, <2>3, Zenon DEF QPStep, EQ, ByteCR, Printed
  <2>5. qpdecode[q][c] = QPStep(q, c)
    BY <1>1, <2>1, QPStepIs
  <2>6. QED
    BY <2>1, <2>2, <2>4, <2>5
<1>5. QED
  BY <1>4 DEF Takes

LEMMA QPDigits ==
  ASSUME NEW c, c \in Byte
  PROVE  \E i \in 0 .. 15 : \E j \in 0 .. 15 :
           /\ qpquote(c) = <<61, qpbase[i], qpbase[j]>> /\ i * 16 + j = c
           /\ qpunbase[qpbase[i]] = i /\ qpunbase[qpbase[j]] = j
           /\ qpbase[i] \in 48 .. 70 /\ qpbase[j] \in 48 .. 70
           /\ qpbase[i] # 61 /\ qpbase[j] # 61
<1>1. c \div 16 \in 0 .. 15 /\ c % 16 \in 0 .. 15 /\ c = 16 * (c \div 16) + (c % 16)
  BY DEF Byte
<1>2. \A d \in 0 .. 15 : qpbase[d] = IF d < 10 THEN 48 + d ELSE 55 + d
  BY DEF qpbase
<1> DEFINE un(x) == CASE x \in 48..57 -> x - 48
                      [] x \in 65..70 -> x - 55
                      [] x \in 97..102 -> x - 87
                      [] OTHER -> 255
<1>3. \A x \in 0 .. 255 : qpunbase[x] = un(x)
  BY Zenon DEF qpunbase
<1>4. ASSUME NEW d \in 0 .. 15
      PROVE  qpunbase[qpbase[d]] = d /\ qpbase[d] \in 48 .. 70 /\ qpbase[d] # 61
  <2>1. PICK x : x = qpbase[d]
    OBVIOUS
  <2>2. (x \in 48 .. 57 /\ x - 48 = d) \/ (x \in 65 .. 70 /\ x - 55 = d)
    BY <1>2, <2>1
  <2>3. x \in 0 .. 255 /\ x \in 48 .. 70 /\ x # 61
    BY <2>2
  <2>4. un(x) = d
    <3>1. CASE x \in 48 .. 57 /\ x - 48 = d
      <4>1. x \notin 65 .. 70 /\ x \notin 97 .. 102
        BY <3>1
      <4>2. un(x) = x - 48
        BY <3>1, <4>1, Zenon
      <4> HIDE DEF un
      <4>3. QED
        BY <3>1, <4>2
    <3>2. CASE x \in 65 .. 70 /\ x - 55 = d
      <4>1. x \notin 48 .. 57 /\ x \notin 97 .. 102
        BY <3>2
      <4>2. un(x) = x - 55
        BY <3>2, <4>1, Zenon
      <4> HIDE DEF un
      <4>3. QED
        BY <3>2, <4>2
    <3>3. QED
      BY <2>2, <3>1, <3>2
  <2> HIDE DEF un
  <2>5. QED
    BY <1>3, <2>1, <2>3, <2>4
<1>5. qpquote(c) = <<61, qpbase[c \div 16], qpbase[c % 16]>>
  BY DEF qpquote, EQ
<1> HIDE DEF un
<1>6. PICK i \in 0 .. 15 : i = c \div 16
  BY <1>1
<1>7. PICK j \in 0 .. 15 : j = c % 16
  BY <1>1
<1>8. qpquote(c) = <<61, qpbase[i], qpbase[j]>> /\ i * 16 + j = c
  BY <1>1, <1>5, <1>6, <1>7
<1>9. /\ qpunbase[qpbase[i]] = i /\ qpbase[i] \in 48 .. 70 /\ qpbase[i] # 61
  BY <1>4
<1>10. /\ qpunbase[qpbase[j]] = j /\ qpbase[j] \in 48 .. 70 /\ qpbase[j] # 61
  BY <1>4
<1>11. QED
  BY <1>8, <1>9, <1>10

LEMMA QPEscape ==
  ASSUME NEW h, NEW l, h \in Byte, l \in Byte, h # 13,
         NEW i, NEW j, i \in 0 .. 15, j \in 0 .. 15, qpunbase[h] = i, qpunbase[l] = j
  PROVE  Takes(qpdecode, <<61, h>>, l, << >>, <<i * 16 + j>>)
<1>1. 61 \in Byte /\ <<61, h>> \in Strings /\ Append(<<61, h>>, l) = <<61, h, l>>
  BY Marks, Pair, Three, Zenon
<1>2. PICK t : t = <<61, h, l>>
  BY Zenon
<1>3. t[1] = 61 /\ t[2] = h /\ t[3] = l /\ ~(Len(t) < 3)
  BY <1>2
<1>4. PICK v : v = i * 16 + j
  OBVIOUS
<1>7. ~(qpunbase[t[2]] > 15) /\ ~(qpunbase[t[3]] > 15) /\ t[2] # 13
  <2>1. ~(i > 15) /\ ~(j > 15)
    OBVIOUS
  <2>2. QED
    BY <1>3, <2>1, Zenon
<1>8. qpunbase[t[2]] * 16 + qpunbase[t[3]] = v
  BY <1>3, <1>4, Zenon
<1>5. ASSUME NEW o \in Strings
      PROVE  qpdecode[[atom |-> <<61, h>>, out |-> o]][l] = [atom |-> << >>, out |-> o \o <<v>>]
  <2>1. PICK q : q = [atom |-> <<61, h>>, out |-> o]
    BY Zenon
  <2>2. q.atom = <<61, h>> /\ q.out = o
    BY <2>1
  <2>3. Append(q.atom, l) = t
    BY <1>1, <1>2, <2>2
  <2>7. /\ t[1] = EQ /\ ~(Len(t) < 3) /\ ~(t[2] = ByteCR /\ t[3] = ByteLF)
        /\ ~(qpunbase[t[2]] > 15 \/ qpunbase[t[3]] > 15)
    BY <1>3, <1>7, Zenon DEF EQ, ByteCR
  <2>8. QPStep(q, l) = [atom |-> << >>, out |-> q.out \o <<qpunbase[t[2]] * 16 + qpunbase[t[3]]>>]
    BY <2>3, <2>7, Zenon DEF QPStep
  <2>4. QPStep(q, l) = [atom |-> << >>, out |-> q.out \o <<v>>]
    BY <1>8, <2>8, Zenon
  <2>5. qpdecode[q][l] = QPStep(q, l)
    BY <1>1, <2>1, QPStepIs
  <2>6. QED
    BY <2>1, <2>2, <2>4, <2>5
<1>6. QED
  BY <1>4, <1>5, Zenon DEF Takes

(* The room the wrap wants for a byte: an escape is not cut in two.        *)
Need(c) == IF c = 61 THEN 3 ELSE 1

LEMMA QPWraps ==
  ASSUME NEW L, NEW acc, acc \in Wrapped, NEW c, c \in Byte
  PROVE  qpwrpbyte(L)[acc][c] =
           IF c = 13 THEN acc
           ELSE IF c = 10 THEN Wrote(acc, CRLF, L)
           ELSE IF acc.left <= Need(c) THEN Wrote(acc, EQCRLF \o <<c>>, L - 1)
           ELSE Wrote(acc, <<c>>, acc.left - 1)
  BY Zenon DEF qpwrpbyte, ByteCR, ByteLF, EQ, Need

(* A soft line break gives nothing back, a line end a line end.            *)
LEMMA QPBreaks ==
  ASSUME NEW o, o \in Strings
  PROVE  /\ Loop(qpdecode, [atom |-> << >>, out |-> o], EQCRLF) = [atom |-> << >>, out |-> o]
         /\ Loop(qpdecode, [atom |-> << >>, out |-> o], CRLF) = [atom |-> << >>, out |-> o \o CRLF]
         /\ Loop(qpdecode, [atom |-> <<61>>, out |-> o], CRLF) = [atom |-> << >>, out |-> o]
<1> DEFINE D == qpdecode
<1>1. PICK q : q = [atom |-> << >>, out |-> o]
  BY Zenon
<1>2. << >> \in Strings /\ o \o << >> = o /\ 13 \in Byte /\ 10 \in Byte /\ 61 \in Byte
      /\ <<61>> \in Strings /\ <<13>> \in Strings /\ CRLF \in Strings
  BY Marks, StringsConcat
<1>3. PICK s : s = <<61>>
  BY Zenon
<1>4. PICK t : t = <<61, 13>>
  BY Zenon
<1>5. PICK u : u = <<13>>
  BY Zenon
<1>6. /\ s \in Strings /\ t \in Strings /\ u \in Strings
      /\ Append(<< >>, 61) = s /\ Append(s, 13) = t /\ Append(<< >>, 13) = u
      /\ s[1] = 61 /\ Len(s) < 3 /\ t[1] = 61 /\ Len(t) < 3 /\ u[1] = 13 /\ Len(u) < 2
  <2>1. t \in Strings /\ Append(s, 13) = t
    BY <1>2, <1>3, <1>4, Pair
  <2>2. Append(<< >>, 61) = s /\ Append(<< >>, 13) = u
    BY <1>3, <1>5
  <2>3. s[1] = 61 /\ Len(s) < 3 /\ t[1] = 61 /\ Len(t) < 3 /\ u[1] = 13 /\ Len(u) < 2
    BY <1>3, <1>4, <1>5
  <2>4. QED
    BY <1>2, <1>3, <1>5, <2>1, <2>2, <2>3
<1>7. Takes(D, << >>, 61, s, << >>)
  BY <1>2, <1>6, QPHolds, Zenon DEF D
<1>8. Takes(D, s, 13, t, << >>)
  BY <1>2, <1>6, QPHolds DEF D
<1>9. Takes(D, t, 10, << >>, << >>)
  BY <1>4, QPSoft DEF D
<1>10. Takes(D, << >>, 13, u, << >>)
  BY <1>2, <1>6, QPHolds, Zenon DEF D
<1>11. Takes(D, u, 10, << >>, CRLF)
  BY <1>5, QPLine DEF D
<1> HIDE DEF D
<1>12. D[q][61] = [atom |-> s, out |-> o]
  BY <1>1, <1>2, <1>7 DEF Takes
<1>13. D[[atom |-> s, out |-> o]][13] = [atom |-> t, out |-> o]
  BY <1>2, <1>8 DEF Takes
<1>14. D[[atom |-> t, out |-> o]][10] = q
  BY <1>1, <1>2, <1>9 DEF Takes
<1>15. D[q][13] = [atom |-> u, out |-> o]
  BY <1>1, <1>2, <1>10 DEF Takes
<1>16. D[[atom |-> u, out |-> o]][10] = [atom |-> << >>, out |-> o \o CRLF]
  BY <1>2, <1>11, Zenon DEF Takes
<1>17. \A r : Loop(D, r, CRLF) = D[D[r][13]][10]
  <2>1. ASSUME NEW r PROVE Loop(D, r, CRLF) = D[D[r][13]][10]
    <3>1. Loop(D, r, <<13>> \o <<10>>) = D[Loop(D, r, <<13>>)][10]
      BY <1>2, LoopThen
    <3>2. Loop(D, r, <<13>>) = D[r][13]
      BY <1>2, LoopOne
    <3>3. QED
      BY <3>1, <3>2, Marks
  <2>2. QED
    BY <2>1
<1>18. Loop(D, q, EQCRLF) = Loop(D, D[q][61], CRLF)
  <2>1. s \in Seq(Byte) /\ CRLF \in Seq(Byte)
    BY <1>2, <1>6 DEF Strings
  <2>2. Loop(D, q, s \o CRLF) = Loop(D, Loop(D, q, s), CRLF)
    BY <2>1, LoopConcat
  <2>3. Loop(D, q, <<61>>) = D[q][61]
    BY <1>2, LoopOne
  <2>4. EQCRLF = s \o CRLF
    BY <1>3, Marks
  <2>5. QED
    BY <1>3, <2>2, <2>3, <2>4
<1>19. Loop(D, q, EQCRLF) = q
  BY <1>12, <1>13, <1>14, <1>17, <1>18
<1>20. Loop(D, q, CRLF) = [atom |-> << >>, out |-> o \o CRLF]
  BY <1>15, <1>16, <1>17, Zenon
<1>22. Loop(D, [atom |-> s, out |-> o], CRLF) = q
  BY <1>13, <1>14, <1>17
<1>21. QED
  BY <1>1, <1>3, <1>19, <1>20, <1>22 DEF D

(* A byte at the beginning of an atom, before which the line may be cut.   *)
LEMMA QuotedPut ==
  ASSUME NEW L, L \in Nat, L >= 4, NEW c, c \in Byte, c # 13, c # 10,
         NEW a, NEW m, a \in Strings, m \in Strings,
         Takes(qpdecode, << >>, c, a, m)
  PROVE  Means(qpwrpbyte(L), qpdecode, L, <<c>>, << >>, 1, a, Need(c), m)
<1> DEFINE D == qpdecode
           W == qpwrpbyte(L)
<1>1. <<c>> \in Strings
  BY Pair, Zenon
<1>2. PICK k : k = Need(c)
  OBVIOUS
<1>3. k \in 1 .. 3 /\ k \in Nat
  BY <1>2 DEF Need
<1>4. ASSUME NEW s \in Strings, NEW acc \in Wrapped, NEW o \in Strings, Passed(D, L, s, acc, << >>, 1, o)
      PROVE  Passed(D, L, s, Loop(W, acc, <<c>>), a, k, o \o m)
  <2>1. Loop(W, acc, <<c>>) = W[acc][c]
    BY LoopOne
  <2>2. W[acc][c] = IF acc.left <= k THEN Wrote(acc, EQCRLF \o <<c>>, L - 1)
                    ELSE Wrote(acc, <<c>>, acc.left - 1)
    BY <1>2, QPWraps
  <2> HIDE DEF W
  <2>3. PICK t : t = s \o acc.out
    BY Zenon
  <2>4. acc.left \in 1 .. L /\ LinesOK(t, acc.left, L) /\ t \in Strings
    BY <1>4, <2>3 DEF Passed, LinesOK
  <2>5. D[[atom |-> << >>, out |-> o]][c] = [atom |-> a, out |-> o \o m]
    BY Zenon DEF Takes
  <2>6. Loop(D, [atom |-> << >>, out |-> o], EQCRLF) = [atom |-> << >>, out |-> o]
    BY QPBreaks, Zenon
  <2> HIDE DEF D
  <2>7. PICK n : n = acc.left
    OBVIOUS
  <2>8. n \in 1 .. L /\ n >= 1 /\ LinesOK(t, n, L)
    BY <2>4, <2>7
  <2>9. CASE n <= k
    <3>1. EQCRLF \o <<c>> \in Strings
      BY <1>1, Marks, StringsConcat
    <3>2. LinesOK(t \o (EQCRLF \o <<c>>), L - 1, L)
      <4>1. LinesOK(t \o EQCRLF, L, L)
        BY <2>8, LinesGrow
      <4>2. LinesOK((t \o EQCRLF) \o <<c>>, L - 1, L)
        BY <4>1, LinesGrow
      <4>3. (t \o EQCRLF) \o <<c>> = t \o (EQCRLF \o <<c>>)
        BY <1>1, <2>4, Marks, StringsConcat
      <4>4. QED
        BY <4>2, <4>3, Zenon
    <3>3. Loop(D, [atom |-> << >>, out |-> o], EQCRLF \o <<c>>) = [atom |-> a, out |-> o \o m]
      <4>1. PICK q : q = [atom |-> << >>, out |-> o]
        BY Zenon
      <4>2. Loop(D, q, EQCRLF \o <<c>>) = D[Loop(D, q, EQCRLF)][c]
        BY Marks, LoopThen
      <4>3. QED
        BY <2>5, <2>6, <4>1, <4>2
    <3>4. L - 1 \in k .. L
      BY <1>3
    <3>5. Passed(D, L, s, Wrote(acc, EQCRLF \o <<c>>, L - 1), a, k, o \o m)
      BY <1>3, <1>4, <2>3, <3>1, <3>2, <3>3, <3>4, PassedGrows, Zenon
    <3>6. QED
      BY <2>1, <2>2, <2>7, <2>9, <3>5
  <2>10. CASE ~(n <= k)
    <3>1. n - 1 \in k .. L
      BY <1>3, <2>8, <2>10
    <3>2. LinesOK(t \o <<c>>, n - 1, L)
      BY <2>8, LinesGrow
    <3>3. Loop(D, [atom |-> << >>, out |-> o], <<c>>) = [atom |-> a, out |-> o \o m]
      BY <2>5, LoopOne
    <3>4. Passed(D, L, s, Wrote(acc, <<c>>, n - 1), a, k, o \o m)
      BY <1>1, <1>3, <1>4, <2>3, <3>1, <3>2, <3>3, PassedGrows, Zenon
    <3>5. QED
      BY <2>1, <2>2, <2>7, <2>10, <3>4
  <2>11. QED
    BY <2>9, <2>10
<1>5. QED
  BY <1>1, <1>2, <1>4 DEF Means

(* The bytes after it: the line is not cut before them.                    *)
LEMMA QuotedHeld ==
  ASSUME NEW L, L \in Nat, NEW c, c \in Byte, c # 13, c # 10, c # 61,
         NEW p, NEW a, NEW m, p \in Strings, a \in Strings, m \in Strings,
         NEW l, l \in Nat, l >= 1, Takes(qpdecode, p, c, a, m)
  PROVE  Means(qpwrpbyte(L), qpdecode, L, <<c>>, p, l + 1, a, l, m)
<1> DEFINE D == qpdecode
           W == qpwrpbyte(L)
<1>1. <<c>> \in Strings
  BY Pair, Zenon
<1>2. ASSUME NEW s \in Strings, NEW acc \in Wrapped, NEW o \in Strings, Passed(D, L, s, acc, p, l + 1, o)
      PROVE  Passed(D, L, s, Loop(W, acc, <<c>>), a, l, o \o m)
  <2>1. Loop(W, acc, <<c>>) = W[acc][c]
    BY LoopOne
  <2>2. W[acc][c] = IF acc.left <= 1 THEN Wrote(acc, EQCRLF \o <<c>>, L - 1)
                    ELSE Wrote(acc, <<c>>, acc.left - 1)
    <3>1. Need(c) = 1
      BY DEF Need
    <3>2. QED
      BY <3>1, QPWraps
  <2> HIDE DEF W
  <2>3. PICK t : t = s \o acc.out
    BY Zenon
  <2>4. acc.left \in l + 1 .. L /\ LinesOK(t, acc.left, L)
    BY <1>2, <2>3 DEF Passed
  <2>5. D[[atom |-> p, out |-> o]][c] = [atom |-> a, out |-> o \o m]
    BY Zenon DEF Takes
  <2> HIDE DEF D
  <2>6. PICK n : n = acc.left
    OBVIOUS
  <2>7. n \in Nat /\ n >= 1 /\ ~(n <= 1) /\ LinesOK(t, n, L) /\ n - 1 \in l .. L
    BY <2>4, <2>6
  <2>8. LinesOK(t \o <<c>>, n - 1, L)
    BY <2>7, LinesGrow
  <2>9. Loop(D, [atom |-> p, out |-> o], <<c>>) = [atom |-> a, out |-> o \o m]
    BY <2>5, LoopOne
  <2>10. Passed(D, L, s, Wrote(acc, <<c>>, n - 1), a, l, o \o m)
    BY <1>1, <1>2, <2>3, <2>7, <2>8, <2>9, PassedGrows, Zenon
  <2>11. QED
    BY <2>1, <2>2, <2>6, <2>7, <2>10
<1>3. QED
  BY <1>1, <1>2 DEF Means

(* A carriage return is dropped; a line feed sends a line end.             *)
LEMMA QuotedCR ==
  ASSUME NEW L, NEW D, NEW p, NEW l
  PROVE  Means(qpwrpbyte(L), D, L, <<13>>, p, l, p, l, << >>)
<1> DEFINE W == qpwrpbyte(L)
<1>1. <<13>> \in Strings /\ << >> \in Strings /\ 13 \in Byte
  BY Marks
<1>2. ASSUME NEW s \in Strings, NEW acc \in Wrapped, NEW o \in Strings, Passed(D, L, s, acc, p, l, o)
      PROVE  Passed(D, L, s, Loop(W, acc, <<13>>), p, l, o \o << >>)
  <2>1. Loop(W, acc, <<13>>) = W[acc][13]
    BY <1>1, LoopOne
  <2>2. W[acc][13] = acc
    BY <1>1, QPWraps
  <2>3. o \o << >> = o
    BY StringsConcat
  <2>4. QED
    BY <1>2, <2>1, <2>2, <2>3
<1>3. QED
  BY <1>1, <1>2 DEF Means

LineEnded(p, m) ==
  \A o \in Strings : Loop(qpdecode, [atom |-> p, out |-> o], CRLF) = [atom |-> << >>, out |-> o \o m]

LEMMA QuotedLF ==
  ASSUME NEW L, L \in Nat, L >= 4, NEW p, NEW l, NEW m, m \in Strings, LineEnded(p, m)
  PROVE  Means(qpwrpbyte(L), qpdecode, L, <<10>>, p, l, << >>, 1, m)
<1> DEFINE D == qpdecode
           W == qpwrpbyte(L)
<1>1. <<10>> \in Strings /\ << >> \in Strings /\ 10 \in Byte /\ CRLF \in Strings
  BY Marks
<1>2. ASSUME NEW s \in Strings, NEW acc \in Wrapped, NEW o \in Strings, Passed(D, L, s, acc, p, l, o)
      PROVE  Passed(D, L, s, Loop(W, acc, <<10>>), << >>, 1, o \o m)
  <2>1. Loop(W, acc, <<10>>) = W[acc][10]
    BY <1>1, LoopOne
  <2>2. W[acc][10] = Wrote(acc, CRLF, L)
    BY <1>1, QPWraps
  <2> HIDE DEF W
  <2>3. PICK t : t = s \o acc.out
    BY Zenon
  <2>4. LinesOK(t, acc.left, L)
    BY <1>2, <2>3 DEF Passed
  <2>5. LinesOK(t \o CRLF, L, L)
    BY <2>4, LinesGrow
  <2>6. Loop(D, [atom |-> p, out |-> o], CRLF) = [atom |-> << >>, out |-> o \o m]
    BY Zenon DEF LineEnded
  <2> HIDE DEF D
  <2>7. L \in 1 .. L /\ 1 \in Nat
    OBVIOUS
  <2>8. Passed(D, L, s, Wrote(acc, CRLF, L), << >>, 1, o \o m)
    BY <1>1, <1>2, <2>3, <2>5, <2>6, <2>7, PassedGrows, Zenon
  <2>9. QED
    BY <2>1, <2>2, <2>8
<1>3. QED
  BY <1>1, <1>2 DEF Means

(* A text that is whole: between two atoms before it and after it.         *)
Unit(L, x, m) == Means(qpwrpbyte(L), qpdecode, L, x, << >>, 1, << >>, 1, m)

LEMMA UnitNone == ASSUME NEW L PROVE Unit(L, << >>, << >>)
  BY MeansNone DEF Unit

LEMMA UnitThen ==
  ASSUME NEW L, NEW x, NEW m, NEW y, NEW n, Unit(L, x, m), Unit(L, y, n)
  PROVE  Unit(L, x \o y, m \o n)
  BY MeansThen DEF Unit

LEMMA UnitLine ==
  ASSUME NEW L, L \in Nat, L >= 4
  PROVE  Unit(L, CRLF, CRLF) /\ Unit(L, EQCRLF, << >>)
<1> DEFINE M(x, p, l, a, k, m) == Means(qpwrpbyte(L), qpdecode, L, x, p, l, a, k, m)
<1>1. /\ CRLF \in Strings /\ << >> \in Strings /\ <<61>> \in Strings /\ <<13>> \in Strings
      /\ <<10>> \in Strings /\ << >> \o CRLF = CRLF /\ << >> \o << >> = << >>
      /\ 61 \in Byte
  BY Marks, StringsConcat
<1>2. \A o \in Strings : o \o << >> = o
  BY StringsConcat
<1>3. LineEnded(<< >>, CRLF)
  BY QPBreaks DEF LineEnded
<1>4. LineEnded(<<61>>, << >>)
  BY <1>2, QPBreaks DEF LineEnded
<1>5. M(<<13>>, << >>, 1, << >>, 1, << >>) /\ M(<<13>>, <<61>>, 3, <<61>>, 3, << >>)
  BY QuotedCR
<1>6. M(<<10>>, << >>, 1, << >>, 1, CRLF)
  BY <1>1, <1>3, QuotedLF
<1>7. M(<<10>>, <<61>>, 3, << >>, 1, << >>)
  BY <1>1, <1>4, QuotedLF
<1>8. M(<<61>>, << >>, 1, <<61>>, 3, << >>)
  <2>1. PICK t : t = <<61>>
    BY Zenon
  <2>2. Append(<< >>, 61) = t /\ t[1] = 61 /\ Len(t) < 3 /\ t \in Strings
    BY <1>1, <2>1
  <2>3. Takes(qpdecode, << >>, 61, t, << >>)
    BY <1>1, <2>2, QPHolds, Zenon
  <2>4. 61 # 13 /\ 61 # 10 /\ Need(61) = 3
    BY DEF Need
  <2>5. M(<<61>>, << >>, 1, t, Need(61), << >>)
    BY <1>1, <2>2, <2>3, <2>4, QuotedPut
  <2>6. QED
    BY <2>1, <2>4, <2>5
<1>9. M(<<13>> \o <<10>>, << >>, 1, << >>, 1, << >> \o CRLF)
  BY <1>5, <1>6, MeansThen, Zenon
<1>10. M(<<13>> \o <<10>>, <<61>>, 3, << >>, 1, << >> \o << >>)
  BY <1>5, <1>7, MeansThen, Zenon
<1>11. CRLF = <<13>> \o <<10>> /\ EQCRLF = <<61>> \o CRLF
  BY Marks
<1>12. M(CRLF, <<61>>, 3, << >>, 1, << >>)
  BY <1>1, <1>10, <1>11
<1>13. M(<<61>> \o CRLF, << >>, 1, << >>, 1, << >> \o << >>)
  BY <1>8, <1>12, MeansThen, Zenon
<1>14. QED
  BY <1>1, <1>9, <1>11, <1>13 DEF Unit

LEMMA UnitPlain ==
  ASSUME NEW L, L \in Nat, L >= 4, NEW c, c \in Byte, Printed(c), c # 61
  PROVE  Unit(L, <<c>>, <<c>>)
<1>1. c # 13 /\ c # 10 /\ Need(c) = 1 /\ <<c>> \in Strings /\ << >> \in Strings
  <2>1. c # 13 /\ c # 10 /\ Need(c) = 1
    BY DEF Printed, Need
  <2>2. <<c>> \in Strings
    BY Pair, Zenon
  <2>3. QED
    BY <2>1, <2>2, Marks
<1>2. Takes(qpdecode, << >>, c, << >>, <<c>>)
  BY <1>1, QPPlain
<1>3. Means(qpwrpbyte(L), qpdecode, L, <<c>>, << >>, 1, << >>, Need(c), <<c>>)
  BY <1>1, <1>2, QuotedPut
<1>4. QED
  BY <1>1, <1>3 DEF Unit

LEMMA UnitEscape ==
  ASSUME NEW L, L \in Nat, L >= 4, NEW c, c \in Byte
  PROVE  Unit(L, qpquote(c), <<c>>)
<1> DEFINE M(x, p, l, a, k, m) == Means(qpwrpbyte(L), qpdecode, L, x, p, l, a, k, m)
<1>1. PICK i \in 0 .. 15, j \in 0 .. 15 :
           /\ qpquote(c) = <<61, qpbase[i], qpbase[j]>> /\ i * 16 + j = c
           /\ qpunbase[qpbase[i]] = i /\ qpunbase[qpbase[j]] = j
           /\ qpbase[i] \in 48 .. 70 /\ qpbase[j] \in 48 .. 70
           /\ qpbase[i] # 61 /\ qpbase[j] # 61
  BY QPDigits
<1>2. PICK h : h = qpbase[i]
  OBVIOUS
<1>3. PICK d : d = qpbase[j]
  OBVIOUS
<1>4. /\ h \in Byte /\ d \in Byte /\ h # 61 /\ d # 61 /\ h # 13 /\ d # 13 /\ h # 10 /\ d # 10
      /\ qpunbase[h] = i /\ qpunbase[d] = j
  BY <1>1, <1>2, <1>3 DEF Byte
<1>5. /\ 61 \in Byte /\ << >> \in Strings /\ <<61>> \in Strings /\ <<c>> \in Strings
      /\ << >> \o << >> = << >> /\ << >> \o <<c>> = <<c>>
  <2>1. <<c>> \in Strings
    BY Pair, Zenon
  <2>2. QED
    BY <2>1, Marks, StringsConcat
<1>6. /\ <<61, h>> \in Strings /\ Append(<<61>>, h) = <<61, h>> /\ <<61>> \o <<h>> = <<61, h>>
      /\ <<61, h>> \o <<d>> = <<61, h, d>>
  BY <1>4, <1>5, Pair, Three, Zenon
<1>7. M(<<61>>, << >>, 1, <<61>>, 3, << >>)
  <2>1. PICK t : t = <<61>>
    BY Zenon
  <2>2. Append(<< >>, 61) = t /\ t[1] = 61 /\ Len(t) < 3 /\ t \in Strings
    BY <1>5, <2>1
  <2>3. Takes(qpdecode, << >>, 61, t, << >>)
    BY <1>5, <2>2, QPHolds, Zenon
  <2>4. 61 # 13 /\ 61 # 10 /\ Need(61) = 3
    BY DEF Need
  <2>5. M(<<61>>, << >>, 1, t, Need(61), << >>)
    BY <1>5, <2>2, <2>3, <2>4, QuotedPut
  <2>6. QED
    BY <2>1, <2>4, <2>5
<1>8. M(<<h>>, <<61>>, 3, <<61, h>>, 2, << >>)
  <2>1. PICK t : t = <<61, h>>
    BY Zenon
  <2>2. Append(<<61>>, h) = t /\ t[1] = 61 /\ Len(t) < 3 /\ t \in Strings
    BY <1>6, <2>1
  <2>3. Takes(qpdecode, <<61>>, h, t, << >>)
    BY <1>4, <1>5, <2>2, QPHolds, Zenon
  <2>4. M(<<h>>, <<61>>, 2 + 1, t, 2, << >>)
    <3>1. 2 \in Nat /\ 2 >= 1
      OBVIOUS
    <3>2. QED
      BY <1>4, <1>5, <2>2, <2>3, <3>1, QuotedHeld, Zenon
  <2>5. 2 + 1 = 3
    OBVIOUS
  <2>6. QED
    BY <2>1, <2>4, <2>5
<1>9. M(<<d>>, <<61, h>>, 2, << >>, 1, <<c>>)
  <2>1. Takes(qpdecode, <<61, h>>, d, << >>, <<i * 16 + j>>)
    BY <1>4, QPEscape, Zenon
  <2>2. Takes(qpdecode, <<61, h>>, d, << >>, <<c>>)
    BY <1>1, <2>1
  <2>3. M(<<d>>, <<61, h>>, 1 + 1, << >>, 1, <<c>>)
    <3>1. 1 \in Nat /\ 1 >= 1
      OBVIOUS
    <3>2. QED
      BY <1>4, <1>5, <1>6, <2>2, <3>1, QuotedHeld, Zenon
  <2>4. 1 + 1 = 2
    OBVIOUS
  <2>5. QED
    BY <2>3, <2>4
<1>10. M(<<61>> \o <<h>>, << >>, 1, <<61, h>>, 2, << >> \o << >>)
  BY <1>7, <1>8, MeansThen, Zenon
<1>11. M(<<61, h>>, << >>, 1, <<61, h>>, 2, << >>)
  BY <1>5, <1>6, <1>10, Zenon
<1>12. M(<<61, h>> \o <<d>>, << >>, 1, << >>, 1, << >> \o <<c>>)
  BY <1>9, <1>11, MeansThen, Zenon
<1>13. qpquote(c) = <<61, h>> \o <<d>>
  BY <1>1, <1>2, <1>3, <1>6
<1>14. QED
  BY <1>5, <1>12, <1>13 DEF Unit

LEMMA UnitMarker ==
  ASSUME NEW L, L \in Nat, L >= 4
  PROVE  Unit(L, QuotedCRLF, CRLF)
<1>1. 13 \in Byte /\ 10 \in Byte
  BY Marks
<1>2. Unit(L, qpquote(13), <<13>>) /\ Unit(L, qpquote(10), <<10>>)
  BY <1>1, UnitEscape
<1>3. Unit(L, qpquote(13) \o qpquote(10), <<13>> \o <<10>>)
  BY <1>2, UnitThen
<1>4. qpbase[0] = 48 /\ qpbase[13] = 68 /\ qpbase[10] = 65
  <2>1. \A d \in 0 .. 15 : qpbase[d] = IF d < 10 THEN 48 + d ELSE 55 + d
    BY DEF qpbase
  <2>2. 0 \in 0 .. 15 /\ 13 \in 0 .. 15 /\ 10 \in 0 .. 15
    OBVIOUS
  <2>3. QED
    BY <2>1, <2>2
<1>5. qpquote(13) = <<61, 48, 68>> /\ qpquote(10) = <<61, 48, 65>>
  <2>1. 13 \div 16 = 0 /\ 13 % 16 = 13 /\ 10 \div 16 = 0 /\ 10 % 16 = 10
    OBVIOUS
  <2>2. QED
    BY <1>4, <2>1, Zenon DEF qpquote, EQ
<1>6. QuotedCRLF = qpquote(13) \o qpquote(10)
  <2>1. PICK s : s = <<61, 48, 68>>
    BY Zenon
  <2>2. PICK t : t = <<61, 48, 65>>
    BY Zenon
  <2>3. PICK u : u = <<61, 48, 68, 61, 48, 65>>
    BY Zenon
  <2>4. s \in Seq(Byte) /\ t \in Seq(Byte) /\ u \in Seq(Byte) /\ Len(s) = 3 /\ Len(t) = 3 /\ Len(u) = 6
    BY <2>1, <2>2, <2>3 DEF Byte
  <2>5. /\ s[1] = 61 /\ s[2] = 48 /\ s[3] = 68 /\ t[1] = 61 /\ t[2] = 48 /\ t[3] = 65
        /\ u[1] = 61 /\ u[2] = 48 /\ u[3] = 68 /\ u[4] = 61 /\ u[5] = 48 /\ u[6] = 65
    BY <2>1, <2>2, <2>3
  <2>6. PICK z : z = s \o t
    BY Zenon
  <2>7. z \in Seq(Byte) /\ Len(z) = 6 /\ (\A i \in 1 .. 3 : z[i] = s[i] /\ z[i + 3] = t[i])
    <3>1. /\ s \o t \in Seq(Byte) /\ Len(s \o t) = Len(s) + Len(t)
          /\ \A i \in 1 .. Len(s) + Len(t) : (s \o t)[i] = IF i <= Len(s) THEN s[i] ELSE t[i - Len(s)]
      BY <2>4, ConcatProperties, Zenon
    <3>2. z \in Seq(Byte) /\ Len(z) = 6 /\ \A i \in 1 .. 6 : z[i] = IF i <= 3 THEN s[i] ELSE t[i - 3]
      BY <2>4, <2>6, <3>1
    <3>3. ASSUME NEW i \in 1 .. 3 PROVE z[i] = s[i] /\ z[i + 3] = t[i]
      <4>1. i \in 1 .. 6 /\ i <= 3 /\ i + 3 \in 1 .. 6 /\ ~(i + 3 <= 3) /\ (i + 3) - 3 = i
        OBVIOUS
      <4>2. QED
        BY <3>2, <4>1
    <3>4. QED
      BY <3>2, <3>3
  <2>8. z[1] = 61 /\ z[2] = 48 /\ z[3] = 68 /\ z[4] = 61 /\ z[5] = 48 /\ z[6] = 65
    <3>1. /\ z[1] = s[1] /\ z[2] = s[2] /\ z[3] = s[3]
          /\ z[1 + 3] = t[1] /\ z[2 + 3] = t[2] /\ z[3 + 3] = t[3]
      BY <2>7
    <3>2. QED
      BY <2>5, <3>1
  <2>9. ASSUME NEW i \in 1 .. 6 PROVE z[i] = u[i]
    <3>1. i = 1 \/ i = 2 \/ i = 3 \/ i = 4 \/ i = 5 \/ i = 6
      OBVIOUS
    <3>2. QED
      BY <2>5, <2>8, <3>1
  <2>10. z = u
    BY <2>4, <2>7, <2>9, SeqEqual, Zenon
  <2>11. QED
    BY <1>5, <2>1, <2>2, <2>3, <2>6, <2>10, Zenon DEF QuotedCRLF
<1>7. QED
  BY <1>3, <1>6, Marks

-----------------------------------------------------------------------------
(* Quoted-printable: the encoder.                                          *)
LEMMA QPClasses ==
  ASSUME NEW c, c \in Byte
  PROVE  /\ qpclass[c] = "CR" <=> c = 13
         /\ qpclass[c] = "IF_LAST" <=> c \in {9, 32}
         /\ qpclass[c] = "PLAIN" \/ qpclass[c] = "IF_LAST" => Printed(c) /\ c # 61
         /\ qpclass[c] \in {"CR", "IF_LAST", "PLAIN", "QUOTED"}
<1>1. qpclass[c] = IF c \in (33 .. 60) \union (62 .. 126) THEN "PLAIN"
                   ELSE IF c = 13 THEN "CR"
                   ELSE IF c \in {9, 32} THEN "IF_LAST" ELSE "QUOTED"
  BY DEF qpclass, Byte, ByteCR
<1>2. QED
  BY <1>1 DEF Printed

LEMMA FirstAndRest ==
  ASSUME NEW s, s \in Strings, s # << >>
  PROVE  /\ s[1] \in Byte /\ Tail(s) \in Strings /\ s = <<s[1]>> \o Tail(s)
         /\ Len(s) \in Nat /\ Len(s) >= 1 /\ Len(Tail(s)) = Len(s) - 1
<1>1. s \in Seq(Byte)
  BY DEF Strings
<1>2. /\ s[1] \in Byte /\ Tail(s) \in Seq(Byte) /\ Len(s) \in Nat /\ Len(s) >= 1
      /\ Len(Tail(s)) = Len(s) - 1 /\ \A i \in 1 .. Len(s) - 1 : Tail(s)[i] = s[i + 1]
  BY <1>1
<1>3. PICK z : z = <<s[1]>> \o Tail(s)
  BY Zenon
<1>4. PICK u : u = <<s[1]>>
  BY Zenon
<1>5. u \in Seq(Byte) /\ Len(u) = 1 /\ u[1] = s[1]
  BY <1>2, <1>4
<1>11. PICK y : y = Tail(s)
  BY Zenon
<1>12. /\ y \in Seq(Byte) /\ Len(y) = Len(s) - 1 /\ \A i \in 1 .. Len(s) - 1 : y[i] = s[i + 1]
  BY <1>2, <1>11
<1>6. /\ u \o y \in Seq(Byte) /\ Len(u \o y) = Len(u) + Len(y)
      /\ \A i \in 1 .. Len(u) + Len(y) :
           (u \o y)[i] = IF i <= Len(u) THEN u[i] ELSE y[i - Len(u)]
  <2>1. u \in Seq(Byte) /\ y \in Seq(Byte)
    BY <1>5, <1>12
  <2>2. QED
    BY <2>1, ConcatProperties, Zenon
<1>13. z = u \o y /\ Len(u) + Len(y) = Len(s)
  BY <1>2, <1>3, <1>4, <1>5, <1>11, <1>12
<1>7. z \in Seq(Byte) /\ Len(z) = Len(s)
      /\ \A i \in 1 .. Len(s) : z[i] = IF i <= 1 THEN u[i] ELSE y[i - 1]
  BY <1>5, <1>6, <1>13
<1>8. ASSUME NEW i \in 1 .. Len(s) PROVE z[i] = s[i]
  <2>1. CASE i = 1
    BY <1>2, <1>5, <1>7, <2>1
  <2>2. CASE i # 1
    <3>1. ~(i <= 1) /\ i - 1 \in 1 .. Len(s) - 1 /\ (i - 1) + 1 = i
      BY <1>2, <2>2
    <3>2. y[i - 1] = s[(i - 1) + 1]
      BY <1>12, <3>1
    <3>3. QED
      BY <1>7, <3>1, <3>2
  <2>3. QED
    BY <2>1, <2>2
<1>9. z = s
  BY <1>1, <1>7, <1>8, SeqEqual
<1>10. QED
  BY <1>2, <1>3, <1>9 DEF Strings

LEMMA EndsInLine ==
  ASSUME NEW s, s \in Strings
  PROVE  /\ Len(s) = 2 /\ s[1] = 13 /\ s[2] = 10 => s = CRLF
         /\ Len(s) = 3 /\ SubSeq(s, 2, 3) = CRLF => s = <<s[1]>> \o CRLF
<1>1. s \in Seq(Byte)
  BY DEF Strings
<1>2. ASSUME Len(s) = 2, s[1] = 13, s[2] = 10 PROVE s = CRLF
  <2>1. PICK t : t = <<13, 10>>
    BY Zenon
  <2>2. t \in Seq(Byte) /\ Len(t) = 2 /\ t[1] = 13 /\ t[2] = 10
    BY <2>1 DEF Byte
  <2>3. ASSUME NEW i \in 1 .. 2 PROVE s[i] = t[i]
    <3>1. i = 1 \/ i = 2
      OBVIOUS
    <3>2. QED
      BY <1>2, <2>2, <3>1
  <2>4. s = t
    BY <1>1, <1>2, <2>2, <2>3, SeqEqual
  <2>5. QED
    BY <2>1, <2>4 DEF CRLF, ByteCR, ByteLF
<1>3. ASSUME Len(s) = 3, SubSeq(s, 2, 3) = CRLF PROVE s = <<s[1]>> \o CRLF
  <2>1. s # << >> /\ \A i \in 1 .. 3 : s[i] \in Byte
    <3>1. ASSUME s = << >> PROVE FALSE
      <4>1. Len(s) = 0
        BY <3>1
      <4>2. QED
        BY <1>3, <4>1
    <3>2. \A i \in 1 .. Len(s) : s[i] \in Byte
      BY <1>1
    <3>3. QED
      BY <1>3, <3>1, <3>2
  <2>2. PICK y : y = SubSeq(s, 2, 3)
    BY Zenon
  <2>3. Tail(s) = SubSeq(s, 2, 3)
    <3>1. \A i \in 2 .. 3 : s[i] \in Byte
      BY <2>1
    <3>2. y \in Seq(Byte) /\ Len(y) = 2 /\ \A i \in 1 .. 2 : y[i] = s[2 + i - 1]
      BY <2>2, <3>1, SubSeqProperties
    <3>3. PICK z : z = Tail(s)
      BY Zenon
    <3>4. z \in Seq(Byte) /\ Len(z) = 2 /\ \A i \in 1 .. 2 : z[i] = s[i + 1]
      <4>1. /\ Tail(s) \in Seq(Byte) /\ Len(Tail(s)) = Len(s) - 1
            /\ \A i \in 1 .. Len(s) - 1 : Tail(s)[i] = s[i + 1]
        BY <1>1, <2>1
      <4>2. Len(s) - 1 = 2
        BY <1>3
      <4>3. QED
        BY <3>3, <4>1, <4>2, Zenon
    <3>5. ASSUME NEW i \in 1 .. 2 PROVE z[i] = y[i]
      <4>1. 2 + i - 1 = i + 1
        OBVIOUS
      <4>2. QED
        BY <3>2, <3>4, <4>1
    <3>6. z = y
      BY <3>2, <3>4, <3>5, SeqEqual
    <3>7. QED
      BY <2>2, <3>3, <3>6, Zenon
  <2>4. QED
    BY <1>3, <2>1, <2>3, FirstAndRest, Zenon
<1>4. QED
  BY <1>2, <1>3

(* What the encoder has put out means the text up to the bytes it holds.   *)
Accounts(L, r, q) ==
  /\ q \in Held
  /\ \E m \in Strings : r = m \o q.atom /\ Unit(L, q.out, m)

Blank(c) == c \in {9, 32}

(* What it holds after a byte, and after the turns of its loop.            *)
Short(s) == Len(s) <= 3 /\ (Len(s) = 3 => Blank(s[1]))
Settled(s) == Len(s) <= 2 /\ (Len(s) = 2 => Blank(s[1]))

LEMMA TextEmits ==
  ASSUME NEW L, NEW r, NEW q, Accounts(L, r, q),
         NEW t, NEW u, NEW y, y \in Strings, Unit(L, t, u), Begun(q.atom, u, y)
  PROVE  Accounts(L, r, [atom |-> y, out |-> q.out \o t])
<1>1. q \in Held
  BY DEF Accounts
<1>2. PICK m \in Strings : r = m \o q.atom /\ Unit(L, q.out, m)
  BY DEF Accounts
<1>3. t \in Strings /\ u \in Strings /\ q.out \in Strings /\ q.atom \in Strings
  BY <1>1 DEF Unit, Means, Held
<1>4. Unit(L, q.out \o t, m \o u)
  BY <1>2, UnitThen
<1>5. q.out \o t \in Strings /\ m \o u \in Strings
  BY <1>3, StringsConcat
<1>6. PICK z : z = [atom |-> y, out |-> q.out \o t]
  BY Zenon
<1>7. z \in Held /\ z.atom = y /\ z.out = q.out \o t
  BY <1>5, <1>6 DEF Held
<1>8. m \o (u \o y) = (m \o u) \o y
  BY <1>3, StringsConcat
<1>9. r = (m \o u) \o y
  BY <1>2, <1>8 DEF Begun
<1>10. Accounts(L, r, z)
  BY <1>4, <1>5, <1>7, <1>9, Zenon DEF Accounts
<1>11. QED
  BY <1>6, <1>10

(* A turn: the bytes that are held become fewer unless they are settled.   *)
Drained(L, r, q, z) ==
  /\ Accounts(L, r, z) /\ Short(z.atom)
  /\ Settled(z.atom) \/ Len(z.atom) < Len(q.atom)
  /\ Settled(q.atom) => Settled(z.atom)

LEMMA DrainStays ==
  ASSUME NEW L, NEW r, NEW q, Accounts(L, r, q), Short(q.atom), Settled(q.atom)
  PROVE  Drained(L, r, q, q)
  BY DEF Drained

LEMMA DrainEmits ==
  ASSUME NEW L, NEW r, NEW q, Accounts(L, r, q), Short(q.atom), q.atom # << >>,
         Settled(q.atom) => Len(q.atom) = 1,
         NEW t, Unit(L, t, <<q.atom[1]>>)
  PROVE  Drained(L, r, q, [atom |-> Tail(q.atom), out |-> q.out \o t])
<1>1. PICK s : s = q.atom
  OBVIOUS
<1>2. s \in Strings /\ s # << >>
  BY <1>1 DEF Accounts, Held
<1>3. PICK y : y = Tail(s)
  BY Zenon
<1>4. /\ s[1] \in Byte /\ y \in Strings /\ s = <<s[1]>> \o y
      /\ Len(s) \in Nat /\ Len(s) >= 1 /\ Len(y) = Len(s) - 1
  BY <1>2, <1>3, FirstAndRest
<1>5. Begun(q.atom, <<q.atom[1]>>, y)
  BY <1>1, <1>4 DEF Begun
<1>6. PICK z : z = [atom |-> y, out |-> q.out \o t]
  BY Zenon
<1>7. Accounts(L, r, [atom |-> y, out |-> q.out \o t])
  BY <1>4, <1>5, TextEmits
<1>8. z.atom = y
  BY <1>6
<1>9. Len(s) <= 3 /\ (Settled(s) => Len(s) = 1)
  BY <1>1 DEF Short
<1>10. Len(y) <= 2 /\ Len(y) # 3 /\ Len(y) < Len(s) /\ (Len(s) = 1 => Len(y) = 0)
  <2>1. ASSUME NEW n \in Nat, n >= 1, n <= 3
        PROVE  n - 1 <= 2 /\ n - 1 # 3 /\ n - 1 < n /\ (n = 1 => n - 1 = 0)
    BY <2>1
  <2>2. PICK n \in Nat : n = Len(s)
    BY <1>4
  <2>3. n >= 1 /\ n <= 3 /\ Len(y) = n - 1
    BY <1>4, <1>9, <2>2
  <2>4. QED
    BY <2>1, <2>2, <2>3
<1>11. Short(y)
  BY <1>10 DEF Short
<1>12. Len(y) = 0 => Settled(y)
  BY <1>10 DEF Settled
<1>13. Drained(L, r, q, z)
  BY <1>1, <1>6, <1>7, <1>8, <1>9, <1>10, <1>11, <1>12 DEF Drained
<1>14. QED
  BY <1>1, <1>3, <1>6, <1>13

LEMMA DrainEnds ==
  ASSUME NEW L, NEW r, NEW q, Accounts(L, r, q), NEW t, NEW u, Unit(L, t, u), Begun(q.atom, u, << >>)
  PROVE  Drained(L, r, q, [atom |-> << >>, out |-> q.out \o t])
<1>1. PICK z : z = [atom |-> << >>, out |-> q.out \o t]
  BY Zenon
<1>2. Accounts(L, r, z)
  BY <1>1, Marks, TextEmits, Zenon
<1>3. z.atom = << >> /\ Len(<< >>) = 0
  BY <1>1
<1>4. Short(z.atom) /\ Settled(z.atom)
  BY <1>3 DEF Short, Settled
<1>5. QED
  BY <1>1, <1>2, <1>4 DEF Drained

LEMMA QPTurn ==
  ASSUME NEW L, L \in Nat, L >= 4, NEW mk, Unit(L, mk, CRLF),
         NEW r, NEW q, Accounts(L, r, q), Short(q.atom)
  PROVE  Drained(L, r, q, qpdrain(q, mk))
<1>1. PICK s : s = q.atom
  OBVIOUS
<1>2. q \in Held /\ s \in Strings /\ q.out \in Strings /\ Short(s) /\ mk \in Strings
  BY <1>1 DEF Accounts, Held, Unit, Means
<1>3. PICK k : k = qpclass[s[1]]
  OBVIOUS
<1>4. qpdrain(q, mk) =
        IF s = << >> THEN q
        ELSE IF k = "CR"
        THEN IF Len(s) < 2 THEN q
             ELSE IF s[2] = 10 THEN [atom |-> << >>, out |-> (q.out \o << >>) \o mk]
             ELSE [atom |-> Tail(s), out |-> q.out \o qpquote(13)]
        ELSE IF k = "IF_LAST"
        THEN IF Len(s) < 3 THEN q
             ELSE IF SubSeq(s, 2, 3) = CRLF
             THEN [atom |-> << >>, out |-> (q.out \o qpquote(s[1])) \o mk]
             ELSE [atom |-> Tail(s), out |-> q.out \o <<s[1]>>]
        ELSE [atom |-> Tail(s),
              out |-> q.out \o (IF k = "QUOTED" THEN qpquote(s[1]) ELSE <<s[1]>>)]
  BY <1>1, <1>3, Zenon DEF qpdrain, ByteCR, ByteLF
<1>5. CASE s = << >>
  <2>1. qpdrain(q, mk) = q
    BY <1>4, <1>5
  <2>2. Len(s) = 0
    BY <1>5
  <2>3. Settled(q.atom)
    BY <1>1, <2>2 DEF Settled
  <2>4. QED
    BY <2>1, <2>3, DrainStays
<1>6. CASE s # << >>
  <2>1. PICK c : c = s[1]
    OBVIOUS
  <2>2. /\ c \in Byte /\ Tail(s) \in Strings /\ s = <<c>> \o Tail(s)
        /\ Len(s) \in Nat /\ Len(s) >= 1
    BY <1>2, <1>6, <2>1, FirstAndRest
  <2>3. /\ k = "CR" <=> c = 13
        /\ k = "IF_LAST" <=> Blank(c)
        /\ k = "PLAIN" \/ k = "IF_LAST" => Printed(c) /\ c # 61
    BY <1>3, <2>1, <2>2, QPClasses DEF Blank
  <2>4. Unit(L, qpquote(c), <<c>>)
    BY <2>2, UnitEscape, Zenon
  <2>5. Printed(c) /\ c # 61 => Unit(L, <<c>>, <<c>>)
    BY <2>2, UnitPlain, Zenon
  <2>6. Len(s) <= 3 /\ (Len(s) = 3 => Blank(c))
    BY <1>2, <2>1 DEF Short
  <2>7. Settled(s) <=> Len(s) <= 2 /\ (Len(s) = 2 => Blank(c))
    BY <2>1 DEF Settled
  <2>8. << >> \in Strings /\ <<c>> \in Strings /\ CRLF \in Strings
    BY <2>2, Pair, Marks, Zenon
  <2>13. ~Blank(c) => (Settled(q.atom) => Len(q.atom) = 1)
    <3>1. ASSUME NEW n \in Nat, n >= 1, n <= 2, n # 2 PROVE n = 1
      BY <3>1
    <3>2. ASSUME ~Blank(c), Settled(s) PROVE Len(s) = 1
      <4>1. Len(s) <= 2 /\ Len(s) # 2
        BY <2>7, <3>2
      <4>2. QED
        BY <2>2, <3>1, <4>1
    <3>3. QED
      BY <1>1, <3>2
  <2>9. CASE k = "CR"
    <3>1. c = 13 /\ ~Blank(c)
      BY <2>3, <2>9 DEF Blank
    <3>2. CASE Len(s) < 2
      <4>1. qpdrain(q, mk) = q
        BY <1>4, <1>6, <2>9, <3>2
      <4>2. Settled(q.atom)
        <5>1. Len(s) <= 2 /\ Len(s) # 2
          BY <2>2, <3>2
        <5>2. QED
          BY <1>1, <2>7, <5>1
      <4>3. QED
        BY <4>1, <4>2, DrainStays
    <3>3. CASE ~(Len(s) < 2) /\ s[2] = 10
      <4>1. qpdrain(q, mk) = [atom |-> << >>, out |-> (q.out \o << >>) \o mk]
        BY <1>4, <1>6, <2>9, <3>3
      <4>2. (q.out \o << >>) \o mk = q.out \o mk
        BY <1>2, StringsConcat
      <4>3. Len(s) = 2
        BY <2>2, <2>6, <3>1, <3>3
      <4>4. s = CRLF
        BY <1>2, <2>1, <3>1, <3>3, <4>3, EndsInLine, Zenon
      <4>5. Begun(q.atom, CRLF, << >>)
        <5>1. CRLF \o << >> = CRLF
          BY <2>8, StringsConcat
        <5>2. QED
          BY <1>1, <4>4, <5>1 DEF Begun
      <4>6. Drained(L, r, q, [atom |-> << >>, out |-> q.out \o mk])
        BY <4>5, DrainEnds, Zenon
      <4>7. QED
        BY <4>1, <4>2, <4>6
    <3>4. CASE ~(Len(s) < 2) /\ s[2] # 10
      <4>1. qpdrain(q, mk) = [atom |-> Tail(s), out |-> q.out \o qpquote(13)]
        BY <1>4, <1>6, <2>9, <3>4
      <4>2. Settled(q.atom) => Len(q.atom) = 1
        BY <2>13, <3>1
      <4>3. Unit(L, qpquote(13), <<q.atom[1]>>)
        BY <1>1, <2>1, <2>4, <3>1
      <4>4. q.atom # << >>
        BY <1>1, <1>6
      <4>5. Drained(L, r, q, [atom |-> Tail(q.atom), out |-> q.out \o qpquote(13)])
        BY <4>2, <4>3, <4>4, DrainEmits, Zenon
      <4>6. QED
        BY <1>1, <4>1, <4>5
    <3>5. QED
      BY <3>2, <3>3, <3>4
  <2>10. CASE k = "IF_LAST"
    <3>1. Blank(c) /\ k # "CR" /\ Unit(L, <<c>>, <<c>>)
      BY <2>3, <2>5, <2>10
    <3>2. CASE Len(s) < 3
      <4>1. qpdrain(q, mk) = q
        BY <1>4, <1>6, <2>10, <3>1, <3>2
      <4>2. Settled(q.atom)
        <5>1. Len(s) <= 2
          BY <2>2, <3>2
        <5>2. QED
          BY <1>1, <2>7, <3>1, <5>1
      <4>3. QED
        BY <4>1, <4>2, DrainStays
    <3>3. CASE ~(Len(s) < 3) /\ SubSeq(s, 2, 3) = CRLF
      <4>1. qpdrain(q, mk) = [atom |-> << >>, out |-> (q.out \o qpquote(c)) \o mk]
        BY <1>4, <1>6, <2>1, <2>10, <3>1, <3>3
      <4>2. (q.out \o qpquote(c)) \o mk = q.out \o (qpquote(c) \o mk)
        <5>1. PICK e : e = qpquote(c)
          OBVIOUS
        <5>2. e \in Strings
          BY <2>4, <5>1 DEF Unit, Means
        <5>3. PICK o : o = q.out
          OBVIOUS
        <5>4. o \in Strings /\ mk \in Strings
          BY <1>2, <5>3
        <5>5. (o \o e) \o mk = o \o (e \o mk)
          BY <5>2, <5>4, StringsConcat
        <5>6. QED
          BY <5>1, <5>3, <5>5
      <4>3. Len(s) = 3
        BY <2>2, <2>6, <3>3
      <4>4. s = <<c>> \o CRLF
        BY <1>2, <2>1, <3>3, <4>3, EndsInLine, Zenon
      <4>5. Begun(q.atom, <<c>> \o CRLF, << >>)
        <5>1. (<<c>> \o CRLF) \o << >> = <<c>> \o CRLF
          BY <2>8, StringsConcat
        <5>2. QED
          BY <1>1, <4>4, <5>1 DEF Begun
      <4>6. Unit(L, qpquote(c) \o mk, <<c>> \o CRLF)
        BY <2>4, UnitThen
      <4>7. Drained(L, r, q, [atom |-> << >>, out |-> q.out \o (qpquote(c) \o mk)])
        BY <4>5, <4>6, DrainEnds, Zenon
      <4>8. QED
        BY <4>1, <4>2, <4>7
    <3>4. CASE ~(Len(s) < 3) /\ SubSeq(s, 2, 3) # CRLF
      <4>1. qpdrain(q, mk) = [atom |-> Tail(s), out |-> q.out \o <<c>>]
        BY <1>4, <1>6, <2>1, <2>10, <3>1, <3>4
      <4>2. Settled(q.atom) => Len(q.atom) = 1
        <5>1. ~(Len(s) <= 2)
          BY <2>2, <3>4
        <5>2. QED
          BY <1>1, <2>7, <5>1
      <4>3. Unit(L, <<c>>, <<q.atom[1]>>) /\ q.atom # << >>
        BY <1>1, <1>6, <2>1, <3>1
      <4>5. Drained(L, r, q, [atom |-> Tail(q.atom), out |-> q.out \o <<c>>])
        BY <4>2, <4>3, DrainEmits, Zenon
      <4>6. QED
        BY <1>1, <4>1, <4>5
    <3>5. QED
      BY <3>2, <3>3, <3>4
  <2>11. CASE k # "CR" /\ k # "IF_LAST"
    <3>1. PICK t : t = IF k = "QUOTED" THEN qpquote(c) ELSE <<c>>
      BY Zenon
    <3>2. qpdrain(q, mk) = [atom |-> Tail(s), out |-> q.out \o t]
      BY <1>4, <1>6, <2>1, <2>11, <3>1
    <3>3. k = "QUOTED" \/ k = "PLAIN"
      BY <1>3, <2>1, <2>2, <2>11, QPClasses
    <3>4. Unit(L, t, <<q.atom[1]>>) /\ q.atom # << >>
      BY <1>1, <1>6, <2>1, <2>3, <2>4, <2>5, <3>1, <3>3
    <3>5. Settled(q.atom) => Len(q.atom) = 1
      BY <2>3, <2>11, <2>13
    <3>6. Drained(L, r, q, [atom |-> Tail(q.atom), out |-> q.out \o t])
      BY <3>4, <3>5, DrainEmits, Zenon
    <3>7. QED
      BY <1>1, <3>2, <3>6
  <2>12. QED
    BY <2>9, <2>10, <2>11
<1>7. QED
  BY <1>5, <1>6

(* A byte more, and as many turns as there are bytes.                      *)
QPOK(L, r, q) == Accounts(L, r, q) /\ Settled(q.atom)

LEMMA QPTurns ==
  ASSUME NEW L, L \in Nat, L >= 4, NEW mk, Unit(L, mk, CRLF), NEW r, NEW q, Accounts(L, r, q), Short(q.atom)
  PROVE  QPOK(L, r, Loop([a \in Held |-> [b \in Byte |-> qpdrain(a, mk)]], q, q.atom))
<1> DEFINE body == [a \in Held |-> [b \in Byte |-> qpdrain(a, mk)]]
           z(s) == Loop(body, q, s)
           P == {s \in Strings : /\ Accounts(L, r, z(s)) /\ Short(z(s).atom)
                                 /\ Settled(z(s).atom) \/ Len(z(s).atom) + Len(s) <= Len(q.atom)}
<1>1. \A a \in Held : \A b \in Byte : body[a][b] = qpdrain(a, mk)
  BY Zenon
<1>2. q.atom \in Strings /\ Len(q.atom) \in Nat
  BY DEF Accounts, Held, Strings
<1> HIDE DEF body
<1>3. << >> \in P
  <2>1. z(<< >>) = q
    BY LoopNone
  <2>2. << >> \in Strings /\ Len(<< >>) = 0
    BY Marks
  <2>3. Len(q.atom) + 0 <= Len(q.atom)
    BY <1>2
  <2> HIDE DEF z
  <2>4. QED
    BY <2>1, <2>2, <2>3
<1>4. ASSUME NEW s \in Strings, NEW c \in Byte, s \in P PROVE Append(s, c) \in P
  <2>1. PICK a : a = z(s)
    OBVIOUS
  <2>2. Accounts(L, r, a) /\ Short(a.atom) /\ (Settled(a.atom) \/ Len(a.atom) + Len(s) <= Len(q.atom))
    BY <1>4, <2>1
  <2>3. a \in Held /\ a.atom \in Strings
    BY <2>2 DEF Accounts, Held
  <2>4. z(Append(s, c)) = body[a][c]
    <3>1. s \in Seq(Byte)
      BY DEF Strings
    <3>2. QED
      BY <2>1, <3>1, LoopAppend
  <2>5. PICK d : d = qpdrain(a, mk)
    OBVIOUS
  <2>6. z(Append(s, c)) = d
    BY <1>1, <2>3, <2>4, <2>5
  <2>7. Drained(L, r, a, d)
    BY <2>2, <2>5, QPTurn, Zenon
  <2>8. Accounts(L, r, d) /\ Short(d.atom) /\ (Settled(d.atom) \/ Len(d.atom) < Len(a.atom))
        /\ (Settled(a.atom) => Settled(d.atom))
    BY <2>7 DEF Drained
  <2>9. Append(s, c) \in Strings /\ Len(Append(s, c)) = Len(s) + 1 /\ Len(s) \in Nat
    BY Appended, Zenon
  <2>10. Len(a.atom) \in Nat /\ Len(d.atom) \in Nat
    BY <2>3, <2>8 DEF Accounts, Held, Strings
  <2>11. ASSUME NEW i \in Nat, NEW j \in Nat, NEW k \in Nat, NEW n \in Nat, i < j, j + k <= n
         PROVE  i + (k + 1) <= n
    BY <2>11
  <2>12. ASSUME ~Settled(d.atom) PROVE Len(d.atom) + Len(Append(s, c)) <= Len(q.atom)
    <3>1. Len(d.atom) < Len(a.atom) /\ Len(a.atom) + Len(s) <= Len(q.atom)
      BY <2>2, <2>8, <2>12
    <3>2. Len(d.atom) + (Len(s) + 1) <= Len(q.atom)
      BY <1>2, <2>9, <2>10, <2>11, <3>1, Zenon
    <3>3. QED
      BY <2>9, <3>2, Zenon
  <2> HIDE DEF z
  <2>13. QED
    BY <2>6, <2>8, <2>9, <2>12, Zenon
<1> HIDE DEF P
<1>5. Seq(Byte) \subseteq P
  <2>1. Strings = Seq(Byte)
    BY DEF Strings
  <2>2. QED
    BY <1>3, <1>4, <2>1, SeqInd
<1>6. q.atom \in P
  BY <1>2, <1>5 DEF Strings
<1>7. PICK d : d = z(q.atom)
  OBVIOUS
<1>8. Accounts(L, r, d) /\ (Settled(d.atom) \/ Len(d.atom) + Len(q.atom) <= Len(q.atom))
  BY <1>6, <1>7, Zenon DEF P
<1>9. Settled(d.atom)
  <2>1. Len(d.atom) \in Nat
    BY <1>8 DEF Accounts, Held, Strings
  <2>2. ASSUME NEW i \in Nat, NEW n \in Nat, i + n <= n PROVE i <= 2 /\ i # 2
    BY <2>2
  <2>3. ASSUME Len(d.atom) + Len(q.atom) <= Len(q.atom) PROVE Len(d.atom) <= 2 /\ Len(d.atom) # 2
    BY <1>2, <2>1, <2>2, <2>3, Zenon
  <2>4. QED
    BY <1>8, <2>3, Zenon DEF Settled
<1>10. QED
  BY <1>7, <1>8, <1>9 DEF QPOK, body

LEMMA QuotedByte ==
  ASSUME NEW L, L \in Nat, L >= 4, NEW mk, Unit(L, mk, CRLF), NEW r, NEW q, QPOK(L, r, q),
         NEW c, c \in Byte, r \in Strings
  PROVE  QPOK(L, Append(r, c), qpencode(mk)[q][c])
<1>1. q \in Held /\ q.atom \in Strings /\ q.out \in Strings /\ Settled(q.atom)
  BY DEF QPOK, Accounts, Held
<1>2. PICK s : s = Append(q.atom, c)
  BY Zenon
<1>3. PICK z : z = [atom |-> s, out |-> q.out]
  BY Zenon
<1>4. /\ s \in Strings /\ Len(q.atom) \in Nat /\ Len(s) = Len(q.atom) + 1
      /\ \A i \in 1 .. Len(q.atom) : s[i] = q.atom[i]
  BY <1>1, <1>2, Appended, Zenon
<1>5. z \in Held /\ z.atom = s /\ z.out = q.out
  BY <1>1, <1>3, <1>4 DEF Held
<1>6. Accounts(L, Append(r, c), z)
  <2>1. PICK m \in Strings : r = m \o q.atom /\ Unit(L, q.out, m)
    BY Zenon DEF QPOK, Accounts
  <2>2. m \in Seq(Byte) /\ q.atom \in Seq(Byte)
    BY <1>1 DEF Strings
  <2>3. m \o Append(q.atom, c) = Append(m \o q.atom, c)
    BY <2>2, AppendToConcat
  <2>4. Append(r, c) = m \o z.atom
    BY <1>2, <1>5, <2>1, <2>3
  <2>5. QED
    BY <1>5, <2>1, <2>4, Zenon DEF Accounts
<1>7. Short(z.atom)
  <2>1. Len(q.atom) <= 2 /\ (Len(q.atom) = 2 => Blank(q.atom[1]))
    BY <1>1 DEF Settled
  <2>2. Len(s) <= 3 /\ (Len(s) = 3 => Len(q.atom) = 2)
    <3>1. ASSUME NEW n \in Nat, n <= 2 PROVE n + 1 <= 3 /\ (n + 1 = 3 => n = 2)
      BY <3>1
    <3>2. QED
      BY <1>4, <2>1, <3>1, Zenon
  <2>3. Len(q.atom) = 2 => s[1] = q.atom[1]
    <3>1. ASSUME Len(q.atom) = 2 PROVE s[1] = q.atom[1]
      <4>1. 1 \in 1 .. Len(q.atom)
        BY <3>1
      <4>2. QED
        BY <1>4, <4>1
    <3>2. QED
      BY <3>1
  <2>4. QED
    BY <1>5, <2>1, <2>2, <2>3 DEF Short
<1> DEFINE body == [a \in Held |-> [b \in Byte |-> qpdrain(a, mk)]]
<1>8. qpencode(mk)[q][c] = Loop(body, z, z.atom)
  <2>1. qpencode(mk)[q][c] = Loop(body, [atom |-> Append(q.atom, c), out |-> q.out], Append(q.atom, c))
    BY <1>1, Zenon DEF qpencode
  <2> HIDE DEF body
  <2>2. QED
    BY <1>2, <1>3, <1>5, <2>1
<1>9. QPOK(L, Append(r, c), Loop(body, z, z.atom))
  BY <1>6, <1>7, QPTurns, Zenon
<1>10. QED
  BY <1>8, <1>9

LEMMA QuotedText ==
  ASSUME NEW L, L \in Nat, L >= 4, NEW mk, Unit(L, mk, CRLF), NEW text, text \in Strings
  PROVE  QPOK(L, text, Loop(qpencode(mk), Nothing, text))
<1> DEFINE e(r) == Loop(qpencode(mk), Nothing, r)
           P == {r \in Strings : QPOK(L, r, e(r))}
<1>1. << >> \in P
  <2>1. e(<< >>) = Nothing
    BY LoopNone
  <2>2. Unit(L, << >>, << >>)
    BY UnitNone
  <2>3. << >> \in Strings /\ << >> \o << >> = << >>
    BY Marks, StringsConcat
  <2>4. Nothing \in Held /\ Nothing.atom = << >> /\ Nothing.out = << >> /\ Len(<< >>) = 0
    BY <2>3 DEF Nothing, Held
  <2> HIDE DEF e
  <2>5. Accounts(L, << >>, Nothing)
    BY <2>2, <2>3, <2>4 DEF Accounts
  <2>6. Settled(Nothing.atom)
    BY <2>4 DEF Settled
  <2>7. QED
    BY <2>1, <2>3, <2>5, <2>6 DEF QPOK
<1>2. ASSUME NEW r \in Strings, NEW c \in Byte, r \in P PROVE Append(r, c) \in P
  <2>1. PICK q : q = e(r)
    OBVIOUS
  <2>2. QPOK(L, r, q)
    BY <1>2, <2>1
  <2>3. e(Append(r, c)) = qpencode(mk)[q][c]
    <3>1. r \in Seq(Byte)
      BY DEF Strings
    <3>2. QED
      BY <2>1, <3>1, LoopAppend
  <2>4. QPOK(L, Append(r, c), qpencode(mk)[q][c])
    BY <2>2, QuotedByte
  <2>5. Append(r, c) \in Strings
    BY Appended, Zenon
  <2> HIDE DEF e
  <2>6. QED
    BY <2>3, <2>4, <2>5
<1> HIDE DEF P
<1>3. Seq(Byte) \subseteq P
  <2>1. Strings = Seq(Byte)
    BY DEF Strings
  <2>2. QED
    BY <1>1, <1>2, <2>1, SeqInd
<1>4. text \in P
  BY <1>3 DEF Strings
<1>5. QED
  BY <1>4 DEF P

(* The bytes that are still held at the end.                               *)
LEMMA QuotedPads ==
  ASSUME NEW L, L \in Nat, L >= 4, NEW atom, atom \in Strings
  PROVE  Unit(L, qppad(atom), atom)
<1> DEFINE piece(c) == IF qpclass[c] = "PLAIN" THEN <<c>> ELSE qpquote(c)
           pieces(s) == [i \in 1 .. Len(s) |-> piece(s[i])]
           P == {s \in Strings : Unit(L, Concat(pieces(s)), s)}
<1>1. ASSUME NEW c \in Byte PROVE Unit(L, piece(c), <<c>>) /\ piece(c) \in Strings
  <2>1. Unit(L, qpquote(c), <<c>>)
    BY UnitEscape
  <2>2. qpclass[c] = "PLAIN" => Unit(L, <<c>>, <<c>>)
    BY QPClasses, UnitPlain
  <2>3. Unit(L, piece(c), <<c>>)
    BY <2>1, <2>2
  <2> HIDE DEF piece
  <2>4. QED
    BY <2>3 DEF Unit, Means
<1>2. qppad(atom) = IF atom = << >> THEN << >> ELSE Concat(pieces(atom)) \o EQCRLF
  BY Zenon DEF qppad
<1> HIDE DEF piece
<1>3. << >> \in P
  <2>1. pieces(<< >>) = << >>
    OBVIOUS
  <2>2. Concat(pieces(<< >>)) = << >>
    BY <2>1, ConcatNone
  <2> HIDE DEF pieces
  <2>3. QED
    BY <2>2, Marks, UnitNone
<1>4. ASSUME NEW s \in Strings, NEW c \in Byte, s \in P PROVE Append(s, c) \in P
  <2>1. PICK t : t = Append(s, c)
    BY Zenon
  <2>2. /\ t \in Strings /\ Len(s) \in Nat /\ Len(t) = Len(s) + 1 /\ t[Len(s) + 1] = c
        /\ (\A i \in 1 .. Len(s) : t[i] = s[i] /\ s[i] \in Byte) /\ t = s \o <<c>>
    BY <2>1, Appended
  <2>3. PICK p : p = pieces(s)
    BY Zenon
  <2>4. PICK q : q = pieces(t)
    BY Zenon
  <2>5. p \in [1 .. Len(s) -> Strings]
    BY <1>1, <2>2, <2>3, Zenon
  <2>6. q \in [1 .. Len(s) + 1 -> Strings] /\ q[Len(s) + 1] = piece(c) /\ \A i \in 1 .. Len(s) : q[i] = p[i]
    <3>1. ASSUME NEW i \in 1 .. Len(s) + 1 PROVE t[i] \in Byte
      BY <2>2, <3>1 DEF Strings
    <3>2. q \in [1 .. Len(s) + 1 -> Strings]
      BY <1>1, <2>2, <2>4, <3>1, Zenon
    <3>3. Len(s) + 1 \in 1 .. Len(s) + 1
      BY <2>2
    <3>4. q[Len(s) + 1] = piece(c)
      BY <2>2, <2>4, <3>3
    <3>5. ASSUME NEW i \in 1 .. Len(s) PROVE q[i] = p[i]
      <4>1. i \in 1 .. Len(s) + 1
        BY <2>2
      <4>2. QED
        BY <2>2, <2>3, <2>4, <4>1
    <3>6. QED
      BY <3>2, <3>4, <3>5
  <2>7. Concat(q) = Concat(p) \o q[Len(s) + 1]
    BY <2>2, <2>5, <2>6, ConcatGrows, Zenon
  <2>8. Unit(L, Concat(p), s) /\ Unit(L, piece(c), <<c>>)
    BY <1>1, <1>4, <2>3
  <2>9. Unit(L, Concat(p) \o piece(c), s \o <<c>>)
    BY <2>8, UnitThen
  <2> HIDE DEF pieces
  <2>10. Unit(L, Concat(pieces(t)), t)
    BY <2>2, <2>4, <2>6, <2>7, <2>9, Zenon
  <2>11. QED
    BY <2>1, <2>2, <2>10
<1> HIDE DEF P
<1>5. Seq(Byte) \subseteq P
  <2>1. Strings = Seq(Byte)
    BY DEF Strings
  <2>2. QED
    BY <1>3, <1>4, <2>1, SeqInd
<1>6. Unit(L, Concat(pieces(atom)), atom)
  <2>1. atom \in P
    BY <1>5 DEF Strings
  <2>2. QED
    BY <2>1 DEF P
<1> HIDE DEF pieces
<1>7. Unit(L, Concat(pieces(atom)) \o EQCRLF, atom \o << >>)
  BY <1>6, UnitLine, UnitThen, Zenon
<1>8. atom \o << >> = atom
  BY StringsConcat
<1>9. CASE atom = << >>
  BY <1>2, <1>9, UnitNone
<1>10. CASE atom # << >>
  BY <1>2, <1>7, <1>8, <1>10
<1>11. QED
  BY <1>9, <1>10

-----------------------------------------------------------------------------
(* A call of the wrap and of the decoder, which holds nothing between the  *)
(* calls.                                                                  *)
Called(W, left, x, w) == w = Loop(W, [out |-> << >>, left |-> left], x)

LEMMA CallSends ==
  ASSUME NEW W, NEW D, NEW L, NEW lo, L \in Nat, lo \in Nat,
         NEW s, NEW left, LinesOK(s, left, L), left \in lo .. L,
         NEW x, NEW m, Means(W, D, L, x, << >>, lo, << >>, lo, m),
         NEW w, Called(W, left, x, w)
  PROVE  /\ w.out \in Strings /\ w.left \in lo .. L /\ LinesOK(s \o w.out, w.left, L)
         /\ Loop(D, Nothing, w.out) = [atom |-> << >>, out |-> m]
<1>1. PICK acc : acc = [out |-> << >>, left |-> left]
  BY Zenon
<1>2. s \in Strings /\ left \in Int /\ << >> \in Strings /\ m \in Strings
  BY Marks DEF LinesOK, Means
<1>3. acc \in Wrapped /\ acc.out = << >> /\ acc.left = left
  BY <1>1, <1>2 DEF Wrapped
<1>4. s \o << >> = s /\ << >> \o m = m
  BY <1>2, StringsConcat
<1>5. Loop(D, Nothing, << >>) = Nothing
  BY LoopNone
<1>6. Passed(D, L, s, acc, << >>, lo, << >>)
  BY <1>2, <1>3, <1>4, <1>5 DEF Passed, Nothing
<1>7. Passed(D, L, s, Loop(W, acc, x), << >>, lo, << >> \o m)
  BY <1>2, <1>3, <1>6, Zenon DEF Means
<1>8. Passed(D, L, s, w, << >>, lo, m)
  BY <1>1, <1>4, <1>7 DEF Called
<1>9. QED
  BY <1>8 DEF Passed, Wrapped

Is(a, b) == a = b

(* Base64: what has been sent of a text t and come back of it.             *)
Sent64(L, s, left, e, b, t) ==
  /\ e \in Strings /\ Len(e) <= 2
  /\ b \in Strings /\ t = b \o e
  /\ left \in 0 .. L /\ LinesOK(s, left, L)

LEMMA FedAgain ==
  ASSUME NEW t, NEW b, NEW e, NEW x, NEW m, NEW a,
         b \in Strings, e \in Strings, x \in Strings, m \in Strings, a \in Strings,
         Begun(t, b, e), Begun(e \o x, m, a)
  PROVE  t \o x = (b \o m) \o a /\ b \o m \in Strings
<1>1. (b \o e) \o x = b \o (e \o x)
  BY StringsConcat
<1>2. b \o (m \o a) = (b \o m) \o a
  BY StringsConcat
<1>3. b \o m \in Strings
  BY StringsConcat
<1>4. QED
  BY <1>1, <1>2, <1>3 DEF Begun

LEMMA Base64Feeds ==
  ASSUME NEW L, L \in Nat, L >= 1, NEW s, NEW left, NEW e, NEW b, NEW t, Sent64(L, s, left, e, b, t),
         NEW x, x \in Strings, NEW c, Is(c, b64(e, x)),
         NEW w, Is(w, wrp(left, c.out, L)), NEW d, Is(d, unb64(<< >>, w.out))
  PROVE  d.atom = << >> /\ Sent64(L, s \o w.out, w.left, c.atom, b \o d.out, t \o x)
<1>1. e \in Strings /\ b \in Strings /\ Begun(t, b, e) /\ left \in 0 .. L /\ LinesOK(s, left, L)
  BY DEF Sent64, Begun
<1>2. PICK y : y = e \o x
  BY Zenon
<1>3. y \in Strings
  BY <1>1, <1>2, StringsConcat
<1>4. Base64OK(L, y, c)
  BY <1>2, <1>3, Base64Text, Zenon DEF Is, b64
<1>5. c \in Held /\ c.atom \in Strings /\ Len(c.atom) <= 2
  BY <1>4 DEF Base64OK, Held
<1>6. PICK m \in Strings : y = m \o c.atom
                           /\ Means(wrpbyte(L), b64decode, L, c.out, << >>, 0, << >>, 0, m)
  BY <1>4, Zenon DEF Base64OK
<1>7. Called(wrpbyte(L), left, c.out, w)
  BY DEF Is, wrp, Called
<1>8. /\ w.out \in Strings /\ w.left \in 0 .. L /\ LinesOK(s \o w.out, w.left, L)
      /\ Loop(b64decode, Nothing, w.out) = [atom |-> << >>, out |-> m]
  <2>1. 0 \in Nat
    OBVIOUS
  <2>2. QED
    BY <1>1, <1>6, <1>7, <2>1, CallSends
<1>9. unb64(<< >>, w.out) = [atom |-> << >>, out |-> m]
  <2>1. << >> \o w.out = w.out
    BY <1>8, StringsConcat
  <2>2. QED
    BY <1>8, <2>1 DEF unb64
<1>10. Begun(e \o x, m, c.atom)
  BY <1>2, <1>6 DEF Begun
<1>11. t \o x = (b \o m) \o c.atom /\ b \o m \in Strings
  BY <1>1, <1>5, <1>6, <1>10, FedAgain, Zenon
<1>13. d.atom = << >> /\ d.out = m
  BY <1>9 DEF Is
<1>14. Sent64(L, s \o w.out, w.left, c.atom, b \o d.out, t \o x)
  BY <1>5, <1>8, <1>11, <1>13 DEF Sent64
<1>15. QED
  BY <1>13, <1>14

LEMMA Base64Closes ==
  ASSUME NEW L, L \in Nat, L >= 1, NEW s, NEW left, NEW e, NEW b, NEW t, Sent64(L, s, left, e, b, t),
         NEW w, Is(w, wrp(left, b64End(e), L)),
         NEW x, Is(x, w.out \o wrpEnd(w.left, L)), NEW d, Is(d, unb64(<< >>, x))
  PROVE  d.atom = << >> /\ Sent64(L, s \o x, L, << >>, b \o d.out, t)
<1>1. /\ e \in Strings /\ b \in Strings /\ t = b \o e /\ left \in 0 .. L /\ LinesOK(s, left, L)
      /\ Len(e) <= 2 /\ s \in Strings
  BY DEF Sent64, LinesOK
<1>2. Means(wrpbyte(L), b64decode, L, b64End(e), << >>, 0, << >>, 0, e)
  BY <1>1, Base64Pads DEF b64End
<1>3. Called(wrpbyte(L), left, b64End(e), w)
  BY DEF Is, wrp, Called
<1>4. /\ w.out \in Strings /\ w.left \in 0 .. L /\ LinesOK(s \o w.out, w.left, L)
      /\ Loop(b64decode, Nothing, w.out) = [atom |-> << >>, out |-> e]
  <2>1. 0 \in Nat
    OBVIOUS
  <2>2. QED
    BY <1>1, <1>2, <1>3, <2>1, CallSends
<1>5. PICK y : y = wrpEnd(w.left, L)
  OBVIOUS
<1>6. x = w.out \o y
  BY <1>5 DEF Is
<1>7. y = CRLF \/ (y = << >> /\ w.left = L)
  BY <1>4, <1>5 DEF wrpEnd
<1>8. y \in Strings /\ CRLF \in Strings /\ << >> \in Strings
  BY <1>7, Marks, Zenon
<1>9. (s \o w.out) \o y = s \o x /\ x \in Strings
  <2>1. PICK v : v = w.out
    OBVIOUS
  <2>2. v \in Strings
    BY <1>4, <2>1
  <2>3. (s \o v) \o y = s \o (v \o y) /\ v \o y \in Strings
    BY <1>1, <1>8, <2>2, StringsConcat
  <2>4. QED
    BY <1>6, <2>1, <2>3
<1>10. LinesOK(s \o x, L, L)
  <2>1. CASE y = CRLF
    <3>1. LinesOK((s \o w.out) \o CRLF, L, L)
      BY <1>4, LinesGrow
    <3>2. QED
      BY <1>9, <2>1, <3>1, Zenon
  <2>2. CASE y = << >> /\ w.left = L
    <3>1. s \o w.out \in Strings
      BY <1>4 DEF LinesOK
    <3>2. (s \o w.out) \o << >> = s \o w.out
      BY <3>1, StringsConcat
    <3>3. QED
      BY <1>4, <1>9, <2>2, <3>2, Zenon
  <2>3. QED
    BY <1>7, <2>1, <2>2
<1>11. PICK q : q = [atom |-> << >>, out |-> e]
  BY Zenon
<1>12. Loop(b64decode, q, y) = q
  <2>1. q \in Held
    BY <1>1, <1>8, <1>11 DEF Held
  <2>2. b64decode[q][13] = q /\ b64decode[q][10] = q
    BY <2>1, Base64Skips
  <2>3. Loop(b64decode, q, <<13>> \o <<10>>) = b64decode[Loop(b64decode, q, <<13>>)][10]
    BY Marks, LoopThen
  <2>4. Loop(b64decode, q, <<13>>) = b64decode[q][13]
    BY Marks, LoopOne
  <2>5. Loop(b64decode, q, CRLF) = q
    BY <2>2, <2>3, <2>4, Marks
  <2>6. Loop(b64decode, q, << >>) = q
    BY LoopNone
  <2>7. QED
    BY <1>7, <2>5, <2>6
<1>13. Loop(b64decode, Nothing, x) = q
  <2>1. PICK v : v = w.out
    OBVIOUS
  <2>2. v \in Seq(Byte) /\ y \in Seq(Byte)
    BY <1>4, <1>8, <2>1 DEF Strings
  <2>3. Loop(b64decode, Nothing, v \o y) = Loop(b64decode, Loop(b64decode, Nothing, v), y)
    BY <2>2, LoopConcat
  <2>4. QED
    BY <1>4, <1>6, <1>11, <1>12, <2>1, <2>3
<1>15. d.atom = << >> /\ d.out = e
  <2>1. << >> \o x = x
    BY <1>9, StringsConcat
  <2>2. QED
    BY <1>11, <1>13, <2>1 DEF Is, unb64
<1>16. b \o e \in Strings /\ t = (b \o e) \o << >> /\ Len(<< >>) = 0
  <2>1. b \o e \in Strings
    BY <1>1, StringsConcat
  <2>2. (b \o e) \o << >> = b \o e
    BY <2>1, StringsConcat
  <2>3. QED
    BY <1>1, <2>1, <2>2
<1>17. L \in 0 .. L
  OBVIOUS
<1>18. Sent64(L, s \o x, L, << >>, b \o d.out, t)
  BY <1>8, <1>10, <1>15, <1>16, <1>17 DEF Sent64
<1>19. QED
  BY <1>15, <1>18

(* The same of quoted-printable.                                           *)
SentQuoted(L, s, left, e, b, t) ==
  /\ e \in Strings /\ Settled(e)
  /\ b \in Strings /\ t = b \o e
  /\ left \in 1 .. L /\ LinesOK(s, left, L)

LEMMA QuotedFeeds ==
  ASSUME NEW L, L \in Nat, L >= 4, NEW s, NEW left, NEW e, NEW b, NEW t, SentQuoted(L, s, left, e, b, t),
         NEW mk, Unit(L, mk, CRLF),
         NEW x, x \in Strings, NEW c, Is(c, qp(e, x, mk)),
         NEW w, Is(w, qpwrp(left, c.out, L)), NEW d, Is(d, unqp(<< >>, w.out))
  PROVE  d.atom = << >> /\ SentQuoted(L, s \o w.out, w.left, c.atom, b \o d.out, t \o x)
<1>1. e \in Strings /\ b \in Strings /\ Begun(t, b, e) /\ left \in 1 .. L /\ LinesOK(s, left, L)
  BY DEF SentQuoted, Begun
<1>2. PICK y : y = e \o x
  BY Zenon
<1>3. y \in Strings
  BY <1>1, <1>2, StringsConcat
<1>4. QPOK(L, y, c)
  BY <1>2, <1>3, QuotedText, Zenon DEF Is, qp
<1>5. c \in Held /\ c.atom \in Strings /\ Settled(c.atom)
  BY <1>4 DEF QPOK, Accounts, Held
<1>6. PICK m \in Strings : y = m \o c.atom /\ Unit(L, c.out, m)
  BY <1>4, Zenon DEF QPOK, Accounts
<1>7. Called(qpwrpbyte(L), left, c.out, w)
  BY DEF Is, qpwrp, Called
<1>8. /\ w.out \in Strings /\ w.left \in 1 .. L /\ LinesOK(s \o w.out, w.left, L)
      /\ Loop(qpdecode, Nothing, w.out) = [atom |-> << >>, out |-> m]
  <2>1. 1 \in Nat
    OBVIOUS
  <2>2. Means(qpwrpbyte(L), qpdecode, L, c.out, << >>, 1, << >>, 1, m)
    BY <1>6 DEF Unit
  <2>3. QED
    BY <1>1, <1>7, <2>1, <2>2, CallSends
<1>9. unqp(<< >>, w.out) = [atom |-> << >>, out |-> m]
  <2>1. << >> \o w.out = w.out
    BY <1>8, StringsConcat
  <2>2. QED
    BY <1>8, <2>1 DEF unqp
<1>10. Begun(e \o x, m, c.atom)
  BY <1>2, <1>6 DEF Begun
<1>11. t \o x = (b \o m) \o c.atom /\ b \o m \in Strings
  BY <1>1, <1>5, <1>6, <1>10, FedAgain, Zenon
<1>13. d.atom = << >> /\ d.out = m
  BY <1>9 DEF Is
<1>14. SentQuoted(L, s \o w.out, w.left, c.atom, b \o d.out, t \o x)
  BY <1>5, <1>8, <1>11, <1>13 DEF SentQuoted
<1>15. QED
  BY <1>13, <1>14

LEMMA QuotedCloses ==
  ASSUME NEW L, L \in Nat, L >= 4, NEW s, NEW left, NEW e, NEW b, NEW t, SentQuoted(L, s, left, e, b, t),
         NEW w, Is(w, qpwrp(left, qpEnd(e), L)),
         NEW x, Is(x, w.out \o qpwrpEnd(w.left, L)), NEW d, Is(d, unqp(<< >>, x))
  PROVE  d.atom = << >> /\ SentQuoted(L, s \o x, L, << >>, b \o d.out, t)
<1>1. /\ e \in Strings /\ b \in Strings /\ t = b \o e /\ left \in 1 .. L /\ LinesOK(s, left, L)
      /\ s \in Strings
  BY Zenon DEF SentQuoted, LinesOK
<1>2. Means(qpwrpbyte(L), qpdecode, L, qpEnd(e), << >>, 1, << >>, 1, e)
  BY <1>1, QuotedPads DEF qpEnd, Unit
<1>3. Called(qpwrpbyte(L), left, qpEnd(e), w)
  BY DEF Is, qpwrp, Called
<1>4. /\ w.out \in Strings /\ w.left \in 1 .. L /\ LinesOK(s \o w.out, w.left, L)
      /\ Loop(qpdecode, Nothing, w.out) = [atom |-> << >>, out |-> e]
  <2>1. 1 \in Nat
    OBVIOUS
  <2>2. QED
    BY <1>1, <1>2, <1>3, <2>1, CallSends
<1>5. PICK y : y = qpwrpEnd(w.left, L)
  OBVIOUS
<1>6. x = w.out \o y
  BY <1>5 DEF Is
<1>7. y = EQCRLF \/ (y = << >> /\ w.left = L)
  BY <1>4, <1>5 DEF qpwrpEnd
<1>8. y \in Strings /\ EQCRLF \in Strings /\ << >> \in Strings
  BY <1>7, Marks, Zenon
<1>9. (s \o w.out) \o y = s \o x /\ x \in Strings
  <2>1. PICK v : v = w.out
    OBVIOUS
  <2>2. v \in Strings
    BY <1>4, <2>1
  <2>3. (s \o v) \o y = s \o (v \o y) /\ v \o y \in Strings
    BY <1>1, <1>8, <2>2, StringsConcat
  <2>4. QED
    BY <1>6, <2>1, <2>3
<1>10. LinesOK(s \o x, L, L)
  <2>1. CASE y = EQCRLF
    <3>1. PICK n : n = w.left
      OBVIOUS
    <3>2. n >= 1 /\ LinesOK(s \o w.out, n, L)
      BY <1>4, <3>1
    <3>3. LinesOK((s \o w.out) \o EQCRLF, L, L)
      BY <3>2, LinesGrow
    <3>4. QED
      BY <1>9, <2>1, <3>3, Zenon
  <2>2. CASE y = << >> /\ w.left = L
    <3>1. s \o w.out \in Strings
      BY <1>4 DEF LinesOK
    <3>2. (s \o w.out) \o << >> = s \o w.out
      BY <3>1, StringsConcat
    <3>3. QED
      BY <1>4, <1>9, <2>2, <3>2, Zenon
  <2>3. QED
    BY <1>7, <2>1, <2>2
<1>11. PICK q : q = [atom |-> << >>, out |-> e]
  BY Zenon
<1>12. Loop(qpdecode, q, y) = q
  <2>1. Loop(qpdecode, q, EQCRLF) = q
    BY <1>1, <1>11, QPBreaks, Zenon
  <2>2. Loop(qpdecode, q, << >>) = q
    BY LoopNone
  <2>3. QED
    BY <1>7, <2>1, <2>2
<1>13. Loop(qpdecode, Nothing, x) = q
  <2>1. PICK v : v = w.out
    OBVIOUS
  <2>2. v \in Seq(Byte) /\ y \in Seq(Byte)
    BY <1>4, <1>8, <2>1 DEF Strings
  <2>3. Loop(qpdecode, Nothing, v \o y) = Loop(qpdecode, Loop(qpdecode, Nothing, v), y)
    BY <2>2, LoopConcat
  <2>4. QED
    BY <1>4, <1>6, <1>11, <1>12, <2>1, <2>3
<1>15. d.atom = << >> /\ d.out = e
  <2>1. << >> \o x = x
    BY <1>9, StringsConcat
  <2>2. QED
    BY <1>11, <1>13, <2>1 DEF Is, unqp
<1>16. b \o e \in Strings /\ t = (b \o e) \o << >> /\ Len(<< >>) = 0
  <2>1. b \o e \in Strings
    BY <1>1, StringsConcat
  <2>2. (b \o e) \o << >> = b \o e
    BY <2>1, StringsConcat
  <2>3. QED
    BY <1>1, <2>1, <2>2
<1>17. L \in 1 .. L /\ Settled(<< >>)
  BY <1>16 DEF Settled
<1>18. SentQuoted(L, s \o x, L, << >>, b \o d.out, t)
  BY <1>8, <1>10, <1>15, <1>16, <1>17 DEF SentQuoted
<1>19. QED
  BY <1>15, <1>18

-----------------------------------------------------------------------------
(* The inductive invariant of the filters: in each pipe, what has come out *)
(* and what is held account for what has been put in.                      *)
FiltersTyped ==
  /\ pipe \in DOMAIN Alphabet /\ length \in LineLengths
  /\ marker \in Markers /\ (pipe = "quoted" => marker \in {CRLF, QuotedCRLF})
  /\ fed \in Strings /\ finished \in BOOLEAN

FiltersInv ==
  /\ FiltersTyped
  /\ pipe = "base64" => dec = << >> /\ Sent64(length, coded, wrap, enc, back, fed)
                        /\ (finished => enc = << >>)
  /\ pipe = "quoted" => dec = << >> /\ SentQuoted(length, coded, wrap, enc, back, fed)
                        /\ (finished => enc = << >>)
  /\ pipe = "eol" => EolOK(marker, coded, enc, fed)
  /\ pipe = "dot" => DotOK(coded, enc, fed)
  /\ pipe = "url" /\ finished => coded = url_encode(fed) /\ back = url_decode[coded]

LEMMA FiltersStart == ASSUME FiltersInit PROVE FiltersInv
<1>1. << >> \in Strings /\ << >> \o << >> = << >> /\ Len(<< >>) = 0
  BY Marks, StringsConcat
<1>2. length \in Nat /\ length >= 4
  BY FiltersAssumption DEF FiltersInit
<1>3. FiltersTyped
  BY <1>1, Zenon DEF FiltersInit, FiltersTyped
<1>4. LinesOK(<< >>, length, length)
  BY <1>2, LinesNone
<1>5. length \in 0 .. length /\ length \in 1 .. length
  BY <1>2
<1>6. ASSUME pipe = "base64"
      PROVE  dec = << >> /\ Sent64(length, coded, wrap, enc, back, fed) /\ (finished => enc = << >>)
  BY <1>1, <1>4, <1>5, <1>6 DEF FiltersInit, Sent64
<1>7. ASSUME pipe = "quoted"
      PROVE  dec = << >> /\ SentQuoted(length, coded, wrap, enc, back, fed) /\ (finished => enc = << >>)
  BY <1>1, <1>4, <1>5, <1>7 DEF FiltersInit, SentQuoted, Settled
<1>8. ASSUME pipe = "eol" PROVE EolOK(marker, coded, enc, fed)
  <2>1. marker \in Strings /\ coded = << >> /\ fed = << >> /\ enc = 0
    BY <1>8, FiltersAssumption DEF FiltersInit
  <2>2. Whole(marker, << >>, << >>)
    BY <2>1, WholeNone
  <2>3. Pending(0) = << >> /\ Marked(marker, 0) = << >>
    BY DEF Pending, Marked
  <2>4. QED
    BY <1>1, <2>1, <2>2, <2>3 DEF EolOK
<1>9. ASSUME pipe = "dot" PROVE DotOK(coded, enc, fed)
  <2>1. coded = << >> /\ fed = << >> /\ enc = 2
    BY <1>9 DEF FiltersInit
  <2>2. DotOK(<< >>, 2, << >>)
    <3>1. Unstuffed(<< >>) = << >>
      <4>1. PICK n : n = Len(<< >>)
        OBVIOUS
      <4>2. Unstuffed(<< >>) = Concat(<< >>)
        BY <1>1 DEF Unstuffed
      <4>3. QED
        BY <4>2, ConcatNone
    <3>2. Begins(<< >>) = {1}
      <4>1. EndsOf(<< >>) = {}
        BY <1>1 DEF EndsOf
      <4>2. QED
        BY <1>1, <4>1, BeginsAre
    <3>3. ~LastIs(<< >>, 13)
      BY DEF LastIs
    <3>4. QED
      BY <1>1, <3>1, <3>2, <3>3 DEF DotOK
  <2>3. QED
    BY <2>1, <2>2
<1>10. ~finished
  BY DEF FiltersInit
<1>11. QED
  BY <1>3, <1>6, <1>7, <1>8, <1>9, <1>10 DEF FiltersInv

LEMMA FiltersFeed ==
  ASSUME FiltersInv, NEW chunk, chunk \in Strings, Feed(chunk)
  PROVE  FiltersInv'
<1>1. FiltersTyped /\ ~finished /\ fed \in Strings
  BY DEF Feed, FiltersInv, FiltersTyped
<1>2. length \in Nat /\ length >= 4 /\ length >= 1
  BY <1>1, FiltersAssumption DEF FiltersTyped
<1>3. /\ fed' = fed \o chunk /\ pipe' = pipe /\ length' = length /\ marker' = marker
      /\ finished' = finished
  BY DEF Feed
<1>4. fed \o chunk \in Strings
  BY <1>1, StringsConcat
<1>5. FiltersTyped'
  BY <1>1, <1>3, <1>4 DEF FiltersTyped
<1>6. CASE FeedBase64(chunk)
  <2>1. PICK c : Is(c, b64(enc, chunk))
    BY DEF Is
  <2>2. PICK w : Is(w, wrp(wrap, c.out, length))
    BY DEF Is
  <2>3. pipe = "base64" /\ enc' = c.atom /\ wrap' = w.left /\ Transmit(w.out)
    BY <1>6, <2>1, <2>2 DEF Is, FeedBase64
  <2>4. dec = << >> /\ Sent64(length, coded, wrap, enc, back, fed)
    BY <2>3 DEF FiltersInv
  <2>5. PICK d : Is(d, unb64(<< >>, w.out))
    BY DEF Is
  <2>6. coded' = coded \o w.out /\ back' = back \o d.out /\ dec' = d.atom
    BY <2>3, <2>4, <2>5 DEF Is, Transmit
  <2>7. /\ d.atom = << >>
        /\ Sent64(length, coded \o w.out, w.left, c.atom, back \o d.out, fed \o chunk)
    BY <1>2, <2>1, <2>2, <2>4, <2>5, Base64Feeds
  <2>8. dec' = << >> /\ Sent64(length', coded', wrap', enc', back', fed')
    BY <1>3, <2>3, <2>6, <2>7
  <2>9. QED
    BY <1>1, <1>3, <1>5, <2>3, <2>8 DEF FiltersInv
<1>7. CASE FeedQuoted(chunk)
  <2>1. PICK c : Is(c, qp(enc, chunk, marker))
    BY DEF Is
  <2>2. PICK w : Is(w, qpwrp(wrap, c.out, length))
    BY DEF Is
  <2>3. pipe = "quoted" /\ enc' = c.atom /\ wrap' = w.left /\ Transmit(w.out)
    BY <1>7, <2>1, <2>2 DEF Is, FeedQuoted
  <2>4. dec = << >> /\ SentQuoted(length, coded, wrap, enc, back, fed)
    BY <2>3 DEF FiltersInv
  <2>5. PICK d : Is(d, unqp(<< >>, w.out))
    BY DEF Is
  <2>6. coded' = coded \o w.out /\ back' = back \o d.out /\ dec' = d.atom
    BY <2>3, <2>4, <2>5 DEF Is, Transmit
  <2>0. Unit(length, marker, CRLF)
    <3>1. marker = CRLF \/ marker = QuotedCRLF
      BY <1>1, <2>3 DEF FiltersTyped
    <3>2. QED
      BY <1>2, <3>1, UnitLine, UnitMarker
  <2>7. /\ d.atom = << >>
        /\ SentQuoted(length, coded \o w.out, w.left, c.atom, back \o d.out, fed \o chunk)
    BY <1>2, <2>0, <2>1, <2>2, <2>4, <2>5, QuotedFeeds
  <2>8. dec' = << >> /\ SentQuoted(length', coded', wrap', enc', back', fed')
    BY <1>3, <2>3, <2>6, <2>7
  <2>9. QED
    BY <1>1, <1>3, <1>5, <2>3, <2>8 DEF FiltersInv
<1>8. CASE FeedEol(chunk)
  <2>1. PICK c : c = eol(enc, chunk, marker)
    OBVIOUS
  <2>2. pipe = "eol" /\ enc' = c.last /\ coded' = coded \o c.out
    BY <1>8, <2>1 DEF FeedEol
  <2>3. EolOK(marker, coded, enc, fed)
    BY <2>2 DEF FiltersInv
  <2>4. EolOK(marker, coded \o c.out, c.last, fed \o chunk)
    BY <2>1, <2>3, EolLoop
  <2>5. EolOK(marker', coded', enc', fed')
    BY <1>3, <2>2, <2>4
  <2>6. QED
    BY <1>1, <1>3, <1>5, <2>2, <2>5 DEF FiltersInv
<1>9. CASE FeedDot(chunk)
  <2>1. PICK c : c = dot(enc, chunk)
    OBVIOUS
  <2>2. pipe = "dot" /\ enc' = c.state /\ coded' = coded \o c.out
    BY <1>9, <2>1 DEF FeedDot
  <2>3. DotOK(coded, enc, fed)
    BY <2>2 DEF FiltersInv
  <2>4. DotOK(coded \o c.out, c.state, fed \o chunk)
    BY <2>1, <2>3, DotLoop
  <2>5. DotOK(coded', enc', fed')
    BY <1>3, <2>2, <2>4
  <2>6. QED
    BY <1>1, <1>3, <1>5, <2>2, <2>5 DEF FiltersInv
<1>10. CASE pipe = "url" /\ UNCHANGED <<enc, wrap, dec, coded, back>>
  BY <1>1, <1>3, <1>5, <1>10 DEF FiltersInv
<1>11. QED
  BY <1>6, <1>7, <1>8, <1>9, <1>10 DEF Feed

LEMMA FiltersEnd ==
  ASSUME FiltersInv, End
  PROVE  FiltersInv'
<1>1. FiltersTyped
  BY DEF FiltersInv
<1>2. length \in Nat /\ length >= 4 /\ length >= 1
  BY <1>1, FiltersAssumption DEF FiltersTyped
<1>3. /\ fed' = fed /\ pipe' = pipe /\ length' = length /\ marker' = marker
      /\ finished' = TRUE
  BY DEF End
<1>4. FiltersTyped'
  BY <1>1, <1>3 DEF FiltersTyped
<1>5. CASE EndBase64
  <2>1. PICK w : Is(w, wrp(wrap, b64End(enc), length))
    BY DEF Is
  <2>2. PICK x : Is(x, w.out \o wrpEnd(w.left, length))
    BY Zenon DEF Is
  <2>3. pipe = "base64" /\ enc' = << >> /\ wrap' = length /\ Transmit(x)
    BY <1>5, <2>1, <2>2 DEF Is, EndBase64
  <2>4. dec = << >> /\ Sent64(length, coded, wrap, enc, back, fed)
    BY <2>3 DEF FiltersInv
  <2>5. PICK d : Is(d, unb64(<< >>, x))
    BY DEF Is
  <2>6. coded' = coded \o x /\ back' = back \o d.out /\ dec' = d.atom
    BY <2>3, <2>4, <2>5 DEF Is, Transmit
  <2>7. d.atom = << >> /\ Sent64(length, coded \o x, length, << >>, back \o d.out, fed)
    BY <1>2, <2>1, <2>2, <2>4, <2>5, Base64Closes
  <2>8. dec' = << >> /\ Sent64(length', coded', wrap', enc', back', fed')
    BY <1>3, <2>3, <2>6, <2>7
  <2>9. QED
    BY <1>3, <1>4, <2>3, <2>8 DEF FiltersInv
<1>6. CASE EndQuoted
  <2>1. PICK w : Is(w, qpwrp(wrap, qpEnd(enc), length))
    BY DEF Is
  <2>2. PICK x : Is(x, w.out \o qpwrpEnd(w.left, length))
    BY DEF Is
  <2>3. pipe = "quoted" /\ enc' = << >> /\ wrap' = length /\ Transmit(x)
    BY <1>6, <2>1, <2>2 DEF Is, EndQuoted
  <2>4. dec = << >> /\ SentQuoted(length, coded, wrap, enc, back, fed)
    BY <2>3 DEF FiltersInv
  <2>5. PICK d : Is(d, unqp(<< >>, x))
    BY DEF Is
  <2>6. coded' = coded \o x /\ back' = back \o d.out /\ dec' = d.atom
    BY <2>3, <2>4, <2>5 DEF Is, Transmit
  <2>7. d.atom = << >> /\ SentQuoted(length, coded \o x, length, << >>, back \o d.out, fed)
    BY <1>2, <2>1, <2>2, <2>4, <2>5, QuotedCloses
  <2>8. dec' = << >> /\ SentQuoted(length', coded', wrap', enc', back', fed')
    BY <1>3, <2>3, <2>6, <2>7
  <2>9. QED
    BY <1>3, <1>4, <2>3, <2>8 DEF FiltersInv
<1>7. CASE EndText
  <2>1. pipe \in {"eol", "dot"} /\ enc' = enc /\ coded' = coded
    BY <1>7 DEF EndText
  <2>2. QED
    BY <1>3, <1>4, <2>1 DEF FiltersInv
<1>8. CASE EndUrl
  <2>1. pipe = "url" /\ coded' = url_encode(fed) /\ back' = url_decode[coded']
    BY <1>8 DEF EndUrl
  <2>2. coded' = url_encode(fed') /\ back' = url_decode[coded']
    BY <1>3, <2>1
  <2>3. QED
    BY <1>3, <1>4, <2>1, <2>2 DEF FiltersInv
<1>9. QED
  BY <1>5, <1>6, <1>7, <1>8 DEF End

THEOREM FiltersInvariance == FiltersSpec => []FiltersInv
<1>1. FiltersInit => FiltersInv
  BY FiltersStart
<1>2. FiltersInv /\ [FiltersNext]_filterVars => FiltersInv'
  <2> SUFFICES ASSUME FiltersInv, [FiltersNext]_filterVars PROVE FiltersInv'
    OBVIOUS
  <2>1. ASSUME NEW n \in 1 .. Chunk, NEW chunk \in [1 .. n -> Alphabet[pipe]], Feed(chunk)
        PROVE  FiltersInv'
    <3>1. Alphabet[pipe] \subseteq Byte
      BY FiltersAssumption DEF FiltersInv, FiltersTyped
    <3>2. n \in Nat
      BY FiltersAssumption
    <3>3. chunk \in [1 .. n -> Byte]
      BY <3>1
    <3>4. chunk \in Strings
      BY <3>2, <3>3 DEF Strings
    <3>5. QED
      BY <2>1, <3>4, FiltersFeed
  <2>2. CASE End
    BY <2>2, FiltersEnd
  <2>3. CASE UNCHANGED filterVars
    <3>1. /\ pipe' = pipe /\ length' = length /\ marker' = marker /\ fed' = fed /\ enc' = enc
          /\ wrap' = wrap /\ dec' = dec /\ coded' = coded /\ back' = back /\ finished' = finished
      BY <2>3 DEF filterVars
    <3>2. FiltersTyped'
      BY <3>1 DEF FiltersInv, FiltersTyped
    <3>3. QED
      BY <3>1, <3>2 DEF FiltersInv
  <2>4. QED
    BY <2>1, <2>2, <2>3 DEF FiltersNext
<1>3. QED
  BY <1>1, <1>2, PTL DEF FiltersSpec

LEMMA PrefixOf ==
  ASSUME NEW b, NEW e, b \in Strings, e \in Strings
  PROVE  IsPrefix(b, b \o e)
<1>1. b \in Seq(Byte) /\ e \in Seq(Byte)
  BY DEF Strings
<1>2. PICK t : t = b \o e
  BY Zenon
<1>3. /\ b \o e \in Seq(Byte) /\ Len(b \o e) = Len(b) + Len(e)
      /\ \A i \in 1 .. Len(b) + Len(e) : (b \o e)[i] = IF i <= Len(b) THEN b[i] ELSE e[i - Len(b)]
  BY <1>1, ConcatProperties
<1>4. Len(b) \in Nat /\ Len(e) \in Nat
  BY <1>1
<1>5. /\ t \in Seq(Byte) /\ Len(t) = Len(b) + Len(e) /\ Len(b) <= Len(t)
      /\ \A i \in 1 .. Len(b) : t[i] = b[i] /\ b[i] \in Byte
  <2>1. ASSUME NEW i \in 1 .. Len(b) PROVE t[i] = b[i] /\ b[i] \in Byte
    <3>1. i \in 1 .. Len(b) + Len(e) /\ i <= Len(b)
      BY <1>4
    <3>2. t[i] = b[i]
      BY <1>2, <1>3, <3>1
    <3>3. QED
      BY <1>1, <3>2, ElementOfSeq
  <2>2. QED
    BY <1>2, <1>3, <1>4, <2>1
<1>6. PICK n : n = Len(b)
  BY Zenon
<1>7. n \in Nat /\ 1 \in Int /\ n \in Int
  BY <1>4, <1>6
<1>8. PICK x : x = SubSeq(b, 1, n)
  BY Zenon
<1>9. PICK y : y = SubSeq(t, 1, n)
  BY Zenon
<1>10. x \in Seq(Byte) /\ Len(x) = (IF 1 <= n THEN n - 1 + 1 ELSE 0) /\ \A i \in 1 .. n - 1 + 1 : x[i] = b[1 + i - 1]
  BY <1>5, <1>6, <1>7, <1>8, SubSeqProperties
<1>11. y \in Seq(Byte) /\ Len(y) = (IF 1 <= n THEN n - 1 + 1 ELSE 0) /\ \A i \in 1 .. n - 1 + 1 : y[i] = t[1 + i - 1]
  BY <1>5, <1>6, <1>7, <1>9, SubSeqProperties
<1>12. Len(x) = n /\ Len(y) = n
  BY <1>7, <1>10, <1>11
<1>13. ASSUME NEW i \in 1 .. n PROVE x[i] = y[i]
  <2>1. i \in 1 .. n - 1 + 1 /\ 1 + i - 1 = i
    BY <1>7
  <2>2. x[i] = b[i] /\ y[i] = t[i]
    BY <1>10, <1>11, <2>1
  <2>3. QED
    BY <1>5, <1>6, <2>2
<1>14. x = y
  BY <1>10, <1>11, <1>12, <1>13, SeqEqual
<1>15. IsPrefix(b, t)
  BY <1>5, <1>6, <1>8, <1>9, <1>14 DEF IsPrefix
<1>16. QED
  BY <1>2, <1>15

LEMMA LineEndingsAre == ASSUME coded \in Strings PROVE LineEndings = EndsOf(coded)
<1>1. ASSUME NEW i \in 2 .. Len(coded)
      PROVE  <<coded[i - 1], coded[i]>> = CRLF <=> coded[i - 1] = 13 /\ coded[i] = 10
  <2>1. PICK x : x = coded[i - 1]
    OBVIOUS
  <2>2. PICK y : y = coded[i]
    OBVIOUS
  <2>3. <<x, y>> = <<13, 10>> <=> x = 13 /\ y = 10
    OBVIOUS
  <2>4. QED
    BY <2>1, <2>2, <2>3 DEF CRLF, ByteCR, ByteLF
<1>2. QED
  BY <1>1, Zenon DEF LineEndings, EndsOf

LEMMA FiltersInvCodes == ASSUME FiltersInv PROVE CodingIsExact
<1>1. ASSUME pipe \in {"base64", "quoted"}
      PROVE  /\ back \in Strings /\ enc \in Strings /\ fed = back \o enc
             /\ LinesOK(coded, wrap, length)
             /\ finished => enc = << >>
  BY <1>1 DEF FiltersInv, Sent64, SentQuoted
<1>2. ASSUME pipe \in {"base64", "quoted"}
      PROVE  /\ IsPrefix(back, fed)
             /\ finished => back = fed
             /\ \A i \in {0} \union LineEndings :
                  Min({j \in LineEndings : j > i} \union {Len(coded) + 2}) - i - 2 <= length
  <2>1. IsPrefix(back, fed)
    BY <1>1, <1>2, PrefixOf, Zenon
  <2>2. finished => back = fed
    <3>1. back \o << >> = back
      BY <1>1, <1>2, StringsConcat
    <3>2. QED
      BY <1>1, <1>2, <3>1, Zenon
  <2>3. coded \in Strings
    BY <1>1, <1>2 DEF LinesOK
  <2>4. LineEndings = EndsOf(coded)
    BY <2>3, LineEndingsAre
  <2>5. \A i \in {0} \union EndsOf(coded) :
          Min({j \in EndsOf(coded) : j > i} \union {Len(coded) + 2}) - i - 2 <= length
    BY <1>1, <1>2, LinesBound
  <2>6. QED
    BY <2>1, <2>2, <2>4, <2>5
<1>3. ASSUME pipe = "url", finished
      PROVE  /\ back = CString(fed)
             /\ \A i \in DOMAIN coded : coded[i] \notin Reserved \ {37}
  <2>1. fed \in Strings /\ coded = url_encode(fed) /\ back = url_decode[coded]
    BY <1>3 DEF FiltersInv, FiltersTyped
  <2>2. QED
    BY <2>1, UrlIsExact
<1>4. QED
  BY <1>2, <1>3 DEF CodingIsExact

LEMMA FiltersInvWires == ASSUME FiltersInv PROVE WireIsText
<1>1. ASSUME pipe = "eol" PROVE coded = Uniform[fed]
  <2>1. EolOK(marker, coded, enc, fed)
    BY <1>1 DEF FiltersInv
  <2>2. coded = Uni(marker)[fed]
    BY <2>1, EolUniform
  <2>3. QED
    BY <2>2, UniformIsUni
<1>2. ASSUME pipe = "dot"
      PROVE  /\ Unstuffed(coded) = fed
             /\ \A i \in Begins(coded) : ~IsPrefix(<<46, 13, 10>>, SubSeq(coded, i, Len(coded)))
  <2>1. DotOK(coded, enc, fed)
    BY <1>2 DEF FiltersInv
  <2>2. Unstuffed(coded) = fed
    BY <2>1 DEF DotOK
  <2>3. QED
    BY <2>1, <2>2, DotNeverEnds
<1>3. QED
  BY <1>1, <1>2 DEF WireIsText

(* Every codec gives back what it was given, for every text, line length,  *)
(* marker and cutting into chunks: see FiltersAreExact.                    *)
THEOREM FiltersAreExactHolds == FiltersSpec => []FiltersAreExact
<1>1. FiltersInv => FiltersAreExact
  BY FiltersInvCodes, FiltersInvWires DEF FiltersAreExact
<1>2. QED
  BY <1>1, FiltersInvariance, PTL
=============================================================================
