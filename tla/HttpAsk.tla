------------------------------ MODULE HttpAsk ------------------------------
(***************************************************************************)
(* One call of cutils.http (cutils.c): connect to the addresses of a host  *)
(* in turn, send the request, receive the answer into a buffer that starts *)
(* on the stack and is moved to ever larger blocks, and stop at the length *)
(* its head declares.  Bytes are counted; of an answer's text it matters   *)
(* where its head ends and where the name of the length occurs.  The       *)
(* kernel and the peer are external.                                       *)
(***************************************************************************)
EXTENDS Integers, FiniteSets

CONSTANTS
  MaxAddrs,          \* addresses a host name has
  AskSize,           \* bytes of the request
  Answers,           \* what a peer may answer: head, body, fields
  Stray,             \* numbers read where the text declares no length
  DEFAULT_RECV_SIZE, \* bytes of the buffer on the stack
  SLACK,             \* room below which the buffer grows
  Limits             \* the values of max_content_length

(* An occurrence of the length's name in the text, in one of the spellings *)
(* the code knows, numbered in the order it looks for them: how many bytes *)
(* of the answer hold the name, the name and the end of a line after it,   *)
(* and the name and the number after the first blank that follows it,      *)
(* which may be in a later line or in the body; and the int that number is *)
(* read as.                                                                *)
Field == [spelling : 1 .. 4, name : Nat, line : Nat, number : Nat, value : Int]

ASSUME AskAssumption ==
  /\ MaxAddrs \in Nat \ {0} /\ AskSize \in Nat
  /\ DEFAULT_RECV_SIZE \in Nat /\ SLACK \in 1 .. DEFAULT_RECV_SIZE - 1
  /\ \A a \in Answers :
       /\ a.head \in Nat /\ a.body \in Nat
       /\ \A f \in a.fields : f \in Field /\ f.name <= f.line /\ f.name <= f.number
       /\ \A f, g \in a.fields : f.name = g.name => f = g
  /\ Stray \subseteq Int
  /\ Limits \subseteq Nat

VARIABLES
  at,       \* where the call is
  addrs,    \* addresses still to be tried
  rule,     \* rule and max_content_length
  limit,
  sock,     \* the descriptor is open
  ioSize,   \* io_size: bytes sent, then bytes received
  headSize, \* head_size and body_size, 0 until known
  bodySize,
  seen,     \* history: bytes there when the head was found
  overread, \* history: a search ran past the end of a full buffer
  block,    \* p_now: 0 for the stack, else the number of the heap block
  maxSize,  \* max_size
  heap,     \* blocks allocated and not freed
  answer,   \* the peer's whole answer
  peerSent, \* how much of it has arrived
  peerEnd,  \* "open", "closed" or "reset"
  result    \* what the call has returned

sizeVars == <<headSize, bodySize, seen, overread>>
peerVars == <<answer, peerSent, peerEnd>>
askVars == <<at, addrs, rule, limit, sock, ioSize, headSize, bodySize, seen, overread,
             block, maxSize, heap, answer, peerSent, peerEnd, result>>

AskInit ==
  /\ at = "connect"
  /\ addrs \in 1 .. MaxAddrs
  /\ rule \in BOOLEAN
  /\ limit \in Limits
  /\ sock = FALSE
  /\ ioSize = 0 /\ headSize = 0 /\ bodySize = 0 /\ seen = 0 /\ overread = FALSE
  /\ block = 0 /\ maxSize = DEFAULT_RECV_SIZE /\ heap = {}
  /\ answer \in Answers /\ peerSent = 0 /\ peerEnd = "open"
  /\ result = "none"

-----------------------------------------------------------------------------
(* The head's end is known once it is there.  A buffer that recv filled    *)
(* has no NUL: while the end is not in it, strstr runs on and may find one *)
(* in the memory behind it.                                                *)
HeadIn(a, n) == a.head > 0 /\ n >= a.head

HeadLength(a, n, full) ==
  IF HeadIn(a, n) THEN {a.head}
  ELSE {0} \union (IF full THEN {n + k : k \in {s \in Stray : s > 0}} ELSE {})

(* What strstr finds in n bytes: of the spellings that occur there, in the *)
(* head or in the body, the one looked for first, where it occurs first.   *)
Before(f, g) ==
  f.spelling < g.spelling \/ (f.spelling = g.spelling /\ f.name < g.name)

Found(a, n) ==
  {f \in a.fields : f.name <= n /\ ~\E g \in a.fields : g.name <= n /\ Before(g, f)}

(* 0 without the end of a line; a number whose blank or digits have not    *)
(* all come is read as 0 or in part.                                       *)
Reads(f, n) ==
  IF n < f.line THEN {0} ELSE IF n < f.number THEN Stray \union {0} ELSE {f.value}

(* One of the searches of a full buffer runs on, unless each finds what it *)
(* looks for.                                                              *)
RunsOn(a, n) == ~\E f \in Found(a, n) : f.spelling = 1 /\ n >= f.line /\ n >= f.number

(* http_get_body_length                                                    *)
BodyLength(a, n, full) ==
  (UNION {Reads(f, n) : f \in Found(a, n)})
  \union (IF Found(a, n) = {} THEN {0} ELSE {})
  \union (IF full /\ RunsOn(a, n) THEN Stray ELSE {})

(* Mutant: the head's own bytes are taken for bytes of the body.           *)
CompleteByBody(size, head, body) == rule /\ head > 0 /\ body >= 0 /\ size >= body

(* recv finished: the sum of the ints is compared as a size_t, so that a   *)
(* negative one is never reached.                                          *)
Complete(size, head, body) == rule /\ head > 0 /\ head + body >= 0 /\ size >= head + body

(* Every error closes the socket and frees the block.                      *)
AskFails(err) ==
  /\ at' = "done" /\ result' = err /\ sock' = FALSE
  /\ heap' = heap \ {block}

(* After the loop: what is on the stack moves to a block; http_request_C   *)
(* frees it when it is given something.                                    *)
AskAnswered(size) ==
  \/ /\ at' = "done" /\ sock' = FALSE
     /\ result' = IF size > 0 THEN "ok" ELSE "unknow error"
     /\ block' = IF block = 0 THEN 1 ELSE block
     /\ heap' = IF size > 0 THEN heap \ {block'} ELSE heap \cup {block'}
  \/ /\ block = 0
     /\ AskFails("no more memory")
     /\ UNCHANGED block

-----------------------------------------------------------------------------
(* _connect_server, one address: a socket that cannot be made, set up or   *)
(* connected is closed, and the next address is tried.                     *)
AskConnect ==
  /\ at = "connect"
  /\ \/ at' = "send" /\ sock' = TRUE /\ UNCHANGED <<addrs, heap, result>>
     \/ /\ addrs' = addrs - 1
        /\ IF addrs' = 0 THEN AskFails("connect failed")
           ELSE UNCHANGED <<at, sock, heap, result>>
  /\ UNCHANGED <<rule, limit, ioSize, sizeVars, block, maxSize, peerVars>>

(* send; with all of it sent, the receive timeout is set.                  *)
AskSend ==
  /\ at = "send"
  /\ \/ /\ ioSize < AskSize
        /\ \/ \E k \in 1 .. AskSize - ioSize :
                ioSize' = ioSize + k /\ UNCHANGED <<at, sock, heap, result>>
           \/ AskFails("send fail") /\ UNCHANGED ioSize
     \/ /\ ioSize = AskSize
        /\ ioSize' = 0
        /\ \/ at' = "recv" /\ UNCHANGED <<sock, heap, result>>
           \/ AskFails("no recv timeout")
  /\ UNCHANGED <<addrs, rule, limit, sizeVars, block, maxSize, peerVars>>

(* calloc of a block twice as large: the old block is not freed.           *)
GrowBlock ==
  \/ /\ block' = block + 1
     /\ heap' = heap \cup {block'}
     /\ maxSize' = 2 * maxSize
     /\ UNCHANGED <<at, sock, result>>
  \/ AskFails("no more memory") /\ UNCHANGED <<block, maxSize>>

(* The head is looked for until it is found, and then the length.          *)
LookForHead(size) ==
  LET full == size = maxSize
  IN
  IF rule /\ headSize = 0
  THEN /\ headSize' \in HeadLength(answer, size, full)
       /\ bodySize' \in IF headSize' = 0 THEN {0} ELSE BodyLength(answer, size, full)
       /\ seen' = IF headSize' = 0 THEN 0 ELSE size
       /\ overread' = (overread \/ (full /\ (~HeadIn(answer, size) \/ RunsOn(answer, size))))
  ELSE UNCHANGED sizeVars

TooLong == headSize = 0 /\ headSize' > 0 /\ limit > 0 /\ bodySize' >= limit

(* One pass of the loop, after a recv that gave k bytes.                   *)
AskRecv(k) ==
  /\ at = "recv"
  /\ k <= peerSent - ioSize /\ k <= maxSize - ioSize
  /\ LET size == ioSize + k
     IN /\ ioSize' = size
        /\ LookForHead(size)
        /\ CASE TooLong -> AskFails("no more memory") /\ UNCHANGED <<block, maxSize>>
             [] ~TooLong /\ Complete(size, headSize', bodySize') ->
                  AskAnswered(size) /\ UNCHANGED maxSize
             [] OTHER ->
                  IF size + SLACK >= maxSize THEN GrowBlock
                  ELSE UNCHANGED <<at, sock, result, block, heap, maxSize>>
  /\ UNCHANGED <<addrs, rule, limit, peerVars>>

(* recv tells that the peer has ended: what there is, is the answer.       *)
AskPeerEnded ==
  /\ at = "recv"
  /\ peerEnd # "open" /\ ioSize = peerSent
  /\ AskAnswered(ioSize)
  /\ UNCHANGED <<addrs, rule, limit, ioSize, sizeVars, maxSize, peerVars>>

(* Nothing came for the whole receive timeout.                             *)
AskTimesOut ==
  /\ at = "recv"
  /\ peerEnd = "open" /\ ioSize = peerSent
  /\ AskFails("time out")
  /\ UNCHANGED <<addrs, rule, limit, ioSize, sizeVars, block, maxSize, peerVars>>

PeerAnswers ==
  /\ at = "recv" /\ peerEnd = "open"
  /\ \E k \in 1 .. answer.head + answer.body - peerSent : peerSent' = peerSent + k
  /\ UNCHANGED <<at, addrs, rule, limit, sock, ioSize, sizeVars, block, maxSize,
                 heap, answer, peerEnd, result>>

PeerCloses ==
  /\ at = "recv" /\ peerEnd = "open"
  /\ peerEnd' \in {"closed", "reset"}
  /\ UNCHANGED <<at, addrs, rule, limit, sock, ioSize, sizeVars, block, maxSize,
                 heap, answer, peerSent, result>>

AskNext ==
  \/ AskConnect \/ AskSend
  \/ \E k \in 1 .. peerSent - ioSize : AskRecv(k)
  \/ AskPeerEnded \/ AskTimesOut
  \/ PeerAnswers \/ PeerCloses

AskSpec == AskInit /\ [][AskNext]_askVars
-----------------------------------------------------------------------------
(* A length that the head declares, in a line with a blank before it; and  *)
(* what of the text that had come with the head was found in its place:    *)
(* another spelling, in the head or in the body.                           *)
Declared(a) == {f \in a.fields : f.number <= f.line /\ f.line <= a.head}
Hidden(a, f) == \E g \in a.fields : g.name <= seen /\ Before(g, f)

HeadIsThere == HeadIn(answer, ioSize)

WholeAsDeclared ==
  /\ rule /\ HeadIsThere
  /\ \A f \in Declared(answer) : Hidden(answer, f) \/ ioSize >= answer.head + f.value

(* A length was found, and the declared one has not come, or is negative   *)
(* and never will.                                                         *)
ShortAsDeclared ==
  /\ \E f \in answer.fields : f.name <= seen
  /\ \A f \in Declared(answer) : Hidden(answer, f) \/ answer.head + f.value \notin 0 .. ioSize

(* An answer that is given as ok is whole, in however many pieces it came: *)
(* it is all the peer sent before it ended, or it has the length its head  *)
(* declares, unless that length was hidden or a search left the buffer.  A *)
(* call that times out had no whole answer, unless rule was not set.       *)
AskedIsWhole ==
  /\ result = "ok" =>
       (peerEnd # "open" /\ ioSize = peerSent) \/ overread \/ WholeAsDeclared
  /\ result = "time out" /\ rule /\ HeadIsThere =>
       overread \/ ShortAsDeclared

(* Whatever way a call ends, its socket is closed and its block freed.     *)
(* What is not freed is told exactly: blocks outgrown by a second growth,  *)
(* and the empty block of an empty answer.                                 *)
AskReleases ==
  at = "done" =>
    /\ ~sock
    /\ heap = 1 .. block - 1 \cup (IF result = "unknow error" THEN {block} ELSE {})

(* Both of every call of cutils.http.                                      *)
AskIsSound == AskedIsWhole /\ AskReleases
=============================================================================
