--------------------------- MODULE BufferedStream ---------------------------
(***************************************************************************)
(* A connected TCP object of luasocket (buffer.c, timeout.c, select.c and  *)
(* the calls of usocket.c below them), as redis.lua and http_short_api.lua *)
(* use it: receive by pattern with a prefix, send from an index, select,   *)
(* and the timeouts that interrupt them.  The kernel's buffers and the     *)
(* peer are external.  Computing takes no time: it passes in waits.        *)
(***************************************************************************)
EXTENDS Integers, Sequences, SequencesExt

CONSTANTS
  Text, CR, LF, \* the letters the peer sends
  BUF_SIZE,     \* bytes of the read buffer
  STEPSIZE,     \* bytes of one send
  Counts,       \* the n of receive(n)
  Timeouts,     \* the values of settimeout
  MaxIn,        \* bound: letters the peer sends
  MaxOut,       \* bound: letters the program sends, as one string
  MaxRoom,      \* bound: letters the kernel takes for sending
  MaxTime,      \* bound: time that passes in a call
  Forever       \* no deadline

ASSUME LettersAssumption == Text # CR /\ Text # LF /\ CR # LF
ASSUME SizesAssumption ==
  /\ BUF_SIZE \in Nat \ {0} /\ STEPSIZE \in Nat \ {0}
  /\ Counts \subseteq Nat /\ MaxOut \in Nat /\ MaxRoom \in Nat
ASSUME TimeoutsAssumption == Forever \notin Nat /\ Timeouts \subseteq Nat \union {Forever}

VARIABLES
  data, low, \* the read buffer: buf->data up to last, and first
  tm,       \* the timeouts: block and total
  open,     \* the object's descriptor is valid
  call,     \* the call in progress
  waiting,  \* it waits in poll or select
  due,      \* when that wait ends by itself
  clock,    \* time since the call began
  wire,     \* what the kernel has received
  ended,    \* the peer: "up", "closed" or "reset"
  room,     \* letters the kernel takes
  stream,   \* history: all that the peer has sent
  got,      \* buf->received
  from,     \* history: got when the current receive and those it continues began
  peerGot,  \* history: the letters of the program's string in the kernel
  reply      \* what the last call returned

streamVars == <<data, low, tm, open, call, waiting, due, clock, wire, ended,
                room, stream, got, from, peerGot, reply>>

NoCall == [do |-> "idle", pattern |-> "*l", n |-> 0, part |-> << >>, total |-> 0,
           next |-> 1, dirty |-> FALSE, limits |-> [block |-> Forever, total |-> Forever]]
NoResult == [of |-> "none", pattern |-> "*l", n |-> 0, err |-> "none", part |-> << >>,
             index |-> 0, listed |-> 0, ready |-> 0]

StreamInit ==
  /\ data = << >> /\ low = 0
  /\ tm \in [block : Timeouts, total : Timeouts]
  /\ open = TRUE
  /\ call = NoCall
  /\ waiting = FALSE
  /\ due = Forever
  /\ clock = 0
  /\ wire = << >> /\ ended = "up" /\ room = MaxRoom
  /\ stream = << >> /\ got = 0 /\ from = 0
  /\ peerGot = << >>
  /\ reply = NoResult

netVars == <<wire, ended, room, stream>>
bufVars == <<data, low, got>>
-----------------------------------------------------------------------------
AtLeast0(t) == IF t < 0 THEN 0 ELSE t
Smaller(s, t) == IF s < t THEN s ELSE t

(* Mutant: the elapsed time is left out when only block is set, as it is   *)
(* in timeout_get.                                                         *)
RetryWhole(limits) ==
  IF limits.block = Forever /\ limits.total = Forever THEN Forever
  ELSE IF limits.block = Forever THEN AtLeast0(limits.total - clock)
  ELSE IF limits.total = Forever THEN limits.block
  ELSE Smaller(limits.block, AtLeast0(limits.total - clock))

(* timeout_getretry: what is left of the limits for the next wait.         *)
Retry(limits) ==
  IF limits.block = Forever /\ limits.total = Forever THEN Forever
  ELSE IF limits.block = Forever THEN AtLeast0(limits.total - clock)
  ELSE IF limits.total = Forever THEN AtLeast0(limits.block - clock)
  ELSE Smaller(limits.block, AtLeast0(limits.total - clock))

Deadline(limits) == IF Retry(limits) = Forever THEN Forever ELSE clock + Retry(limits)

(* The call returns.                                                       *)
Return(result) ==
  /\ call' = NoCall
  /\ waiting' = FALSE
  /\ due' = Forever
  /\ clock' = 0
  /\ reply' = result

Begin(c) ==
  /\ call = NoCall
  /\ call' = c
  /\ waiting' = FALSE
  /\ due' = Forever
  /\ clock' = 0
  /\ reply' = NoResult

(* socket_waitfd after EAGAIN: no wait at all when block is zero.          *)
Wait(result) ==
  IF call.limits.block = 0 THEN Return(result)
  ELSE /\ waiting' = TRUE
       /\ due' = Deadline(call.limits)
       /\ UNCHANGED <<call, clock, reply>>

(* poll and select come back: the descriptor is ready, a signal came, or   *)
(* time is up.                                                             *)
Readable == wire # << >> \/ ended # "up"
Ready == IF call.do = "send" THEN room > 0 \/ ended = "reset" ELSE Readable
-----------------------------------------------------------------------------
SetTimeout(t, mode) ==
  /\ call = NoCall
  /\ tm' = [tm EXCEPT ![mode] = t]
  /\ UNCHANGED <<bufVars, netVars, open, call, waiting, due, clock, from, peerGot, reply>>

(* receive(pattern, prefix): the prefix is the partial result of the last   *)
(* call, or empty.  A number that the prefix already reaches is answered.  *)
Receive(pattern, n, prefix) ==
  /\ Begin([NoCall EXCEPT !.do = "receive", !.pattern = pattern, !.n = n,
                          !.part = prefix, !.limits = tm])
  /\ IF prefix = << >> THEN from' = got ELSE UNCHANGED from
  /\ UNCHANGED <<bufVars, netVars, tm, open, peerGot>>

Received(err, part) ==
  [NoResult EXCEPT !.of = "receive", !.pattern = call.pattern, !.n = call.n,
                   !.err = err, !.part = part]

ReceiveReached ==
  /\ call.do = "receive" /\ call.pattern = "n"
  /\ call.part # << >> /\ call.n <= Len(call.part)
  /\ call.total = 0
  /\ Return(Received("none", call.part))
  /\ UNCHANGED <<bufVars, netVars, tm, open, from, peerGot>>

Wanted == call.n - Len(call.part)
Receiving ==
  /\ call.do = "receive" /\ ~waiting
  /\ ~(call.pattern = "n" /\ call.part # << >> /\ Wanted <= 0 /\ call.total = 0)

Empty == low >= Len(data)
Window == SubSeq(data, low + 1, Len(data))

(* buffer_get with an empty buffer, and socket_recv.                       *)
Fill ==
  /\ Receiving /\ Empty /\ open
  /\ wire # << >>
  /\ LET k == Smaller(BUF_SIZE, Len(wire))
     IN /\ data' = SubSeq(wire, 1, k)
        /\ low' = 0
        /\ wire' = SubSeq(wire, k + 1, Len(wire))
  /\ UNCHANGED <<got, ended, room, stream, tm, open, call, waiting, due, clock, from,
                 peerGot, reply>>

(* Mutant: the line feed stays in the buffer.                              *)
SkipKeepsLF(count) ==
  LET k == IF count > 0 /\ Window[count] = LF /\ call.pattern = "*l"
           THEN count - 1 ELSE count
      emptied == low + k >= Len(data)
  IN /\ got' = got + k
     /\ low' = IF emptied THEN 0 ELSE low + k
     /\ data' = IF emptied THEN << >> ELSE data

(* buffer_skip.                                                            *)
Skip(count) ==
  LET emptied == low + count >= Len(data)
  IN /\ got' = got + count
     /\ low' = IF emptied THEN 0 ELSE low + count
     /\ data' = IF emptied THEN << >> ELSE data

(* recvline's loop over a piece: carriage returns and the line feed are    *)
(* left out.                                                               *)
NoEnds(s) ==
  LET kept[i \in 0 .. Len(s)] ==
        IF i = 0 THEN << >>
        ELSE IF s[i] \in {CR, LF} THEN kept[i - 1] ELSE Append(kept[i - 1], s[i])
  IN kept[Len(s)]

(* recvraw, recvall and recvline on what the buffer holds.                 *)
Consume ==
  /\ Receiving /\ ~Empty
  /\ LET lf == SelectInSeq(Window, LAMBDA x : x = LF)
         count == CASE call.pattern = "n" -> Smaller(Len(Window), Wanted)
                    [] call.pattern = "*a" -> Len(Window)
                    [] call.pattern = "*l" -> IF lf = 0 THEN Len(Window) ELSE lf
         taken == SubSeq(Window, 1, count)
         part == call.part \o IF call.pattern = "*l" THEN NoEnds(taken) ELSE taken
         done == CASE call.pattern = "n" -> count = Wanted
                   [] call.pattern = "*a" -> FALSE
                   [] call.pattern = "*l" -> lf # 0
     IN /\ Skip(count)
        /\ IF done THEN Return(Received("none", part))
           ELSE /\ call' = [call EXCEPT !.part = part, !.total = @ + count]
                /\ UNCHANGED <<waiting, due, clock, reply>>
  /\ UNCHANGED <<netVars, tm, open, from, peerGot>>

(* recvall succeeds when the peer has closed after some bytes; the partial *)
(* result goes with every error.                                           *)
ReceiveError(err) ==
  IF call.pattern = "*a" /\ err = "closed" /\ call.total > 0 THEN Received("none", call.part)
  ELSE Received(err, call.part)

(* A reset is reported once.                                               *)
ReceiveFails ==
  /\ Receiving /\ Empty
  /\ IF ~open THEN Return(ReceiveError("closed")) /\ UNCHANGED ended
     ELSE /\ wire = << >>
          /\ CASE ended = "closed" -> Return(ReceiveError("closed")) /\ UNCHANGED ended
               [] ended = "reset" -> Return(ReceiveError("reset")) /\ ended' = "closed"
               [] ended = "up" -> Wait(ReceiveError("timeout")) /\ UNCHANGED ended
  /\ UNCHANGED <<bufVars, wire, room, stream, tm, open, from, peerGot>>
-----------------------------------------------------------------------------
(* buffer_meth_send's start: counted from the end when negative.           *)
Start(i) == LET s == IF i < 0 THEN MaxOut + i + 1 ELSE i
            IN IF s < 1 THEN 1 ELSE s

(* send(data, i): an index past the end sends nothing.                     *)
SendCall(i) ==
  /\ Begin([NoCall EXCEPT !.do = "send", !.next = Start(i), !.limits = tm])
  /\ UNCHANGED <<bufVars, netVars, tm, open, from, peerGot>>

(* The index of the last letter that was sent.                             *)
Sent(err) == [NoResult EXCEPT !.of = "send", !.err = err, !.index = call.next - 1]

(* sendraw and socket_send: a step at a time, as much as the kernel takes. *)
SendSome ==
  /\ call.do = "send" /\ ~waiting /\ open
  /\ call.next <= MaxOut /\ ended # "reset"
  /\ room > 0
  /\ \E k \in 1 .. Smaller(room, Smaller(STEPSIZE, MaxOut - call.next + 1)) :
       /\ room' = room - k
       /\ peerGot' = peerGot \o [j \in 1 .. k |-> call.next + j - 1]
       /\ call' = [call EXCEPT !.next = @ + k, !.total = @ + k]
  /\ UNCHANGED <<bufVars, wire, ended, stream, tm, open, waiting, due, clock, from, reply>>

SendEnds ==
  /\ call.do = "send" /\ ~waiting
  /\ \/ call.next > MaxOut /\ Return(Sent("none"))
     \/ call.next <= MaxOut /\ (~open \/ ended = "reset") /\ Return(Sent("closed"))
     \/ call.next <= MaxOut /\ open /\ ended # "reset" /\ room = 0 /\ Wait(Sent("timeout"))
  /\ UNCHANGED <<bufVars, netVars, tm, open, from, peerGot>>
-----------------------------------------------------------------------------
(* select({socket}, nil, t): with bytes in the buffer it does not wait, and*)
(* the descriptor is not asked for.                                        *)
Select(t) ==
  /\ open
  /\ Begin([NoCall EXCEPT !.do = "select", !.dirty = ~Empty,
                          !.limits = [block |-> IF Empty THEN t ELSE 0, total |-> Forever]])
  /\ UNCHANGED <<bufVars, netVars, tm, open, from, peerGot>>

SelectSleeps ==
  /\ call.do = "select" /\ ~waiting
  /\ waiting' = TRUE
  /\ due' = Deadline(call.limits)
  /\ UNCHANGED <<bufVars, netVars, tm, open, call, clock, from, peerGot, reply>>

SelectReturns ==
  /\ call.do = "select" /\ waiting
  /\ Readable \/ clock = due
  /\ Return([NoResult EXCEPT
       !.of = "select",
       !.listed = (IF call.dirty THEN 1 ELSE 0) + (IF Readable /\ ~call.dirty THEN 1 ELSE 0),
       !.ready = IF Readable \/ ~Empty THEN 1 ELSE 0])
  /\ UNCHANGED <<bufVars, netVars, tm, open, from, peerGot>>
-----------------------------------------------------------------------------
Wakes ==
  /\ waiting /\ call.do # "select"
  /\ IF Ready THEN waiting' = FALSE /\ due' = Forever /\ UNCHANGED <<call, clock, reply>>
     ELSE /\ clock = due
          /\ Return(IF call.do = "send" THEN Sent("timeout") ELSE ReceiveError("timeout"))
  /\ UNCHANGED <<bufVars, netVars, tm, open, from, peerGot>>

Interrupted ==
  /\ waiting
  /\ due' = Deadline(call.limits)
  /\ UNCHANGED <<bufVars, netVars, tm, open, call, waiting, clock, from, peerGot, reply>>

TimePasses ==
  /\ waiting /\ ~Ready
  /\ due # Forever /\ clock < due
  /\ clock < MaxTime
  /\ clock' = clock + 1
  /\ UNCHANGED <<bufVars, netVars, tm, open, call, waiting, due, from, peerGot, reply>>

(* close: the descriptor goes, the buffer stays.                           *)
Close ==
  /\ call = NoCall
  /\ open
  /\ open' = FALSE
  /\ UNCHANGED <<bufVars, netVars, tm, call, waiting, due, clock, from, peerGot, reply>>

PeerSends(letter) ==
  /\ ended = "up"
  /\ Len(stream) < MaxIn
  /\ stream' = Append(stream, letter)
  /\ wire' = Append(wire, letter)
  /\ UNCHANGED <<bufVars, ended, room, tm, open, call, waiting, due, clock, from,
                 peerGot, reply>>

PeerEnds ==
  /\ ended = "up"
  /\ ended' \in {"closed", "reset"}
  /\ UNCHANGED <<bufVars, wire, room, stream, tm, open, call, waiting, due, clock, from,
                 peerGot, reply>>

PeerTakes ==
  /\ room < MaxRoom
  /\ room' = room + 1
  /\ UNCHANGED <<bufVars, wire, ended, stream, tm, open, call, waiting, due, clock, from,
                 peerGot, reply>>

(* The program: a failed receive is tried again with what it has given, a  *)
(* failed send from the letter after the last one sent.                     *)
Resumes(pattern, n) ==
  IF reply.of = "receive" /\ reply.err # "none" /\ reply.pattern = pattern
     /\ (pattern = "n" => n >= Len(reply.part))
  THEN {reply.part, << >>} ELSE {<< >>}

StreamNext ==
  \/ \E t \in Timeouts, mode \in {"block", "total"} : SetTimeout(t, mode)
  \/ \E p \in {"*l", "*a"} : \E prefix \in Resumes(p, 0) : Receive(p, 0, prefix)
  \/ \E n \in Counts : \E prefix \in Resumes("n", n) : Receive("n", n, prefix)
  \/ ReceiveReached \/ Fill \/ Consume \/ ReceiveFails
  \/ \E i \in {Len(peerGot) + 1, Len(peerGot) - MaxOut} : i # 0 /\ SendCall(i)
  \/ SendSome \/ SendEnds
  \/ \E t \in Timeouts : Select(t)
  \/ SelectSleeps \/ SelectReturns
  \/ Wakes \/ Interrupted \/ TimePasses
  \/ Close
  \/ \E letter \in {Text, CR, LF} : PeerSends(letter)
  \/ PeerEnds \/ PeerTakes

StreamSpec == StreamInit /\ [][StreamNext]_streamVars
-----------------------------------------------------------------------------
(* However a receive was cut up by timeouts, resumed with its partial      *)
(* result, and fed in pieces, no byte is lost, repeated or reordered: what *)
(* is given is exactly the stream since the first of the calls it          *)
(* continues, a line ends at the first line feed, a count is exact, "*a"   *)
(* reaches the end; and a send's answer is the number of letters that the  *)
(* kernel has, each of them once.                                          *)
StreamIsExact ==
  /\ reply.of = "receive" =>
       LET taken == SubSeq(stream, from + 1, got)
       IN /\ reply.part = IF reply.pattern = "*l" THEN NoEnds(taken) ELSE taken
          /\ reply.err = "none" =>
               CASE reply.pattern = "n" -> Len(reply.part) = reply.n
                 [] reply.pattern = "*l" -> taken # << >> /\ Last(taken) = LF
                 [] reply.pattern = "*a" -> ended # "up" \/ ~open
          /\ reply.pattern = "*l" =>
               \A i \in 1 .. Len(taken) - (IF reply.err = "none" THEN 1 ELSE 0) : taken[i] # LF
  /\ peerGot = [i \in 1 .. Len(peerGot) |-> i]
  /\ reply.of = "send" => reply.index = Len(peerGot)

(* A select answers at once when a receive would not wait: buffered bytes  *)
(* count, and an object is listed once.                                    *)
SelectSeesBuffer ==
  /\ reply.of = "select" => reply.listed = reply.ready
  /\ call.do = "select" /\ waiting /\ ~Empty => due = clock

(* A call ends in time: however often its waits were interrupted or ended  *)
(* by a few bytes, it takes no longer than its total timeout, nor than its *)
(* block timeout when that is the only one.                                *)
WaitsInTime ==
  call.do # "idle" =>
    LET limits == call.limits
    IN /\ limits.total # Forever => clock <= limits.total
       /\ limits.total = Forever /\ limits.block # Forever => clock <= limits.block

(* A call waits only when what it waits for is not there, and no longer    *)
(* than it may.                                                            *)
WaitsWhenDue == SelectSeesBuffer /\ WaitsInTime
=============================================================================
