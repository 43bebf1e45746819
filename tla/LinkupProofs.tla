---------------------------- MODULE LinkupProofs ----------------------------
(***************************************************************************)
(* Proofs about the two pools of linkup.  RedisPool, for any number of     *)
(* requests, connections, members, rounds and commands in a batch, and any *)
(* bound on calls and faults; and MysqlPool, for every MAX_RECNT and every *)
(* request length.                                                         *)
(***************************************************************************)
EXTENDS RedisPool, MysqlPool, FiniteSetTheorems, SequenceTheorems, TLAPS

-----------------------------------------------------------------------------
(* The types.  Nothing is ever put into a Queue.                           *)
Replies == [id : Nat, i : Nat, kind : {"status", "bulk", "bytes", "list", "error"}]
Commands == [id : 1 .. MaxCalls, i : Positions, kind : Kinds]
Results == [id : Nat, i : Nat, kind : {"status", "bytes", "garbled", "collected"}]
ConnRecords ==
  [addr : Addrs, client : {"used", "idle", "closed"}, up : BOOLEAN,
   inbox : Seq(Commands), outbox : Seq(Replies), wire : Seq(Replies)]
Requests ==
  [pc : {"idle", "connect", "send", "line", "bytes"}, id : 0 .. MaxCalls,
   cmds : Batches \union {<< >>}, memb : Addrs \union {None}, index : Nat,
   sock : Conns \union {None}, results : Seq(Results),
   answer : {"none", "ok", "failed", "unknown"}, quiet : BOOLEAN, stale : Nat]

RedisTypeOK ==
  /\ pools \in [Names -> SUBSET Addrs]
  /\ queues \in [Addrs -> {<< >>, None}]
  /\ conns \in [Conns -> ConnRecords]
  /\ req \in [Coroutines -> Requests]
  /\ calls \in 0 .. MaxCalls
  /\ runs \in [1 .. MaxCalls -> [Positions -> Nat]]
  /\ faults \in 0 .. MaxFaults

(* What is on its way to the client on a connection.                       *)
Coming(c) == c.wire \o c.outbox

(* A connection has one command at a time, and one that no request uses    *)
(* has nothing under way but a command left by a sender that has closed.   *)
ConnOK(c) ==
  /\ Len(c.inbox) <= 1
  /\ ~c.up => c.inbox = << >> /\ c.outbox = << >>
  /\ c.client # "used" => c.wire = << >> /\ c.outbox = << >>
  /\ c.client = "idle" => c.inbox = << >>
  /\ c.inbox # << >> => c.wire = << >> /\ c.outbox = << >>

(* What is coming to a request is the rest of the reply to the command it  *)
(* runs, its parts in order, cut off where the connection was lost; an     *)
(* error comes of a fault.                                                 *)
StreamOK(q, s) ==
  \A k \in 1 .. Len(s) :
    /\ s[k].id = q.id /\ s[k].i = Current(q)
    /\ s[k].kind \in {"status", "bytes", "error"} => k = Len(s)
    /\ s[k].kind = "list" /\ k < Len(s) => s[k + 1].kind = "bulk"
    /\ s[k].kind = "bulk" /\ k < Len(s) => s[k + 1].kind = "bytes"
    /\ s[k].kind \in {"list", "bulk", "bytes"} => q.cmds[Current(q)] # "status"
    /\ s[k].kind = "error" => ~q.quiet

(* A request and the connection it holds.                                  *)
HolderOK(q, c) ==
  /\ c.client = "used" /\ c.addr = q.memb
  /\ q.pc = "send" => c.inbox = << >> /\ Coming(c) = << >>
  /\ c.inbox # << >> =>
       q.pc = "line" /\ c.inbox[1] = [id |-> q.id, i |-> Current(q), kind |-> q.cmds[Current(q)]]
  /\ StreamOK(q, Coming(c))
  /\ Coming(c) # << >> => (Coming(c)[1].kind = "bytes" <=> q.pc = "bytes")
  /\ q.pc = "bytes" => q.cmds[Current(q)] # "status"

ResultOK(q, i) ==
  LET result == q.results[i]
  IN \/ result.id = q.id /\ result.i = i
     \/ result = Garbled /\ q.cmds[i] # "status"
     \/ result = Collected /\ q.cmds[i] = "list" /\ Len(q.cmds) > 1

RequestOK(q) ==
  /\ q.sock # None <=> q.pc \in {"send", "line", "bytes"}
  /\ q.pc # "idle" =>
       /\ q.id # 0 /\ q.cmds # << >> /\ q.memb \in Addrs /\ q.answer = "none"
       /\ q.index < MAX_RECNT /\ Len(q.results) < Len(q.cmds)
  /\ Len(q.results) <= Len(q.cmds)
  /\ q.results # << >> => q.id # 0
  /\ \A i \in 1 .. Len(q.results) : ResultOK(q, i)

HoldersInv ==
  \A r \in Coroutines :
    /\ RequestOK(req[r])
    /\ req[r].id <= calls
    /\ req[r].sock # None => HolderOK(req[r], conns[req[r].sock])
    /\ \A s \in Coroutines \ {r} :
         /\ req[r].sock # None => req[r].sock # req[s].sock
         /\ req[r].id # 0 => req[r].id # req[s].id

ReplyInv == HoldersInv /\ \A c \in Conns : ConnOK(conns[c])
-----------------------------------------------------------------------------
(* The queue of an address is empty or not there, so a round begins with a *)
(* new connection, or fails.                                               *)
SameRequest(q, next) ==
  /\ next.id = q.id /\ next.cmds = q.cmds /\ next.memb = q.memb
  /\ next.quiet = q.quiet /\ next.stale = q.stale

Begins(q, next) ==
  /\ next.sock = q.sock /\ next.results = q.results /\ next.index = q.index
  /\ \/ next.pc = "connect" /\ next.answer = q.answer
     \/ next.pc = "idle" /\ next.answer = "failed" /\ queues[q.memb] = None

LEMMA RoundIs ==
  ASSUME RedisTypeOK, NEW r \in Coroutines, NEW q \in Requests, q.memb \in Addrs,
         Round(r, q)
  PROVE  /\ queues' = queues
         /\ \E next \in Requests :
              /\ req' = [req EXCEPT ![r] = next]
              /\ SameRequest(q, next) /\ Begins(q, next)
<1>1. queues[q.memb] \in {<< >>, None}
  BY DEF RedisTypeOK
<1>2. CASE queues[q.memb] = None
  <2> DEFINE next == [q EXCEPT !.pc = "idle", !.answer = "failed"]
  <2>1. queues' = queues /\ req' = [req EXCEPT ![r] = next]
    BY <1>2, NoneAssumption DEF Round
  <2>2. next \in Requests
    BY Zenon DEF Requests
  <2>3. SameRequest(q, next) /\ Begins(q, next)
    BY <1>2 DEF SameRequest, Begins, Requests
  <2>4. QED
    BY <2>1, <2>2, <2>3, Zenon
<1>3. CASE queues[q.memb] # None
  <2> DEFINE next == [q EXCEPT !.pc = "connect"]
  <2>1. queues' = queues /\ req' = [req EXCEPT ![r] = next]
    BY <1>1, <1>3, NoneAssumption DEF Round
  <2>2. next \in Requests
    BY DEF Requests
  <2>3. SameRequest(q, next) /\ Begins(q, next)
    BY DEF SameRequest, Begins, Requests
  <2>4. QED
    BY <2>1, <2>2, <2>3, Zenon
<1>4. QED
  BY <1>2, <1>3

(* A round that fails leaves the request without a connection, in its next *)
(* round or at its end.                                                    *)
AfterFailure(q, next) ==
  /\ SameRequest(q, next)
  /\ next.sock = None /\ next.results = q.results /\ next.index = q.index + 1
  /\ \/ next.pc = "connect" /\ next.answer = q.answer /\ next.index < MAX_RECNT
     \/ /\ next.pc = "idle" /\ next.answer = "failed"
        /\ next.index >= MAX_RECNT \/ queues[q.memb] = None

LEMMA FailureIs ==
  ASSUME RedisTypeOK, NEW r \in Coroutines, NEW q \in Requests, q.memb \in Addrs,
         RoundFails(r, q)
  PROVE  /\ queues' = queues
         /\ conns' = IF q.sock = None THEN conns ELSE [conns EXCEPT ![q.sock] = Closed(@)]
         /\ \E next \in Requests : req' = [req EXCEPT ![r] = next] /\ AfterFailure(q, next)
<1>0. q.index \in Nat /\ q.index + 1 \in Nat
  BY DEF Requests
<1>1. CASE q.index + 1 >= MAX_RECNT
  <2> DEFINE next == [q EXCEPT !.pc = "idle", !.sock = None, !.index = @ + 1,
                               !.answer = "failed"]
  <2>1. queues' = queues /\ req' = [req EXCEPT ![r] = next]
    BY <1>1 DEF RoundFails
  <2>2. next \in Requests
    BY <1>0, Zenon DEF Requests
  <2>3. AfterFailure(q, next)
    BY <1>1 DEF AfterFailure, SameRequest, Requests
  <2>4. QED
    BY <2>1, <2>2, <2>3, Zenon DEF RoundFails
<1>2. CASE ~(q.index + 1 >= MAX_RECNT)
  <2> DEFINE again == [q EXCEPT !.sock = None, !.index = @ + 1]
  <2>1. Round(r, again)
    BY <1>2 DEF RoundFails
  <2>2. again \in Requests /\ again.memb \in Addrs
    BY <1>0, Zenon DEF Requests
  <2>3. PICK next \in Requests :
       /\ req' = [req EXCEPT ![r] = next]
       /\ SameRequest(again, next) /\ Begins(again, next)
    BY <2>1, <2>2, RoundIs, Zenon
  <2>4. AfterFailure(q, next)
    <3>1. again.index = q.index + 1 /\ q.index \in Nat
      BY DEF Requests
    <3>2. QED
      BY <1>2, <2>3, <3>1, RoundsAssumption DEF AfterFailure, SameRequest, Begins, Requests
  <2>5. queues' = queues
    BY <2>1, <2>2, RoundIs, Zenon
  <2>6. QED
    BY <2>3, <2>4, <2>5, Zenon DEF RoundFails
<1>3. QED
  BY <1>1, <1>2

(* A round that succeeds leaves it without a connection, at its next       *)
(* command or at its end.                                                  *)
AfterSuccess(q, next, result) ==
  /\ SameRequest(q, next)
  /\ next.sock = None /\ next.results = Append(q.results, result) /\ next.index = 0
  /\ \/ next.pc = "idle" /\ next.answer = "ok"
     \/ /\ Len(next.results) < Len(next.cmds)
        /\ \/ next.pc = "connect" /\ next.answer = q.answer
           \/ next.pc = "idle" /\ next.answer = "failed" /\ queues[q.memb] = None

LEMMA SuccessIs ==
  ASSUME RedisTypeOK, NEW r \in Coroutines, NEW q \in Requests, q.memb \in Addrs,
         NEW cs, NEW result \in Results, NEW failed \in BOOLEAN,
         RoundSucceeds(r, q, cs, result, failed)
  PROVE  /\ queues' = queues
         /\ conns' \in SetKeepAlive(cs, q.sock, failed)
         /\ \E next \in Requests :
              req' = [req EXCEPT ![r] = next] /\ AfterSuccess(q, next, result)
<1> DEFINE served == [q EXCEPT !.results = Append(@, result), !.sock = None, !.index = 0]
<1>1. Append(q.results, result) \in Seq(Results)
  BY DEF Requests
<1>2. served \in Requests /\ served.memb \in Addrs /\ served.results = Append(q.results, result)
  BY <1>1, Zenon DEF Requests
<1>3. Len(served.results) \in Nat /\ Len(served.cmds) \in Nat
  BY <1>2, BatchesAssumption DEF Requests
<1>4. CASE Current(served) > Len(served.cmds)
  <2> DEFINE next == [served EXCEPT !.pc = "idle", !.answer = "ok"]
  <2>1. queues' = queues /\ req' = [req EXCEPT ![r] = next]
    BY <1>2, <1>4 DEF RoundSucceeds
  <2>2. next \in Requests
    BY <1>2, Zenon DEF Requests
  <2>3. AfterSuccess(q, next, result)
    BY <1>2 DEF AfterSuccess, SameRequest, Requests
  <2>4. QED
    BY <2>1, <2>2, <2>3, Zenon DEF RoundSucceeds
<1>5. CASE ~(Current(served) > Len(served.cmds))
  <2>1. Round(r, served)
    BY <1>5 DEF RoundSucceeds
  <2>2. PICK next \in Requests :
       /\ req' = [req EXCEPT ![r] = next]
       /\ SameRequest(served, next) /\ Begins(served, next)
    BY <1>2, <2>1, RoundIs, Zenon
  <2>3. Len(served.results) < Len(served.cmds)
    BY <1>3, <1>5 DEF Current
  <2>4. AfterSuccess(q, next, result)
    BY <1>2, <2>2, <2>3 DEF AfterSuccess, SameRequest, Begins, Requests
  <2>5. queues' = queues
    BY <1>2, <2>1, RoundIs, Zenon
  <2>6. QED
    BY <2>2, <2>4, <2>5, Zenon DEF RoundSucceeds
<1>6. QED
  BY <1>4, <1>5

(* Closing a connection leaves its unread command to the server.           *)
LEMMA ClosedIs ==
  ASSUME NEW c \in ConnRecords
  PROVE  /\ Closed(c) \in ConnRecords
         /\ Closed(c).client = "closed" /\ Closed(c).addr = c.addr
         /\ Closed(c).inbox = c.inbox /\ Closed(c).wire = << >> /\ Closed(c).outbox = << >>
         /\ Closed(c).up = (c.up /\ c.inbox # << >>)
  BY EmptySeq, Zenon DEF Closed, ConnRecords

(* nginx keeps or closes the connection it is given, and may close an idle *)
(* one.                                                                    *)
KeptOrClosed(cs, new, k, failed) ==
  /\ new \in [Conns -> ConnRecords]
  /\ \/ new[k] = Closed(cs[k])
     \/ new[k] = [cs[k] EXCEPT !.client = "idle"] /\ ~failed /\ cs[k].wire = << >>
  /\ \A c \in Conns \ {k} :
       \/ new[c] = cs[c]
       \/ cs[c].client = "idle" /\ new[c] = Closed(cs[c])

LEMMA KeepAliveIs ==
  ASSUME NEW cs \in [Conns -> ConnRecords], NEW k \in Conns, cs[k].client = "used",
         NEW failed \in BOOLEAN, NEW new \in SetKeepAlive(cs, k, failed)
  PROVE  KeptOrClosed(cs, new, k, failed)
<1>1. \A c \in Conns : Closed(cs[c]) \in ConnRecords
  BY ClosedIs
<1>2. [cs[k] EXCEPT !.client = "idle"] \in ConnRecords
  BY Zenon DEF ConnRecords
<1>3. CASE failed \/ cs[k].wire # << >>
  <2>1. new = [cs EXCEPT ![k] = Closed(@)]
    BY <1>3 DEF SetKeepAlive
  <2>2. QED
    BY <1>1, <2>1 DEF KeptOrClosed
<1>4. CASE ~failed /\ cs[k].wire = << >> /\ new = [cs EXCEPT ![k].client = "idle"]
  BY <1>1, <1>2, <1>4 DEF KeptOrClosed
<1>5. ASSUME NEW c \in Conns, cs[c].client = "idle", ~failed, cs[k].wire = << >>,
             new = [cs EXCEPT ![k].client = "idle", ![c] = Closed(@)]
       PROVE  KeptOrClosed(cs, new, k, failed)
  <2>1. c # k
    BY <1>5
  <2>2. /\ new[k] = [cs[k] EXCEPT !.client = "idle"]
        /\ new[c] = Closed(cs[c])
        /\ \A d \in Conns \ {k, c} : new[d] = cs[d]
    BY <1>5, <2>1
  <2>3. new \in [Conns -> ConnRecords]
    BY <1>1, <1>2, <1>5, <2>1
  <2>4. QED
    BY <1>5, <2>1, <2>2, <2>3 DEF KeptOrClosed
<1>6. QED
  BY <1>3, <1>4, <1>5 DEF SetKeepAlive
-----------------------------------------------------------------------------
(* A command names the call it is of and its place in the batch by natural *)
(* numbers.                                                                *)
LEMMA CommandNumbers ==
  ASSUME NEW cmd \in Commands
  PROVE  cmd.id \in Nat /\ cmd.i \in Nat /\ cmd.kind \in Kinds
<1>1. cmd.id \in 1 .. MaxCalls /\ cmd.i \in Positions /\ cmd.kind \in Kinds
  BY Zenon DEF Commands
<1>2. PICK cmds \in Batches : cmd.i \in DOMAIN cmds
  BY <1>1, Zenon DEF Positions
<1>3. cmds \in Seq(Kinds)
  BY <1>2, BatchesAssumption, Zenon
<1>4. cmd.i \in 1 .. Len(cmds) /\ Len(cmds) \in Nat
  BY <1>2, <1>3, LenProperties
<1>5. QED
  BY <1>1, <1>4, BoundsAssumption

(* What a command is answered with.                                        *)
LEMMA PartsAre ==
  ASSUME NEW cmd \in Commands
  PROVE  /\ Parts(cmd) \in Seq(Replies)
         /\ Parts(cmd) # << >>
         /\ \A k \in 1 .. Len(Parts(cmd)) :
              LET part == Parts(cmd)[k]
              IN /\ part.id = cmd.id /\ part.i = cmd.i /\ part.kind # "error"
                 /\ part.kind \in {"status", "bytes"} => k = Len(Parts(cmd))
                 /\ part.kind = "list" /\ k < Len(Parts(cmd)) => Parts(cmd)[k + 1].kind = "bulk"
                 /\ part.kind = "bulk" /\ k < Len(Parts(cmd)) => Parts(cmd)[k + 1].kind = "bytes"
                 /\ part.kind \in {"list", "bulk", "bytes"} => cmd.kind # "status"
         /\ Parts(cmd)[1].kind # "bytes"
<1> DEFINE Part(kd) == [id |-> cmd.id, i |-> cmd.i, kind |-> kd]
<1>1. cmd.id \in Nat /\ cmd.i \in Nat /\ cmd.kind \in Kinds
  BY CommandNumbers, Zenon
<1>2. CASE cmd.kind = "status"
  <2>1. Parts(cmd) = <<Part("status")>>
    BY <1>2 DEF Parts
  <2>2. QED
    BY <1>1, <1>2, <2>1 DEF Replies
<1>3. CASE cmd.kind = "bulk"
  <2>1. Parts(cmd) = <<Part("bulk"), Part("bytes")>>
    BY <1>3 DEF Parts
  <2>2. QED
    BY <1>1, <1>3, <2>1 DEF Replies
<1>4. CASE cmd.kind = "list"
  <2>1. Parts(cmd) = <<Part("list"), Part("bulk"), Part("bytes")>>
    BY <1>4 DEF Parts
  <2>2. QED
    BY <1>1, <1>4, <2>1 DEF Replies
<1>5. QED
  BY <1>1, <1>2, <1>3, <1>4 DEF Kinds
-----------------------------------------------------------------------------
(* A request in progress, as it is and after a fault.                      *)
Versions(r) == {req[r], Disturbed[r]}

LEMMA VersionIs ==
  ASSUME RedisTypeOK, NEW r \in Coroutines, NEW q \in Versions(r)
  PROVE  /\ q \in Requests
         /\ q.pc = req[r].pc /\ q.id = req[r].id /\ q.cmds = req[r].cmds
         /\ q.memb = req[r].memb /\ q.index = req[r].index /\ q.sock = req[r].sock
         /\ q.results = req[r].results /\ q.answer = req[r].answer
         /\ q.stale = req[r].stale /\ (q.quiet => req[r].quiet)
<1>1. req[r] \in Requests
  BY DEF RedisTypeOK
<1>2. Disturbed[r] = [req[r] EXCEPT !.quiet = FALSE]
  BY DEF Disturbed
<1>3. CASE q = req[r]
  BY <1>1, <1>3
<1>4. CASE q = [req[r] EXCEPT !.quiet = FALSE]
  <2>1. q \in Requests
    BY <1>1, <1>4, Zenon DEF Requests
  <2>2. QED
    BY <1>1, <1>4, <2>1 DEF Requests
<1>5. QED
  BY <1>2, <1>3, <1>4 DEF Versions

LEMMA ActiveIs ==
  ASSUME RedisTypeOK, ReplyInv, NEW r \in Coroutines, req[r].pc # "idle",
         NEW q \in Versions(r)
  PROVE  /\ q.id \in 1 .. MaxCalls /\ q.cmds \in Batches /\ q.memb \in Addrs
         /\ Len(q.results) \in Nat /\ Len(q.results) < Len(q.cmds)
         /\ q.cmds \in Seq(Kinds)
         /\ Current(q) \in Positions /\ Current(q) \in 1 .. Len(q.cmds)
         /\ q.cmds[Current(q)] \in Kinds
<1> DEFINE p == req[r]
<1>1. p \in Requests /\ RequestOK(p)
  BY DEF RedisTypeOK, ReplyInv, HoldersInv
<1>2. p.id \in 1 .. MaxCalls /\ p.cmds \in Batches /\ p.memb \in Addrs
  BY <1>1, BoundsAssumption DEF RequestOK, Requests
<1>3. p.cmds \in Seq(Kinds) /\ p.results \in Seq(Results)
  BY <1>1, <1>2, BatchesAssumption DEF Requests
<1>4. Len(p.results) \in Nat /\ Len(p.cmds) \in Nat /\ Len(p.results) < Len(p.cmds)
  BY <1>1, <1>3, LenProperties DEF RequestOK
<1>5. Current(p) \in 1 .. Len(p.cmds)
  BY <1>4 DEF Current
<1>6. 1 .. Len(p.cmds) = DOMAIN p.cmds /\ p.cmds[Current(p)] \in Kinds
  BY <1>3, <1>5, LenProperties, ElementOfSeq
<1>7. Current(p) \in Positions
  BY <1>2, <1>5, <1>6 DEF Positions
<1>8. QED
  BY <1>2, <1>3, <1>4, <1>5, <1>6, <1>7, VersionIs, Zenon DEF Current

LEMMA HeldIs ==
  ASSUME RedisTypeOK, ReplyInv, NEW r \in Coroutines,
         req[r].pc \in {"send", "line", "bytes"}
  PROVE  /\ req[r].sock \in Conns /\ conns[req[r].sock] \in ConnRecords
         /\ HolderOK(req[r], conns[req[r].sock]) /\ ConnOK(conns[req[r].sock])
<1>1. req[r] \in Requests /\ RequestOK(req[r])
  BY DEF RedisTypeOK, ReplyInv, HoldersInv
<1>2. req[r].sock \in Conns
  BY <1>1 DEF RequestOK, Requests
<1>3. QED
  BY <1>2, NoneAssumption DEF RedisTypeOK, ReplyInv, HoldersInv

LEMMA FailureKeepsType ==
  ASSUME RedisTypeOK, ReplyInv, NEW r \in Coroutines, NEW q \in Versions(r),
         req[r].pc # "idle", RoundFails(r, q),
         UNCHANGED <<pools, calls, runs>>, faults' \in 0 .. MaxFaults
  PROVE  RedisTypeOK'
<1>1. q \in Requests /\ q.memb \in Addrs
  BY VersionIs, ActiveIs
<1>2. PICK next \in Requests : req' = [req EXCEPT ![r] = next]
  BY <1>1, FailureIs
<1>3. queues' = queues /\ conns' = IF q.sock = None THEN conns ELSE [conns EXCEPT ![q.sock] = Closed(@)]
  BY <1>1, FailureIs
<1>4. q.sock \in Conns \union {None}
  BY <1>1 DEF Requests
<1>5. conns' \in [Conns -> ConnRecords]
  BY <1>3, <1>4, ClosedIs DEF RedisTypeOK
<1>6. QED
  BY <1>2, <1>3, <1>5 DEF RedisTypeOK

(* Two sequences one after the other, the second not empty: its first part *)
(* may as well be the last one of the first.                               *)
LEMMA MoveFirst ==
  ASSUME NEW S, NEW s \in Seq(S), NEW t \in Seq(S), t # << >>
  PROVE  Append(s, Head(t)) \o Tail(t) = s \o t
<1>1. Tail(t) \in Seq(S) /\ Head(t) \in S /\ t = <<Head(t)>> \o Tail(t)
  OBVIOUS
<1>2. Append(s, Head(t)) = s \o <<Head(t)>>
  BY <1>1, AppendIsConcat
<1>3. <<Head(t)>> \in Seq(S)
  BY <1>1
<1>4. (s \o <<Head(t)>>) \o Tail(t) = s \o (<<Head(t)>> \o Tail(t))
  BY <1>1, <1>3, ConcatAssociative
<1>5. QED
  BY <1>1, <1>2, <1>4

LEMMA TakeFirst ==
  ASSUME NEW S, NEW s \in Seq(S), NEW t \in Seq(S), s # << >>
  PROVE  /\ s \o t # << >> /\ (s \o t)[1] = Head(s)
         /\ Tail(s \o t) = Tail(s) \o t
<1>1. s \o t \in Seq(S) /\ Len(s \o t) = Len(s) + Len(t) /\ Len(s) \in Nat \ {0} /\ Len(t) \in Nat
  BY ConcatProperties, LenProperties, EmptySeq
<1>2. s \o t # << >>
  BY <1>1, EmptySeq
<1>3. (s \o t)[1] = Head(s)
  BY <1>1
<1>4. Tail(s \o t) = Tail(s) \o t
  BY <1>1, <1>2
<1>5. QED
  BY <1>2, <1>3, <1>4

(* The first of what has arrived is the first of what is coming.           *)
LEMMA ComingIs ==
  ASSUME NEW c \in ConnRecords
  PROVE  /\ Coming(c) \in Seq(Replies)
         /\ c.wire = << >> => Coming(c) = c.outbox
         /\ c.wire # << >> => /\ Coming(c) # << >> /\ Coming(c)[1] = Head(c.wire)
                              /\ Coming([c EXCEPT !.wire = Tail(@)]) = Tail(Coming(c))
<1>1. c.wire \in Seq(Replies) /\ c.outbox \in Seq(Replies)
  BY DEF ConnRecords
<1>2. c.wire \o c.outbox \in Seq(Replies)
  BY <1>1, ConcatProperties
<1>3. c.wire = << >> => c.wire \o c.outbox = c.outbox
  BY <1>1, ConcatEmptySeq
<1>4. ASSUME c.wire # << >>
      PROVE  /\ Coming(c) # << >> /\ Coming(c)[1] = Head(c.wire)
             /\ Coming([c EXCEPT !.wire = Tail(@)]) = Tail(Coming(c))
  BY <1>1, <1>4, TakeFirst, SMTT(30) DEF Coming, ConnRecords
<1>5. QED
  BY <1>2, <1>3, <1>4, Zenon DEF Coming

(* Delivering a part leaves what is coming as it is.                       *)
LEMMA DeliveredIs ==
  ASSUME NEW c \in ConnRecords, c.outbox # << >>
  PROVE  Coming([c EXCEPT !.wire = Append(@, Head(c.outbox)), !.outbox = Tail(@)]) = Coming(c)
<1>1. c.wire \in Seq(Replies) /\ c.outbox \in Seq(Replies)
  BY DEF ConnRecords
<1>2. QED
  BY <1>1, MoveFirst DEF Coming, ConnRecords

(* Taking what has arrived first.                                          *)
LEMMA TakenIs ==
  ASSUME RedisTypeOK, NEW k \in Conns, conns[k].wire # << >>
  PROVE  /\ [conns EXCEPT ![k].wire = Tail(@)] \in [Conns -> ConnRecords]
         /\ Head(conns[k].wire) \in Replies
<1>1. conns[k] \in ConnRecords
  BY DEF RedisTypeOK
<1>2. conns[k].wire \in Seq(Replies)
  BY <1>1 DEF ConnRecords
<1>3. Tail(conns[k].wire) \in Seq(Replies) /\ Head(conns[k].wire) \in Replies
  BY <1>2, HeadTailProperties
<1>4. [conns[k] EXCEPT !.wire = Tail(@)] \in ConnRecords
  BY <1>1, <1>3, Zenon DEF ConnRecords
<1>5. QED
  BY <1>3, <1>4 DEF RedisTypeOK

LEMMA SuccessKeepsType ==
  ASSUME RedisTypeOK, ReplyInv, NEW r \in Coroutines, NEW q \in Versions(r),
         req[r].pc \in {"send", "line", "bytes"},
         NEW cs \in [Conns -> ConnRecords], cs[req[r].sock].client = "used",
         NEW result \in Results, NEW failed \in BOOLEAN,
         RoundSucceeds(r, q, cs, result, failed),
         UNCHANGED <<pools, calls, runs>>, faults' \in 0 .. MaxFaults
  PROVE  RedisTypeOK'
<1>1. q \in Requests /\ q.memb \in Addrs /\ q.sock = req[r].sock
  BY VersionIs, ActiveIs
<1>2. PICK next \in Requests : req' = [req EXCEPT ![r] = next]
  BY <1>1, SuccessIs
<1>3. queues' = queues /\ conns' \in SetKeepAlive(cs, q.sock, failed)
  BY <1>1, SuccessIs
<1>4. q.sock \in Conns
  BY <1>1, HeldIs
<1>5. conns' \in [Conns -> ConnRecords]
  BY <1>1, <1>3, <1>4, KeepAliveIs, Zenon DEF KeptOrClosed
<1>6. QED
  BY <1>2, <1>3, <1>5 DEF RedisTypeOK

(* The server's reply to the first command, or an error.                   *)
Replied(c, parts) ==
  LET read == [conns[c] EXCEPT !.inbox = Tail(@)]
  IN conns' = [conns EXCEPT ![c] = IF @.client = "closed" THEN Closed(read)
                                 ELSE [read EXCEPT !.outbox = @ \o parts]]

LEMMA RepliedType ==
  ASSUME RedisTypeOK, NEW c \in Conns, conns[c].inbox # << >>,
         NEW parts \in Seq(Replies), Replied(c, parts)
  PROVE  conns' \in [Conns -> ConnRecords]
<1> DEFINE read == [conns[c] EXCEPT !.inbox = Tail(@)]
<1>1. conns[c] \in ConnRecords
  BY DEF RedisTypeOK
<1>2. Tail(conns[c].inbox) \in Seq(Commands)
  BY <1>1, HeadTailProperties DEF ConnRecords
<1>3. read \in ConnRecords
  BY <1>1, <1>2, Zenon DEF ConnRecords
<1>4. read.outbox \o parts \in Seq(Replies)
  BY <1>3, ConcatProperties, Zenon DEF ConnRecords
<1>5. [read EXCEPT !.outbox = @ \o parts] \in ConnRecords
  BY <1>3, <1>4, Zenon DEF ConnRecords
<1>6. Closed(read) \in ConnRecords
  BY <1>3, ClosedIs
<1>7. QED
  BY <1>5, <1>6 DEF Replied, RedisTypeOK

LEMMA DisturbedType ==
  ASSUME RedisTypeOK
  PROVE  Disturbed \in [Coroutines -> Requests]
<1>1. \A r \in Coroutines : Disturbed[r] \in Versions(r)
  BY DEF Versions
<1>2. \A r \in Coroutines : Disturbed[r] \in Requests
  BY <1>1, VersionIs
<1>3. QED
  BY <1>2 DEF Disturbed

(* A fault is counted.                                                     *)
LEMMA FaultType ==
  ASSUME RedisTypeOK, Fault
  PROVE  faults' \in 0 .. MaxFaults
  BY BoundsAssumption DEF Fault, RedisTypeOK

(* Every step keeps the types.                                             *)
LEMMA TypeStep == RedisTypeOK /\ ReplyInv /\ [RedisNext]_redisVars => RedisTypeOK'
<1> SUFFICES ASSUME RedisTypeOK, ReplyInv, [RedisNext]_redisVars
             PROVE  RedisTypeOK'
  OBVIOUS
<1>1. ASSUME NEW r \in Coroutines, NEW name \in Names, Call(r, name)
       PROVE  RedisTypeOK'
  <2>1. calls' = calls + 1 /\ calls' \in 0 .. MaxCalls /\ UNCHANGED <<pools, conns, runs, faults>>
    <3>1. calls < MaxCalls /\ calls' = calls + 1 /\ UNCHANGED <<pools, conns, runs, faults>>
      BY <1>1 DEF Call
    <3>2. QED
      BY <3>1, BoundsAssumption DEF RedisTypeOK
  <2>2. NoRequest \in Requests
    BY BoundsAssumption, EmptySeq DEF NoRequest, Requests
  <2>3. CASE pools[name] = {}
    <3>1. [NoRequest EXCEPT !.id = calls', !.answer = "unknown"] \in Requests
      BY <2>1, <2>2, Zenon DEF Requests
    <3>2. QED
      BY <1>1, <2>1, <2>3, <3>1 DEF Call, RedisTypeOK
  <2>4. CASE pools[name] # {}
    <3>1. PICK memb \in pools[name], cmds \in Batches :
            Round(r, [NoRequest EXCEPT !.id = calls', !.cmds = cmds, !.memb = memb,
                                       !.stale = Cardinality(Left(memb))])
      BY <1>1, <2>4 DEF Call
    <3> DEFINE q == [NoRequest EXCEPT !.id = calls', !.cmds = cmds, !.memb = memb,
                                      !.stale = Cardinality(Left(memb))]
    <3>2. memb \in Addrs
      BY <3>1 DEF RedisTypeOK
    <3>3. Cardinality(Left(memb)) \in Nat
      BY ConnsAssumption, FS_Subset, FS_CardinalityType DEF Left
    <3>4. q \in Requests /\ q.memb \in Addrs
      BY <2>1, <2>2, <3>1, <3>2, <3>3, Zenon DEF Requests
    <3>5. queues' = queues /\ \E next \in Requests : req' = [req EXCEPT ![r] = next]
      BY <3>1, <3>4, RoundIs, Zenon
    <3>6. QED
      BY <2>1, <3>5 DEF RedisTypeOK
  <2>5. QED
    BY <2>3, <2>4
<1>2. ASSUME NEW r \in Coroutines, Connect(r)
       PROVE  RedisTypeOK'
  <2>1. req[r] \in Requests /\ req[r].memb \in Addrs
    BY <1>2, ActiveIs, VersionIs DEF Connect, Versions
  <2>2. PICK c \in Conns :
          /\ req' = [req EXCEPT ![r] = [req[r] EXCEPT !.pc = "send", !.sock = c]]
          /\ \/ conns' = [conns EXCEPT ![c].client = "used"]
             \/ conns' = [conns EXCEPT ![c] = [@ EXCEPT !.addr = req[r].memb, !.up = TRUE,
                                                     !.client = "used"]]
    BY <1>2 DEF Connect, Idle, FreeConns
  <2>3. [req[r] EXCEPT !.pc = "send", !.sock = c] \in Requests
    BY <2>1, Zenon DEF Requests
  <2>4. conns[c] \in ConnRecords
    BY DEF RedisTypeOK
  <2>5. /\ [conns[c] EXCEPT !.client = "used"] \in ConnRecords
        /\ [conns[c] EXCEPT !.addr = req[r].memb, !.up = TRUE, !.client = "used"] \in ConnRecords
    BY <2>1, <2>4, Zenon DEF ConnRecords
  <2>6. conns' \in [Conns -> ConnRecords]
    BY <2>2, <2>5, Zenon DEF RedisTypeOK
  <2>7. QED
    BY <1>2, <2>2, <2>3, <2>6 DEF Connect, RedisTypeOK
<1>3. ASSUME NEW r \in Coroutines, ConnectFails(r)
       PROVE  RedisTypeOK'
  BY <1>3, FailureKeepsType, FaultType DEF ConnectFails, Versions
<1>4. ASSUME NEW r \in Coroutines, Send(r)
       PROVE  RedisTypeOK'
  <2> DEFINE q == req[r]
             cmd == [id |-> q.id, i |-> Current(q), kind |-> q.cmds[Current(q)]]
  <2>1. q.pc = "send" /\ q \in Versions(r) /\ q \in Requests
    BY <1>4 DEF Send, Versions, RedisTypeOK
  <2>2. cmd \in Commands /\ q.sock \in Conns /\ conns[q.sock] \in ConnRecords
    BY <2>1, ActiveIs, HeldIs DEF Commands
  <2>3. [q EXCEPT !.pc = "line"] \in Requests
    BY <2>1 DEF Requests
  <2>4. Append(conns[q.sock].inbox, cmd) \in Seq(Commands)
    BY <2>2, AppendProperties DEF ConnRecords
  <2>5. [conns[q.sock] EXCEPT !.inbox = Append(@, cmd)] \in ConnRecords
    BY <2>2, <2>4, Zenon DEF ConnRecords
  <2>6. conns' \in [Conns -> ConnRecords]
    BY <1>4, <2>5 DEF Send, RedisTypeOK
  <2>7. QED
    BY <1>4, <2>3, <2>6 DEF Send, RedisTypeOK
<1>5. ASSUME NEW r \in Coroutines, SendFails(r)
       PROVE  RedisTypeOK'
  <2>1. faults' \in 0 .. MaxFaults
    BY <1>5 DEF SendFails, RedisTypeOK
  <2>2. QED
    BY <1>5, <2>1, FailureKeepsType DEF SendFails, Versions
<1>6. ASSUME NEW r \in Coroutines, ReadLine(r)
       PROVE  RedisTypeOK'
  <2> DEFINE q == req[r]
             part == Head(conns[q.sock].wire)
             read == [conns EXCEPT ![q.sock].wire = Tail(@)]
  <2>1. q.pc = "line" /\ q \in Versions(r) /\ q \in Requests /\ conns[q.sock].wire # << >>
    BY <1>6 DEF ReadLine, Versions, RedisTypeOK
  <2>2. q.sock \in Conns /\ conns[q.sock] \in ConnRecords /\ conns[q.sock].client = "used"
    BY <2>1, HeldIs, Zenon DEF HolderOK
  <2>3. read \in [Conns -> ConnRecords] /\ part \in Replies
    BY <2>1, <2>2, TakenIs, Zenon
  <2>4. read[q.sock].client = "used"
    BY <2>2 DEF RedisTypeOK, ConnRecords
  <2>5. UNCHANGED <<pools, calls, runs>> /\ faults' \in 0 .. MaxFaults
    BY <1>6 DEF ReadLine, RedisTypeOK
  <2>6. CASE part.kind = "status"
    <3>1. part \in Results
      BY <2>3, <2>6 DEF Replies, Results
    <3>2. RoundSucceeds(r, q, read, part, FALSE)
      BY <1>6, <2>6, Zenon DEF ReadLine
    <3>3. QED
      BY <2>1, <2>3, <2>4, <2>5, <3>1, <3>2, SuccessKeepsType, Zenon
  <2>7. CASE part.kind \in {"error", "bytes"}
    <3>1. RoundFails(r, q)
      BY <1>6, <2>7, Zenon DEF ReadLine
    <3>2. QED
      BY <2>1, <2>5, <3>1, FailureKeepsType
  <2>8. CASE part.kind \in {"bulk", "list"}
    <3>1. conns' = read /\ queues' = queues /\ req' \in {req, [req EXCEPT ![r].pc = "bytes"]}
      BY <1>6, <2>8, Zenon DEF ReadLine
    <3>2. [q EXCEPT !.pc = "bytes"] \in Requests
      BY <2>1 DEF Requests
    <3>3. QED
      BY <2>3, <2>5, <3>1, <3>2 DEF RedisTypeOK
  <2>9. QED
    BY <2>3, <2>6, <2>7, <2>8 DEF Replies
<1>7. ASSUME NEW r \in Coroutines, ReadLineFails(r)
       PROVE  RedisTypeOK'
  <2>1. PICK q \in Versions(r) : ReceiveFails(r, q) /\ RoundFails(r, q)
    BY <1>7 DEF ReadLineFails, Versions
  <2>2. faults' \in 0 .. MaxFaults
    BY <2>1, FaultType DEF ReceiveFails, RedisTypeOK
  <2>3. QED
    BY <1>7, <2>1, <2>2, FailureKeepsType DEF ReadLineFails
<1>8. ASSUME NEW r \in Coroutines, ReadBytes(r)
       PROVE  RedisTypeOK'
  <2> DEFINE q == req[r]
             part == Head(conns[q.sock].wire)
             read == [conns EXCEPT ![q.sock].wire = Tail(@)]
  <2>1. q.pc = "bytes" /\ q \in Versions(r) /\ conns[q.sock].wire # << >>
    BY <1>8 DEF ReadBytes, Versions
  <2>2. /\ q.sock \in Conns /\ conns[q.sock] \in ConnRecords /\ conns[q.sock].client = "used"
        /\ HolderOK(q, conns[q.sock])
    BY <2>1, HeldIs, Zenon DEF HolderOK
  <2>3. read \in [Conns -> ConnRecords] /\ part \in Replies
    BY <2>1, <2>2, TakenIs, Zenon
  <2>4. read[q.sock].client = "used"
    BY <2>2 DEF RedisTypeOK, ConnRecords
  <2>5. part.kind = "bytes"
    <3>1. Coming(conns[q.sock]) # << >> /\ Coming(conns[q.sock])[1] = part
      BY <2>1, <2>2, ComingIs, Zenon
    <3>2. QED
      BY <2>1, <2>2, <3>1 DEF HolderOK
  <2>6. part \in Results
    BY <2>3, <2>5 DEF Replies, Results
  <2>7. UNCHANGED <<pools, calls, runs>> /\ faults' \in 0 .. MaxFaults
    BY <1>8 DEF ReadBytes, RedisTypeOK
  <2>8. RoundSucceeds(r, q, read, part, FALSE)
    BY <1>8, Zenon DEF ReadBytes
  <2>9. QED
    BY <2>1, <2>3, <2>4, <2>6, <2>7, <2>8, SuccessKeepsType, Zenon
<1>9. ASSUME NEW r \in Coroutines, ReadBytesFails(r)
       PROVE  RedisTypeOK'
  <2>1. PICK q \in Versions(r) : ReceiveFails(r, q) /\ RoundSucceeds(r, q, conns, Garbled, TRUE)
    BY <1>9, Zenon DEF ReadBytesFails, Versions
  <2>2. faults' \in 0 .. MaxFaults
    BY <2>1, FaultType DEF ReceiveFails, RedisTypeOK
  <2>3. conns[req[r].sock].client = "used" /\ conns \in [Conns -> ConnRecords]
    BY <1>9, HeldIs, Zenon DEF ReadBytesFails, HolderOK, RedisTypeOK
  <2>4. Garbled \in Results
    BY DEF Garbled, Results
  <2>5. QED
    BY <1>9, <2>1, <2>2, <2>3, <2>4, SuccessKeepsType, Zenon DEF ReadBytesFails
<1>10. ASSUME NEW r \in Coroutines, NEW i \in Positions, Collect(r, i)
        PROVE  RedisTypeOK'
  <2>1. req[r] \in Requests /\ i \in DOMAIN req[r].results
    BY <1>10 DEF Collect, RedisTypeOK
  <2>2. [req[r].results EXCEPT ![i] = Collected] \in Seq(Results)
    BY <2>1, ExceptSeq, LenProperties DEF Collected, Results, Requests
  <2>3. [req[r] EXCEPT !.results[i] = Collected] \in Requests
    BY <2>1, <2>2, Zenon DEF Requests
  <2>4. req' = [req EXCEPT ![r] = [req[r] EXCEPT !.results[i] = Collected]]
    BY <1>10 DEF Collect
  <2>5. QED
    BY <1>10, <2>3, <2>4 DEF Collect, RedisTypeOK
<1>11. ASSUME NEW name \in Names, DelFromPool(name) \/ AddToPool(name)
        PROVE  RedisTypeOK'
  <2>1. name \in DOMAIN Added => Added[name] \in Addrs
    BY DEF Addrs
  <2>2. QED
    BY <1>11, <2>1 DEF DelFromPool, AddToPool, RedisTypeOK
<1>12. ASSUME NEW c \in Conns, Serve(c)
        PROVE  RedisTypeOK'
  <2> DEFINE cmd == Head(conns[c].inbox)
             wrong == <<[id |-> cmd.id, i |-> cmd.i, kind |-> "error"]>>
  <2>1. conns[c] \in ConnRecords /\ conns[c].inbox # << >> /\ UNCHANGED <<pools, queues, calls>>
    BY <1>12 DEF Serve, RedisTypeOK
  <2>2. cmd \in Commands
    BY <2>1, HeadTailProperties DEF ConnRecords
  <2>3. CASE /\ Replied(c, Parts(cmd)) /\ UNCHANGED <<req, faults>>
             /\ runs' = [runs EXCEPT ![cmd.id][cmd.i] = @ + 1]
    <3>1. conns' \in [Conns -> ConnRecords]
      BY <2>1, <2>2, <2>3, PartsAre, RepliedType
    <3>2. cmd.id \in 1 .. MaxCalls /\ cmd.i \in Positions
      BY <2>2 DEF Commands
    <3>3. runs' \in [1 .. MaxCalls -> [Positions -> Nat]]
      BY <2>3, <3>2 DEF RedisTypeOK
    <3>4. QED
      BY <2>1, <2>3, <3>1, <3>3 DEF RedisTypeOK
  <2>4. CASE Replied(c, wrong) /\ Fault /\ req' = Disturbed /\ UNCHANGED runs
    <3>1. cmd.id \in Nat /\ cmd.i \in Nat
      BY <2>2, CommandNumbers, Zenon
    <3>2. wrong \in Seq(Replies)
      BY <3>1 DEF Replies
    <3>3. conns' \in [Conns -> ConnRecords]
      BY <2>1, <2>4, <3>2, RepliedType, Zenon
    <3>4. QED
      BY <2>1, <2>4, <3>3, DisturbedType, FaultType DEF RedisTypeOK
  <2>5. QED
    BY <1>12, <2>3, <2>4 DEF Serve, Replied
<1>13. ASSUME NEW c \in Conns, Deliver(c)
        PROVE  RedisTypeOK'
  <2>1. conns[c] \in ConnRecords /\ conns[c].outbox # << >>
    BY <1>13 DEF Deliver, RedisTypeOK
  <2>2. /\ Tail(conns[c].outbox) \in Seq(Replies)
        /\ Append(conns[c].wire, Head(conns[c].outbox)) \in Seq(Replies)
    BY <2>1, HeadTailProperties, AppendProperties DEF ConnRecords
  <2>3. [conns[c] EXCEPT !.wire = Append(@, Head(conns[c].outbox)), !.outbox = Tail(@)]
          \in ConnRecords
    BY <2>1, <2>2, Zenon DEF ConnRecords
  <2>4. conns' \in [Conns -> ConnRecords]
    BY <1>13, <2>3 DEF Deliver, RedisTypeOK
  <2>5. QED
    BY <1>13, <2>4 DEF Deliver, RedisTypeOK
<1>14. ASSUME NEW c \in Conns, Reap(c)
        PROVE  RedisTypeOK'
  <2>1. Closed(conns[c]) \in ConnRecords
    BY ClosedIs DEF RedisTypeOK
  <2>2. QED
    BY <1>14, <2>1 DEF Reap, RedisTypeOK
<1>15. ASSUME NEW cs \in SUBSET Conns, Drop(cs)
        PROVE  RedisTypeOK'
  <2>1. \A c \in Conns :
          [conns[c] EXCEPT !.up = FALSE, !.inbox = << >>, !.outbox = << >>] \in ConnRecords
    BY EmptySeq, Zenon DEF ConnRecords, RedisTypeOK
  <2>2. conns' \in [Conns -> ConnRecords]
    BY <1>15, <2>1 DEF Drop, RedisTypeOK
  <2>3. QED
    BY <1>15, <2>2, DisturbedType, FaultType DEF Drop, RedisTypeOK
<1>16. CASE UNCHANGED redisVars
  BY <1>16 DEF redisVars, RedisTypeOK
<1>17. QED
  BY <1>1, <1>2, <1>3, <1>4, <1>5, <1>6, <1>7, <1>8, <1>9, <1>10, <1>11, <1>12, <1>13,
     <1>14, <1>15, <1>16 DEF RedisNext, Advance
-----------------------------------------------------------------------------
(* A fault changes nothing that a request relies on.                       *)
LEMMA VersionOK ==
  ASSUME RedisTypeOK, ReplyInv, NEW r \in Coroutines, NEW q \in Versions(r)
  PROVE  /\ RequestOK(q) /\ q.id <= calls
         /\ \A c : HolderOK(req[r], c) => HolderOK(q, c)
<1> DEFINE p == req[r]
<1>1. /\ q.pc = p.pc /\ q.id = p.id /\ q.cmds = p.cmds
      /\ q.memb = p.memb /\ q.index = p.index /\ q.sock = p.sock
      /\ q.results = p.results /\ q.answer = p.answer /\ (q.quiet => p.quiet)
  BY VersionIs
<1>2. RequestOK(p) /\ p.id <= calls
  BY DEF ReplyInv, HoldersInv
<1>3. \A i : ResultOK(p, i) => ResultOK(q, i)
  BY <1>1 DEF ResultOK
<1>4. RequestOK(q)
  BY <1>1, <1>2, <1>3 DEF RequestOK
<1>5. \A s : StreamOK(p, s) => StreamOK(q, s)
  BY <1>1 DEF StreamOK, Current
<1>6. \A c : HolderOK(p, c) => HolderOK(q, c)
  BY <1>1, <1>5 DEF HolderOK, Current
<1>7. QED
  BY <1>1, <1>2, <1>4, <1>6

(* A step of one request, which touches its own connection and such as no  *)
(* request uses.                                                           *)
LEMMA RequestStep ==
  ASSUME RedisTypeOK, ReplyInv, NEW r \in Coroutines, NEW next,
         req' = [req EXCEPT ![r] = next], RequestOK(next),
         calls' \in Nat, calls <= calls', next.id <= calls',
         next.id = req[r].id \/ next.id > calls,
         \A c \in Conns : ConnOK(conns'[c]),
         \A c \in Conns : c # req[r].sock /\ conns[c].client = "used" => conns'[c] = conns[c],
         next.sock # None =>
           /\ HolderOK(next, conns'[next.sock])
           /\ \A s \in Coroutines \ {r} : next.sock # req[s].sock
  PROVE  ReplyInv'
<1>1. \A s \in Coroutines : req[s] \in Requests /\ req[s].id \in Nat /\ req[s].id <= calls
  BY DEF RedisTypeOK, Requests, ReplyInv, HoldersInv
<1>2. calls \in Nat /\ req'[r] = next /\ \A s \in Coroutines \ {r} : req'[s] = req[s]
  BY DEF RedisTypeOK
<1>3. \A s \in Coroutines \ {r} :
        /\ RequestOK(req[s])
        /\ req[s].sock # None => HolderOK(req[s], conns[req[s].sock]) /\ req[s].sock # req[r].sock
  BY DEF ReplyInv, HoldersInv
<1>4. ASSUME NEW s \in Coroutines \ {r}, req[s].sock # None
      PROVE  HolderOK(req[s], conns'[req[s].sock])
  <2>1. req[s].sock \in Conns /\ conns[req[s].sock].client = "used"
    <3>1. HolderOK(req[s], conns[req[s].sock]) /\ req[s] \in Requests
      BY <1>1, <1>3, <1>4
    <3>2. QED
      BY <1>4, <3>1 DEF Requests, HolderOK
  <2>2. conns'[req[s].sock] = conns[req[s].sock]
    BY <1>3, <1>4, <2>1
  <2>3. QED
    BY <1>3, <1>4, <2>2
<1>5. ASSUME NEW s \in Coroutines, NEW t \in Coroutines \ {s}
      PROVE  /\ req'[s].sock # None => req'[s].sock # req'[t].sock
             /\ req'[s].id # 0 => req'[s].id # req'[t].id
  <2>1. /\ req[s].sock # None => req[s].sock # req[t].sock
        /\ req[s].id # 0 => req[s].id # req[t].id
        /\ req[t].sock # None => req[t].sock # req[s].sock
        /\ req[t].id # 0 => req[t].id # req[s].id
    BY DEF ReplyInv, HoldersInv
  <2>2. CASE s = r
    BY <1>1, <1>2, <2>1, <2>2
  <2>3. CASE t = r
    BY <1>1, <1>2, <2>1, <2>3
  <2>4. CASE s # r /\ t # r
    BY <1>2, <2>1, <2>4
  <2>5. QED
    BY <2>2, <2>3, <2>4
<1>6. ASSUME NEW s \in Coroutines
      PROVE  /\ RequestOK(req'[s]) /\ req'[s].id <= calls'
             /\ req'[s].sock # None => HolderOK(req'[s], conns'[req'[s].sock])
  <2>1. CASE s = r
    BY <1>2, <2>1
  <2>2. CASE s # r
    BY <1>1, <1>2, <1>3, <1>4, <2>2
  <2>3. QED
    BY <2>1, <2>2
<1>7. HoldersInv'
  BY <1>5, <1>6 DEF HoldersInv
<1>8. QED
  BY <1>7 DEF ReplyInv

(* A step of the servers, the network or nginx.                            *)
LEMMA ConnStep ==
  ASSUME RedisTypeOK, ReplyInv, req' \in {req, Disturbed}, calls' = calls,
         \A c \in Conns : ConnOK(conns'[c]),
         \A r \in Coroutines : req[r].sock # None => HolderOK(req'[r], conns'[req[r].sock])
  PROVE  ReplyInv'
<1>1. \A r \in Coroutines : req'[r] \in Versions(r)
  BY DEF Versions
<1>2. \A r \in Coroutines :
        /\ RequestOK(req'[r]) /\ req'[r].id <= calls'
        /\ req'[r].sock = req[r].sock /\ req'[r].id = req[r].id
  BY <1>1, VersionOK, VersionIs
<1>3. \A r \in Coroutines : \A s \in Coroutines \ {r} :
        /\ req'[r].sock # None => req'[r].sock # req'[s].sock
        /\ req'[r].id # 0 => req'[r].id # req'[s].id
  BY <1>2 DEF ReplyInv, HoldersInv
<1>4. HoldersInv'
  BY <1>2, <1>3 DEF HoldersInv
<1>5. QED
  BY <1>4 DEF ReplyInv

LEMMA ClosedOK ==
  ASSUME NEW c \in ConnRecords, ConnOK(c)
  PROVE  ConnOK(Closed(c))
  BY ClosedIs, Zenon DEF ConnOK

LEMMA FailureKeepsReply ==
  ASSUME RedisTypeOK, ReplyInv, NEW r \in Coroutines, NEW q \in Versions(r),
         req[r].pc # "idle", RoundFails(r, q), calls' = calls
  PROVE  ReplyInv'
<1>1. q \in Requests /\ q.memb \in Addrs /\ q.sock = req[r].sock /\ q.id = req[r].id
      /\ q.pc = req[r].pc
  BY VersionIs, ActiveIs
<1>2. PICK next \in Requests : req' = [req EXCEPT ![r] = next] /\ AfterFailure(q, next)
  BY <1>1, FailureIs
<1>3. conns' = IF q.sock = None THEN conns ELSE [conns EXCEPT ![q.sock] = Closed(@)]
  BY <1>1, FailureIs
<1>4. RequestOK(q) /\ q.id <= calls
  BY VersionOK
<1>5. RequestOK(next)
  <2>1. \A i : ResultOK(q, i) => ResultOK(next, i)
    BY <1>2 DEF ResultOK, AfterFailure, SameRequest
  <2>2. QED
    BY <1>1, <1>2, <1>4, <2>1 DEF RequestOK, AfterFailure, SameRequest
<1>6. \A c \in Conns : ConnOK(conns[c]) /\ ConnOK(Closed(conns[c]))
  BY ClosedOK DEF ReplyInv, RedisTypeOK
<1>7. \A c \in Conns : ConnOK(conns'[c]) /\ (c # req[r].sock => conns'[c] = conns[c])
  BY <1>1, <1>3, <1>6 DEF RedisTypeOK
<1>8. /\ next.sock = None /\ next.id = req[r].id
      /\ calls' \in Nat /\ calls <= calls' /\ next.id <= calls'
  BY <1>1, <1>2, <1>4 DEF AfterFailure, SameRequest, RedisTypeOK
<1>9. QED
  BY <1>2, <1>5, <1>7, <1>8, RequestStep, Zenon

LEMMA SuccessKeepsReply ==
  ASSUME RedisTypeOK, ReplyInv, NEW r \in Coroutines, NEW q \in Versions(r),
         req[r].pc \in {"send", "line", "bytes"},
         NEW cs \in [Conns -> ConnRecords],
         cs[req[r].sock].client = "used", cs[req[r].sock].inbox = << >>,
         NEW result \in Results, NEW failed \in BOOLEAN,
         ~failed /\ cs[req[r].sock].wire = << >> => cs[req[r].sock].outbox = << >>,
         \A c \in Conns \ {req[r].sock} : cs[c] = conns[c],
         \/ result.id = q.id /\ result.i = Current(q)
         \/ result = Garbled /\ q.cmds[Current(q)] # "status",
         RoundSucceeds(r, q, cs, result, failed), calls' = calls
  PROVE  ReplyInv'
<1> DEFINE k == req[r].sock
<1>1. q \in Requests /\ q.memb \in Addrs /\ q.sock = k /\ q.id = req[r].id
      /\ q.pc = req[r].pc
  BY VersionIs, ActiveIs
<1>2. PICK next \in Requests : req' = [req EXCEPT ![r] = next] /\ AfterSuccess(q, next, result)
  BY <1>1, SuccessIs
<1>3. k \in Conns /\ conns' \in SetKeepAlive(cs, k, failed)
  BY <1>1, SuccessIs, HeldIs
<1>4. KeptOrClosed(cs, conns', k, failed)
  BY <1>3, KeepAliveIs
<1>5. RequestOK(q) /\ q.id <= calls
  BY VersionOK
<1>6. Len(q.results) \in Nat /\ Len(q.results) < Len(q.cmds) /\ q.results \in Seq(Results)
      /\ Len(q.cmds) \in Nat
  BY <1>1, ActiveIs DEF Requests
<1>7. /\ Len(next.results) = Len(q.results) + 1
      /\ \A i \in 1 .. Len(q.results) : next.results[i] = q.results[i]
      /\ next.results[Len(q.results) + 1] = result
  BY <1>2, <1>6, AppendProperties DEF AfterSuccess
<1>8. \A i \in 1 .. Len(next.results) : ResultOK(next, i)
  <2> SUFFICES ASSUME NEW i \in 1 .. Len(next.results)
               PROVE  ResultOK(next, i)
    OBVIOUS
  <2>1. next.id = q.id /\ next.cmds = q.cmds
    BY <1>2 DEF AfterSuccess, SameRequest
  <2>2. CASE i \in 1 .. Len(q.results)
    BY <1>5, <1>7, <2>1, <2>2 DEF RequestOK, ResultOK
  <2>3. CASE i = Len(q.results) + 1
    BY <1>7, <2>1, <2>3 DEF ResultOK, Current
  <2>4. QED
    BY <1>6, <1>7, <2>2, <2>3
<1>9. RequestOK(next)
  BY <1>1, <1>2, <1>5, <1>6, <1>7, <1>8, RoundsAssumption
     DEF RequestOK, AfterSuccess, SameRequest
<1>10. \A c \in Conns : ConnOK(conns'[c])
  <2> SUFFICES ASSUME NEW c \in Conns
               PROVE  ConnOK(conns'[c])
    OBVIOUS
  <2>1. cs[c] \in ConnRecords /\ conns[c] \in ConnRecords /\ ConnOK(conns[c])
    BY DEF RedisTypeOK, ReplyInv
  <2>2. CASE c # k
    BY <1>4, <2>1, <2>2, ClosedOK DEF KeptOrClosed
  <2>3. CASE c = k /\ conns'[k] = Closed(cs[k])
    BY <2>1, <2>3, ClosedIs, EmptySeq DEF ConnOK
  <2>4. CASE c = k /\ conns'[k] = [cs[k] EXCEPT !.client = "idle"] /\ ~failed /\ cs[k].wire = << >>
    BY <2>1, <2>4, EmptySeq DEF ConnOK, ConnRecords
  <2>5. QED
    BY <1>4, <2>2, <2>3, <2>4 DEF KeptOrClosed
<1>11. \A c \in Conns : c # k /\ conns[c].client = "used" => conns'[c] = conns[c]
  BY <1>4 DEF KeptOrClosed
<1>12. /\ next.sock = None /\ next.id = req[r].id
       /\ calls' \in Nat /\ calls <= calls' /\ next.id <= calls'
  BY <1>1, <1>2, <1>5 DEF AfterSuccess, SameRequest, RedisTypeOK
<1>13. QED
  BY <1>2, <1>9, <1>10, <1>11, <1>12, RequestStep, Zenon
-----------------------------------------------------------------------------
(* What is coming, less its first part, or cut off.                        *)
LEMMA StreamTail ==
  ASSUME NEW q, NEW s \in Seq(Replies), s # << >>, StreamOK(q, s)
  PROVE  StreamOK(q, Tail(s))
<1>1. /\ Len(s) \in Nat \ {0} /\ Len(Tail(s)) = Len(s) - 1
      /\ \A k \in 1 .. Len(Tail(s)) : Tail(s)[k] = s[k + 1]
  BY EmptySeq, HeadTailProperties
<1>2. \A k \in 1 .. Len(Tail(s)) : k + 1 \in 1 .. Len(s)
  BY <1>1
<1>3. QED
  BY <1>1, <1>2 DEF StreamOK

LEMMA PrefixIs ==
  ASSUME NEW S, NEW s \in Seq(S), NEW t \in Seq(S)
  PROVE  /\ Len(s) \in Nat /\ Len(t) \in Nat /\ Len(s \o t) = Len(s) + Len(t)
         /\ \A k \in 1 .. Len(s) : k \in 1 .. Len(s \o t) /\ (s \o t)[k] = s[k]
<1>1. /\ Len(s) \in Nat /\ Len(t) \in Nat /\ Len(s \o t) = Len(s) + Len(t)
      /\ \A k \in 1 .. Len(s) : (s \o t)[k] = s[k]
  BY ConcatProperties, LenProperties
<1>2. QED
  BY <1>1

LEMMA StreamPrefix ==
  ASSUME NEW q, NEW s \in Seq(Replies), NEW t \in Seq(Replies), StreamOK(q, s \o t)
  PROVE  StreamOK(q, s)
<1>1. /\ Len(s) \in Nat /\ Len(t) \in Nat /\ Len(s \o t) = Len(s) + Len(t)
      /\ \A k \in 1 .. Len(s) : k \in 1 .. Len(s \o t) /\ (s \o t)[k] = s[k]
  BY PrefixIs
<1>2. \A k \in 1 .. Len(s) : k \in 1 .. Len(s \o t) /\ (k < Len(s) => k + 1 \in 1 .. Len(s))
  BY <1>1
<1>3. QED
  BY <1>1, <1>2 DEF StreamOK

(* The next part of what is coming to a request.                           *)
LEMMA FirstPart ==
  ASSUME NEW q, NEW c \in ConnRecords, HolderOK(q, c), c.wire # << >>
  PROVE  LET part == Head(c.wire)
             rest == [c EXCEPT !.wire = Tail(@)]
         IN /\ part.id = q.id /\ part.i = Current(q)
            /\ part.kind = "bytes" <=> q.pc = "bytes"
            /\ part.kind \in {"status", "bytes", "error"} => rest.wire = << >> /\ rest.outbox = << >>
            /\ part.kind = "error" => ~q.quiet
            /\ part.kind \in {"list", "bulk", "bytes"} => q.cmds[Current(q)] # "status"
            /\ StreamOK(q, Coming(rest))
            /\ part.kind = "list" /\ Coming(rest) # << >> => Coming(rest)[1].kind = "bulk"
            /\ part.kind = "bulk" /\ Coming(rest) # << >> => Coming(rest)[1].kind = "bytes"
<1> DEFINE part == Head(c.wire)
           rest == [c EXCEPT !.wire = Tail(@)]
           all == Coming(c)
<1>1. all \in Seq(Replies) /\ all # << >> /\ all[1] = part /\ Coming(rest) = Tail(all)
  BY ComingIs, Zenon
<1>2. /\ Len(all) \in Nat \ {0} /\ Tail(all) \in Seq(Replies) /\ Len(Tail(all)) = Len(all) - 1
      /\ \A k \in 1 .. Len(Tail(all)) : Tail(all)[k] = all[k + 1]
  BY <1>1, EmptySeq, HeadTailProperties
<1>3. 1 \in 1 .. Len(all)
  BY <1>2
<1>4. StreamOK(q, all) /\ (all[1].kind = "bytes" <=> q.pc = "bytes")
  BY <1>1 DEF HolderOK
<1>5. /\ part.id = q.id /\ part.i = Current(q)
      /\ part.kind \in {"status", "bytes", "error"} => Len(all) = 1
      /\ part.kind = "error" => ~q.quiet
      /\ part.kind \in {"list", "bulk", "bytes"} => q.cmds[Current(q)] # "status"
      /\ part.kind = "list" /\ 1 < Len(all) => all[2].kind = "bulk"
      /\ part.kind = "bulk" /\ 1 < Len(all) => all[2].kind = "bytes"
  <2>1. /\ all[1].id = q.id /\ all[1].i = Current(q)
        /\ all[1].kind \in {"status", "bytes", "error"} => 1 = Len(all)
        /\ all[1].kind = "list" /\ 1 < Len(all) => all[1 + 1].kind = "bulk"
        /\ all[1].kind = "bulk" /\ 1 < Len(all) => all[1 + 1].kind = "bytes"
        /\ all[1].kind \in {"list", "bulk", "bytes"} => q.cmds[Current(q)] # "status"
        /\ all[1].kind = "error" => ~q.quiet
    BY <1>3, <1>4, Zenon DEF StreamOK
  <2>2. 1 + 1 = 2
    OBVIOUS
  <2>3. QED
    BY <1>1, <2>1, <2>2
<1>6. c.wire \in Seq(Replies) /\ c.outbox \in Seq(Replies)
  BY DEF ConnRecords
<1>7. ASSUME Len(all) = 1
      PROVE  rest.wire = << >> /\ rest.outbox = << >>
  <2>1. Len(all) = Len(c.wire) + Len(c.outbox)
    BY <1>6, ConcatProperties DEF Coming
  <2>2. Len(c.wire) \in Nat /\ Len(c.wire) # 0 /\ Len(c.outbox) \in Nat
    BY <1>6, EmptySeq, LenProperties
  <2>3. Len(c.wire) = 1 /\ Len(c.outbox) = 0
    <3>1. \A m, x \in Nat : m # 0 /\ m + x = 1 => m = 1 /\ x = 0
      OBVIOUS
    <3>2. QED
      BY <1>7, <2>1, <2>2, <3>1, Zenon
  <2>4. c.outbox = << >>
    BY <1>6, <2>3, EmptySeq
  <2>5. Tail(c.wire) = << >>
    <3>1. Tail(c.wire) \in Seq(Replies) /\ Len(Tail(c.wire)) = 0
      BY <1>6, <2>3, HeadTailProperties
    <3>2. QED
      BY <3>1, EmptySeq, Zenon
  <2>6. QED
    BY <2>4, <2>5 DEF ConnRecords
<1>8. StreamOK(q, Coming(rest))
  BY <1>1, <1>4, StreamTail, Zenon
<1>9. Coming(rest) # << >> => 1 < Len(all) /\ Coming(rest)[1] = all[2]
  BY <1>1, <1>2, EmptySeq
<1>10. QED
  BY <1>1, <1>4, <1>5, <1>7, <1>8, <1>9
-----------------------------------------------------------------------------
(* Lemmas on one action each: a call begins a request of a new id, ...     *)
LEMMA CallKeepsReply ==
  ASSUME RedisTypeOK, ReplyInv, NEW r \in Coroutines, NEW name \in Names, Call(r, name)
  PROVE  ReplyInv'
<1>1. /\ calls \in Nat /\ calls' = calls + 1 /\ calls' \in 0 .. MaxCalls
      /\ conns' = conns /\ req[r].pc = "idle"
  <2>1. calls < MaxCalls /\ calls' = calls + 1 /\ conns' = conns /\ req[r].pc = "idle"
    BY DEF Call
  <2>2. QED
    BY <2>1, BoundsAssumption DEF RedisTypeOK
<1>2. \A c \in Conns : ConnOK(conns'[c])
  BY <1>1 DEF ReplyInv
<1>3. NoRequest \in Requests
  BY BoundsAssumption, EmptySeq DEF NoRequest, Requests
<1>4. CASE pools[name] = {}
  <2> DEFINE next == [NoRequest EXCEPT !.id = calls', !.answer = "unknown"]
  <2>1. req' = [req EXCEPT ![r] = next]
    BY <1>4 DEF Call
  <2>2. RequestOK(next) /\ next.id = calls' /\ next.sock = None
    BY DEF RequestOK, NoRequest
  <2>3. calls' \in Nat /\ calls <= calls' /\ next.id <= calls' /\ next.id > calls
    BY <1>1, <2>2
  <2>4. \A c \in Conns : c # req[r].sock /\ conns[c].client = "used" => conns'[c] = conns[c]
    BY <1>1
  <2>5. QED
    BY <1>2, <2>1, <2>2, <2>3, <2>4, RequestStep, Zenon
<1>5. CASE pools[name] # {}
  <2>1. PICK memb \in pools[name], cmds \in Batches :
          Round(r, [NoRequest EXCEPT !.id = calls', !.cmds = cmds, !.memb = memb,
                                     !.stale = Cardinality(Left(memb))])
    BY <1>5 DEF Call
  <2> DEFINE q == [NoRequest EXCEPT !.id = calls', !.cmds = cmds, !.memb = memb,
                                    !.stale = Cardinality(Left(memb))]
  <2>2. memb \in Addrs
    BY <2>1 DEF RedisTypeOK
  <2>3. Cardinality(Left(memb)) \in Nat
    BY ConnsAssumption, FS_Subset, FS_CardinalityType DEF Left
  <2>4. q \in Requests /\ q.memb \in Addrs
    BY <1>1, <1>3, <2>1, <2>2, <2>3, Zenon DEF Requests
  <2>5. PICK next \in Requests :
          /\ req' = [req EXCEPT ![r] = next]
          /\ SameRequest(q, next) /\ Begins(q, next)
    BY <2>1, <2>4, RoundIs, Zenon
  <2>6. /\ q.id = calls' /\ q.cmds = cmds /\ q.memb = memb /\ q.sock = None
        /\ q.results = << >> /\ q.answer = "none" /\ q.index = 0
    BY DEF NoRequest
  <2>7. cmds # << >> /\ Len(cmds) \in Nat /\ Len(cmds) > 0 /\ Len(<< >>) = 0
    BY BatchesAssumption, EmptySeq, LenProperties
  <2>8. RequestOK(next) /\ next.id = calls' /\ next.sock = None
    BY <1>1, <2>2, <2>5, <2>6, <2>7, RoundsAssumption DEF SameRequest, Begins, RequestOK
  <2>9. calls' \in Nat /\ calls <= calls' /\ next.id <= calls' /\ next.id > calls
    BY <1>1, <2>8
  <2>10. \A c \in Conns : c # req[r].sock /\ conns[c].client = "used" => conns'[c] = conns[c]
    BY <1>1
  <2>11. QED
    BY <1>2, <2>5, <2>8, <2>9, <2>10, RequestStep, Zenon
<1>6. QED
  BY <1>4, <1>5

(* ... a connection is taken that nobody uses and nothing is under way on, *)
LEMMA ConnectKeepsReply ==
  ASSUME RedisTypeOK, ReplyInv, NEW r \in Coroutines, Connect(r)
  PROVE  ReplyInv'
<1> DEFINE q == req[r]
<1>1. q.pc = "connect" /\ q \in Requests /\ q.memb \in Addrs /\ calls' = calls
  BY ActiveIs, VersionIs DEF Connect, Versions
<1>2. PICK c \in Conns :
        /\ req' = [req EXCEPT ![r] = [q EXCEPT !.pc = "send", !.sock = c]]
        /\ conns[c].client \in {"idle", "closed"} /\ conns[c].inbox = << >>
        /\ \/ conns' = [conns EXCEPT ![c].client = "used"] /\ conns[c].addr = q.memb
           \/ conns' = [conns EXCEPT ![c] = [@ EXCEPT !.addr = q.memb, !.up = TRUE,
                                                   !.client = "used"]]
  BY DEF Connect, Idle, FreeConns, ReplyInv, ConnOK
<1> DEFINE next == [q EXCEPT !.pc = "send", !.sock = c]
           k == conns'[c]
<1>3. conns[c] \in ConnRecords /\ ConnOK(conns[c])
  BY DEF RedisTypeOK, ReplyInv
<1>4. /\ k.client = "used" /\ k.addr = q.memb /\ k.inbox = << >>
      /\ k.wire = << >> /\ k.outbox = << >>
      /\ \A d \in Conns \ {c} : conns'[d] = conns[d]
  <2>1. conns[c].wire = << >> /\ conns[c].outbox = << >>
    BY <1>2, <1>3 DEF ConnOK
  <2>2. CASE conns' = [conns EXCEPT ![c].client = "used"] /\ conns[c].addr = q.memb
    BY <1>2, <1>3, <2>1, <2>2 DEF RedisTypeOK, ConnRecords
  <2>3. CASE conns' = [conns EXCEPT ![c] = [@ EXCEPT !.addr = q.memb, !.up = TRUE, !.client = "used"]]
    BY <1>2, <1>3, <2>1, <2>3 DEF RedisTypeOK, ConnRecords
  <2>4. QED
    BY <1>2, <2>2, <2>3
<1>5. Coming(k) = << >>
  BY <1>4, EmptySeq, ConcatEmptySeq DEF Coming
<1>6. /\ next.pc = "send" /\ next.sock = c /\ next.id = q.id /\ next.memb = q.memb
      /\ next.cmds = q.cmds /\ next.results = q.results /\ next.index = q.index
      /\ next.answer = q.answer
  BY <1>1 DEF Requests
<1>7. HolderOK(next, k)
  BY <1>4, <1>5, <1>6, EmptySeq DEF HolderOK, StreamOK
<1>8. RequestOK(q) /\ q.id <= calls /\ calls \in Nat
  BY DEF ReplyInv, HoldersInv, RedisTypeOK
<1>9. RequestOK(next)
  <2>1. \A i : ResultOK(q, i) => ResultOK(next, i)
    BY <1>6 DEF ResultOK
  <2>2. QED
    BY <1>1, <1>6, <1>8, <2>1, NoneAssumption DEF RequestOK
<1>10. \A d \in Conns : ConnOK(conns'[d])
  BY <1>4, EmptySeq DEF ConnOK, ReplyInv
<1>11. \A s \in Coroutines \ {r} : c # req[s].sock
  <2> SUFFICES ASSUME NEW s \in Coroutines \ {r}, c = req[s].sock
               PROVE  FALSE
    OBVIOUS
  <2>1. HolderOK(req[s], conns[c])
    BY NoneAssumption DEF ReplyInv, HoldersInv
  <2>2. QED
    BY <1>2, <2>1 DEF HolderOK
<1>12. \A d \in Conns : d # q.sock /\ conns[d].client = "used" => conns'[d] = conns[d]
  BY <1>2, <1>4
<1>13. /\ next.id = req[r].id /\ calls' \in Nat /\ calls <= calls' /\ next.id <= calls'
       /\ req' = [req EXCEPT ![r] = next]
       /\ HolderOK(next, conns'[next.sock]) /\ \A s \in Coroutines \ {r} : next.sock # req[s].sock
  BY <1>1, <1>2, <1>6, <1>7, <1>8, <1>11
<1>14. QED
  BY <1>9, <1>10, <1>12, <1>13, RequestStep, Zenon

(* ... a command is sent on a connection with nothing else under way.      *)
LEMMA SendKeepsReply ==
  ASSUME RedisTypeOK, ReplyInv, NEW r \in Coroutines, Send(r)
  PROVE  ReplyInv'
<1> DEFINE q == req[r]
           k == q.sock
           cmd == [id |-> q.id, i |-> Current(q), kind |-> q.cmds[Current(q)]]
           next == [q EXCEPT !.pc = "line"]
           sent == [conns[k] EXCEPT !.inbox = Append(@, cmd)]
<1>1. q.pc = "send" /\ q \in Versions(r) /\ q \in Requests /\ calls' = calls
  BY DEF Send, Versions, RedisTypeOK
<1>2. /\ cmd \in Commands /\ k \in Conns /\ conns[k] \in ConnRecords
      /\ HolderOK(q, conns[k]) /\ ConnOK(conns[k])
  BY <1>1, ActiveIs, HeldIs DEF Commands
<1>3. req' = [req EXCEPT ![r] = next] /\ conns' = IF conns[k].up THEN [conns EXCEPT ![k] = sent] ELSE conns
  BY DEF Send
<1>4. conns[k].inbox = << >> /\ Coming(conns[k]) = << >>
  BY <1>1, <1>2 DEF HolderOK
<1>5. conns[k].wire = << >> /\ conns[k].outbox = << >>
  BY <1>2, <1>4, ConcatEqualIffEmpty DEF Coming, ConnRecords
<1>6. /\ next.pc = "line" /\ next.sock = k /\ next.id = q.id /\ next.memb = q.memb
      /\ next.cmds = q.cmds /\ next.results = q.results /\ next.index = q.index
      /\ next.answer = q.answer
  BY <1>1 DEF Requests
<1>7. RequestOK(q) /\ q.id <= calls /\ calls \in Nat
  BY DEF ReplyInv, HoldersInv, RedisTypeOK
<1>8. RequestOK(next)
  <2>1. \A i : ResultOK(q, i) => ResultOK(next, i)
    BY <1>6 DEF ResultOK
  <2>2. QED
    BY <1>1, <1>6, <1>7, <2>1 DEF RequestOK
<1>9. /\ sent.client = conns[k].client /\ sent.addr = conns[k].addr /\ sent.up = conns[k].up
      /\ sent.wire = << >> /\ sent.outbox = << >>
      /\ sent.inbox = Append(<< >>, cmd) /\ Len(sent.inbox) = 1 /\ sent.inbox[1] = cmd
      /\ Coming(sent) = << >>
  <2>1. Append(<< >>, cmd) = <<cmd>>
    OBVIOUS
  <2>2. QED
    BY <1>2, <1>4, <1>5, <2>1, EmptySeq, ConcatEmptySeq DEF ConnRecords, Coming
<1>10. HolderOK(next, conns[k])
  BY <1>2, <1>4, <1>6, EmptySeq DEF HolderOK, StreamOK
<1>11. HolderOK(next, sent)
  <2>1. sent.inbox[1] = [id |-> next.id, i |-> Current(next), kind |-> next.cmds[Current(next)]]
    BY <1>6, <1>9 DEF Current
  <2>2. sent.client = "used" /\ sent.addr = next.memb
    BY <1>2, <1>6, <1>9 DEF HolderOK
  <2>3. StreamOK(next, Coming(sent))
    BY <1>9, EmptySeq DEF StreamOK
  <2>4. QED
    BY <1>6, <1>9, <2>1, <2>2, <2>3 DEF HolderOK
<1>12. conns[k].up => ConnOK(sent)
  <2>1. sent.client = "used"
    BY <1>2, <1>9 DEF HolderOK
  <2> HIDE DEF sent
  <2>2. QED
    BY <1>9, <2>1 DEF ConnOK
<1>13. \A c \in Conns : ConnOK(conns'[c]) /\ (c # k => conns'[c] = conns[c])
  BY <1>3, <1>12 DEF ReplyInv, RedisTypeOK
<1>14. HolderOK(next, conns'[k])
  BY <1>2, <1>3, <1>10, <1>11, Zenon DEF RedisTypeOK
<1>15. \A s \in Coroutines \ {r} : k # req[s].sock
  BY <1>2, NoneAssumption DEF ReplyInv, HoldersInv
<1>16. /\ next.id = req[r].id /\ calls' \in Nat /\ calls <= calls' /\ next.id <= calls'
       /\ HolderOK(next, conns'[next.sock]) /\ \A s \in Coroutines \ {r} : next.sock # req[s].sock
  BY <1>1, <1>6, <1>7, <1>14, <1>15
<1>17. QED
  BY <1>3, <1>8, <1>13, <1>16, RequestStep

(* What has been read of a reply: the rest of it is still to come.         *)
LEMMA RestOK ==
  ASSUME NEW q \in Requests, NEW c \in ConnRecords, HolderOK(q, c), ConnOK(c), c.wire # << >>,
         q.pc = "line",
         NEW next, next \in {q, [q EXCEPT !.pc = "bytes"]},
         next.pc = "bytes" <=> Head(c.wire).kind = "bulk",
         Head(c.wire).kind \in {"bulk", "list"}
  PROVE  /\ HolderOK(next, [c EXCEPT !.wire = Tail(@)])
         /\ ConnOK([c EXCEPT !.wire = Tail(@)])
<1> DEFINE part == Head(c.wire)
           rest == [c EXCEPT !.wire = Tail(@)]
<1>1. /\ next.id = q.id /\ next.cmds = q.cmds /\ next.memb = q.memb /\ next.quiet = q.quiet
      /\ next.results = q.results /\ next.pc \in {"line", "bytes"}
  BY DEF Requests
<1>2. Current(next) = Current(q)
  BY <1>1 DEF Current
<1>3. c.inbox = << >>
  BY DEF ConnOK
<1>4. /\ rest.client = c.client /\ rest.addr = c.addr /\ rest.up = c.up
      /\ rest.inbox = << >> /\ rest.outbox = c.outbox
  BY <1>3 DEF ConnRecords
<1>5. /\ part.kind \in {"list", "bulk", "bytes"} => q.cmds[Current(q)] # "status"
      /\ StreamOK(q, Coming(rest))
      /\ part.kind = "list" /\ Coming(rest) # << >> => Coming(rest)[1].kind = "bulk"
      /\ part.kind = "bulk" /\ Coming(rest) # << >> => Coming(rest)[1].kind = "bytes"
  BY FirstPart, Zenon
<1>6. StreamOK(next, Coming(rest))
  BY <1>1, <1>2, <1>5, Zenon DEF StreamOK
<1>7. c.client = "used" /\ c.addr = q.memb
  BY DEF HolderOK
<1>8. Coming(rest) # << >> => (Coming(rest)[1].kind = "bytes" <=> next.pc = "bytes")
  BY <1>5
<1>9. HolderOK(next, rest)
  BY <1>1, <1>2, <1>4, <1>5, <1>6, <1>7, <1>8 DEF HolderOK
<1>10. ConnOK(rest)
  BY <1>4, <1>7, EmptySeq DEF ConnOK
<1>11. QED
  BY <1>9, <1>10

LEMMA ReadLineKeepsReply ==
  ASSUME RedisTypeOK, ReplyInv, NEW r \in Coroutines, ReadLine(r)
  PROVE  ReplyInv'
<1> DEFINE q == req[r]
           k == q.sock
           part == Head(conns[k].wire)
           rest == [conns[k] EXCEPT !.wire = Tail(@)]
           read == [conns EXCEPT ![k].wire = Tail(@)]
<1>1. /\ q.pc = "line" /\ q \in Versions(r) /\ q \in Requests /\ conns[k].wire # << >>
      /\ calls' = calls
  BY DEF ReadLine, Versions, RedisTypeOK
<1>2. k \in Conns /\ conns[k] \in ConnRecords /\ HolderOK(q, conns[k]) /\ ConnOK(conns[k])
  BY <1>1, HeldIs
<1>3. read \in [Conns -> ConnRecords] /\ part \in Replies
  BY <1>1, <1>2, TakenIs, Zenon
<1>4. read[k] = rest /\ \A c \in Conns \ {k} : read[c] = conns[c]
  BY <1>2, Zenon DEF RedisTypeOK
<1>5. conns[k].client = "used" /\ conns[k].inbox = << >>
  BY <1>1, <1>2 DEF HolderOK, ConnOK
<1>6. /\ part.id = q.id /\ part.i = Current(q)
      /\ part.kind \in {"status", "bytes", "error"} => rest.outbox = << >>
  BY <1>1, <1>2, FirstPart, Zenon
<1>7. CASE part.kind = "status"
  <2>1. RoundSucceeds(r, q, read, part, FALSE)
    BY <1>7, Zenon DEF ReadLine
  <2>2. part \in Results
    BY <1>3, <1>7 DEF Replies, Results
  <2>3. /\ read[req[r].sock].client = "used" /\ read[req[r].sock].inbox = << >>
        /\ ~FALSE /\ read[req[r].sock].wire = << >> => read[req[r].sock].outbox = << >>
        /\ \A c \in Conns \ {req[r].sock} : read[c] = conns[c]
        /\ FALSE \in BOOLEAN /\ req[r].pc \in {"send", "line", "bytes"}
        /\ \/ part.id = q.id /\ part.i = Current(q)
           \/ part = Garbled /\ q.cmds[Current(q)] # "status"
    BY <1>1, <1>2, <1>4, <1>5, <1>6, <1>7 DEF ConnRecords
  <2>4. QED
    BY <1>1, <1>3, <2>1, <2>2, <2>3, SuccessKeepsReply
<1>8. CASE part.kind \in {"error", "bytes"}
  <2>1. RoundFails(r, q)
    BY <1>8, Zenon DEF ReadLine
  <2>2. QED
    BY <1>1, <2>1, FailureKeepsReply
<1>9. CASE part.kind \in {"bulk", "list"}
  <2> DEFINE next == IF part.kind = "bulk" THEN [q EXCEPT !.pc = "bytes"] ELSE q
  <2>1. req' = [req EXCEPT ![r] = next] /\ conns' = read
    <3>1. CASE part.kind = "bulk"
      BY <3>1, Zenon DEF ReadLine
    <3>2. CASE part.kind = "list"
      BY <3>2, Zenon DEF ReadLine, RedisTypeOK
    <3>3. QED
      BY <1>9, <3>1, <3>2
  <2>2. /\ next \in {q, [q EXCEPT !.pc = "bytes"]} /\ (next.pc = "bytes" <=> part.kind = "bulk")
        /\ next.pc \in {"line", "bytes"} /\ next.sock = k /\ next.id = q.id /\ next.cmds = q.cmds
        /\ next.memb = q.memb /\ next.results = q.results /\ next.answer = q.answer
        /\ next.index = q.index
    BY <1>1 DEF Requests
  <2>3. HolderOK(next, rest) /\ ConnOK(rest)
    BY <1>1, <1>2, <1>9, <2>2, RestOK, Zenon
  <2>4. RequestOK(q) /\ q.id <= calls /\ calls \in Nat
    BY DEF ReplyInv, HoldersInv, RedisTypeOK
  <2>5. RequestOK(next)
    <3>1. \A i : ResultOK(q, i) => ResultOK(next, i)
      BY <2>2 DEF ResultOK
    <3>2. QED
      BY <1>1, <2>2, <2>4, <3>1 DEF RequestOK
  <2>6. \A c \in Conns : ConnOK(conns'[c])
    BY <1>4, <2>1, <2>3 DEF ReplyInv
  <2>7. \A s \in Coroutines \ {r} : k # req[s].sock
    BY <1>2, NoneAssumption DEF ReplyInv, HoldersInv
  <2>8. \A c \in Conns : c # req[r].sock /\ conns[c].client = "used" => conns'[c] = conns[c]
    BY <1>4, <2>1
  <2>9. /\ next.id = req[r].id /\ calls' \in Nat /\ calls <= calls' /\ next.id <= calls'
        /\ HolderOK(next, conns'[next.sock]) /\ \A s \in Coroutines \ {r} : next.sock # req[s].sock
    <3> HIDE DEF next
    <3>1. conns'[k] = rest
      BY <1>4, <2>1
    <3>2. QED
      BY <1>1, <2>2, <2>3, <2>4, <2>7, <3>1
  <2>10. QED
    BY <2>1, <2>5, <2>6, <2>8, <2>9, RequestStep
<1>10. QED
  BY <1>3, <1>7, <1>8, <1>9 DEF Replies

LEMMA ReadBytesKeepsReply ==
  ASSUME RedisTypeOK, ReplyInv, NEW r \in Coroutines, ReadBytes(r)
  PROVE  ReplyInv'
<1> DEFINE q == req[r]
           k == q.sock
           part == Head(conns[k].wire)
           rest == [conns[k] EXCEPT !.wire = Tail(@)]
           read == [conns EXCEPT ![k].wire = Tail(@)]
<1>1. /\ q.pc = "bytes" /\ q \in Versions(r) /\ q \in Requests /\ conns[k].wire # << >>
      /\ calls' = calls
  BY DEF ReadBytes, Versions, RedisTypeOK
<1>2. k \in Conns /\ conns[k] \in ConnRecords /\ HolderOK(q, conns[k]) /\ ConnOK(conns[k])
  BY <1>1, HeldIs
<1>3. read \in [Conns -> ConnRecords] /\ part \in Replies
  BY <1>1, <1>2, TakenIs, Zenon
<1>4. read[k] = rest /\ \A c \in Conns \ {k} : read[c] = conns[c]
  BY <1>2 DEF RedisTypeOK
<1>5. conns[k].client = "used" /\ conns[k].inbox = << >>
  BY <1>1, <1>2 DEF HolderOK, ConnOK
<1>6. /\ part.id = q.id /\ part.i = Current(q) /\ part.kind = "bytes"
      /\ part.kind \in {"status", "bytes", "error"} => rest.outbox = << >>
  BY <1>1, <1>2, FirstPart, Zenon
<1>7. part \in Results
  BY <1>3, <1>6 DEF Replies, Results
<1>8. /\ read[req[r].sock].client = "used" /\ read[req[r].sock].inbox = << >>
      /\ ~FALSE /\ read[req[r].sock].wire = << >> => read[req[r].sock].outbox = << >>
      /\ \A c \in Conns \ {req[r].sock} : read[c] = conns[c]
      /\ FALSE \in BOOLEAN /\ req[r].pc \in {"send", "line", "bytes"}
      /\ \/ part.id = q.id /\ part.i = Current(q)
         \/ part = Garbled /\ q.cmds[Current(q)] # "status"
  BY <1>1, <1>2, <1>4, <1>5, <1>6 DEF ConnRecords
<1>9. RoundSucceeds(r, q, read, part, FALSE)
  BY Zenon DEF ReadBytes
<1>10. QED
  BY <1>1, <1>3, <1>7, <1>8, <1>9, SuccessKeepsReply

LEMMA ReadBytesFailsKeepsReply ==
  ASSUME RedisTypeOK, ReplyInv, NEW r \in Coroutines, ReadBytesFails(r)
  PROVE  ReplyInv'
<1>1. PICK q \in Versions(r) : RoundSucceeds(r, q, conns, Garbled, TRUE)
  BY Zenon DEF ReadBytesFails, Versions
<1>2. req[r].pc = "bytes" /\ calls' = calls
  BY DEF ReadBytesFails
<1>3. HolderOK(req[r], conns[req[r].sock])
  BY <1>2, HeldIs
<1>4. /\ conns[req[r].sock].client = "used" /\ conns[req[r].sock].inbox = << >>
      /\ req[r].cmds[Current(req[r])] # "status"
  BY <1>2, <1>3 DEF HolderOK
<1>5. q.cmds[Current(q)] # "status"
  BY <1>4, VersionIs DEF Current
<1>6. Garbled \in Results /\ conns \in [Conns -> ConnRecords] /\ TRUE \in BOOLEAN
  BY DEF Garbled, Results, RedisTypeOK
<1>7. /\ req[r].pc \in {"send", "line", "bytes"}
      /\ ~TRUE /\ conns[req[r].sock].wire = << >> => conns[req[r].sock].outbox = << >>
      /\ \A c \in Conns \ {req[r].sock} : conns[c] = conns[c]
      /\ \/ Garbled.id = q.id /\ Garbled.i = Current(q)
         \/ Garbled = Garbled /\ q.cmds[Current(q)] # "status"
  BY <1>2, <1>5
<1>8. QED
  BY <1>1, <1>2, <1>4, <1>6, <1>7, SuccessKeepsReply, Zenon

LEMMA CollectKeepsReply ==
  ASSUME RedisTypeOK, ReplyInv, NEW r \in Coroutines, NEW i \in Positions, Collect(r, i)
  PROVE  ReplyInv'
<1> DEFINE q == req[r]
           next == [q EXCEPT !.results[i] = Collected]
<1>1. /\ q \in Requests /\ i \in DOMAIN q.results /\ Len(q.cmds) > 1 /\ q.cmds[i] = "list"
      /\ req' = [req EXCEPT ![r] = next] /\ conns' = conns /\ calls' = calls
  BY DEF Collect, RedisTypeOK
<1>2. q.results \in Seq(Results) /\ i \in 1 .. Len(q.results)
  BY <1>1, LenProperties DEF Requests
<1>3. /\ Len(next.results) = Len(q.results) /\ next.results[i] = Collected
      /\ \A j \in 1 .. Len(q.results) : j # i => next.results[j] = q.results[j]
  <2>1. next.results = [q.results EXCEPT ![i] = Collected]
    BY <1>1 DEF Requests
  <2>2. Collected \in Results
    BY DEF Collected, Results
  <2>3. QED
    BY <1>2, <2>1, <2>2, ExceptSeq
<1>4. /\ next.pc = q.pc /\ next.sock = q.sock /\ next.id = q.id /\ next.cmds = q.cmds
      /\ next.memb = q.memb /\ next.answer = q.answer /\ next.index = q.index
      /\ next.quiet = q.quiet
  BY <1>1 DEF Requests
<1>5. RequestOK(q) /\ q.id <= calls /\ calls \in Nat
  BY DEF ReplyInv, HoldersInv, RedisTypeOK
<1>6. \A j \in 1 .. Len(next.results) : ResultOK(next, j)
  BY <1>1, <1>3, <1>4, <1>5 DEF RequestOK, ResultOK
<1>7. next.results # << >> => next.id # 0
  <2>1. q.results # << >>
    BY <1>2, EmptySeq, LenProperties
  <2>2. QED
    BY <1>4, <1>5, <2>1 DEF RequestOK
<1>8. RequestOK(next)
  BY <1>3, <1>4, <1>5, <1>6, <1>7 DEF RequestOK
<1>9. \A c \in Conns : ConnOK(conns'[c])
  BY <1>1 DEF ReplyInv
<1>10. \A c \in Conns : c # req[r].sock /\ conns[c].client = "used" => conns'[c] = conns[c]
  BY <1>1
<1>11. ASSUME q.sock # None
       PROVE  HolderOK(next, conns[q.sock]) /\ \A s \in Coroutines \ {r} : q.sock # req[s].sock
  <2>1. HolderOK(q, conns[q.sock])
    BY <1>11 DEF ReplyInv, HoldersInv
  <2>2. Current(next) = Current(q)
    BY <1>3 DEF Current
  <2>3. \A s : StreamOK(q, s) => StreamOK(next, s)
    BY <1>4, <2>2 DEF StreamOK
  <2>4. QED
    BY <1>4, <1>11, <2>1, <2>2, <2>3 DEF HolderOK, ReplyInv, HoldersInv
<1>12. /\ next.id = req[r].id /\ calls' \in Nat /\ calls <= calls' /\ next.id <= calls'
       /\ req' = [req EXCEPT ![r] = next]
       /\ next.sock # None =>
            /\ HolderOK(next, conns'[next.sock])
            /\ \A s \in Coroutines \ {r} : next.sock # req[s].sock
  BY <1>1, <1>4, <1>5, <1>11
<1>13. QED
  BY <1>8, <1>9, <1>10, <1>12, RequestStep, Zenon

(* The command is read, and its reply is under way unless its sender has   *)
(* closed.                                                                 *)
LEMMA RepliedIs ==
  ASSUME RedisTypeOK, ReplyInv, NEW c \in Conns, conns[c].up, conns[c].inbox # << >>,
         NEW parts \in Seq(Replies), Replied(c, parts)
  PROVE  /\ \A d \in Conns \ {c} : conns'[d] = conns[d]
         /\ conns'[c].inbox = << >> /\ conns'[c].wire = << >> /\ conns'[c].client = conns[c].client
         /\ \/ conns[c].client = "closed" /\ conns'[c].outbox = << >>
            \/ /\ conns[c].client = "used" /\ conns'[c].addr = conns[c].addr /\ conns'[c].up
               /\ conns'[c].outbox = parts /\ Coming(conns'[c]) = parts
<1> DEFINE read == [conns[c] EXCEPT !.inbox = Tail(@)]
           new == IF conns[c].client = "closed" THEN Closed(read)
                  ELSE [read EXCEPT !.outbox = @ \o parts]
<1>1. conns[c] \in ConnRecords /\ ConnOK(conns[c])
  BY DEF RedisTypeOK, ReplyInv
<1>2. /\ conns[c].wire = << >> /\ conns[c].outbox = << >> /\ Len(conns[c].inbox) <= 1
      /\ conns[c].client \in {"used", "closed"}
  BY <1>1 DEF ConnOK, ConnRecords
<1>3. Tail(conns[c].inbox) = << >>
  <2>1. conns[c].inbox \in Seq(Commands)
    BY <1>1 DEF ConnRecords
  <2>2. Len(conns[c].inbox) \in Nat /\ Len(conns[c].inbox) # 0
    BY <2>1, EmptySeq, LenProperties
  <2>3. Tail(conns[c].inbox) \in Seq(Commands) /\ Len(Tail(conns[c].inbox)) = Len(conns[c].inbox) - 1
    BY <2>1, HeadTailProperties
  <2>4. Len(Tail(conns[c].inbox)) = 0
    <3>1. \A x \in Nat : x # 0 /\ x <= 1 => x - 1 = 0
      OBVIOUS
    <3>2. QED
      BY <1>2, <2>2, <2>3, <3>1, Zenon
  <2>5. QED
    BY <2>3, <2>4, EmptySeq, Zenon
<1>4. /\ read \in ConnRecords /\ read.inbox = << >> /\ read.wire = << >> /\ read.outbox = << >>
      /\ read.client = conns[c].client /\ read.addr = conns[c].addr /\ read.up
  BY <1>1, <1>2, <1>3, EmptySeq DEF ConnRecords
<1>5. conns'[c] = new /\ \A d \in Conns \ {c} : conns'[d] = conns[d]
  BY DEF Replied, RedisTypeOK
<1>6. << >> \o parts = parts
  BY ConcatEmptySeq
<1>7. CASE conns[c].client = "closed"
  <2>1. /\ Closed(read).client = "closed" /\ Closed(read).inbox = << >>
        /\ Closed(read).wire = << >> /\ Closed(read).outbox = << >>
    BY <1>4, ClosedIs, Zenon
  <2>2. QED
    BY <1>5, <1>7, <2>1
<1>8. CASE conns[c].client = "used"
  <2>1. new = [read EXCEPT !.outbox = @ \o parts]
    BY <1>8
  <2>2. /\ new.inbox = << >> /\ new.wire = << >> /\ new.outbox = parts
        /\ new.client = "used" /\ new.addr = conns[c].addr /\ new.up
    BY <1>4, <1>6, <1>8, <2>1 DEF ConnRecords
  <2>3. Coming(new) = parts
    BY <1>6, <2>2, Zenon DEF Coming
  <2> HIDE DEF new
  <2>4. QED
    BY <1>5, <1>8, <2>2, <2>3
<1>9. QED
  BY <1>2, <1>7, <1>8

(* The server's reply is to the command of the one request that uses the   *)
(* connection, if there still is one.                                      *)
LEMMA ReplyReachesSender ==
  ASSUME RedisTypeOK, ReplyInv, NEW c \in Conns, conns[c].up, conns[c].inbox # << >>,
         NEW parts \in Seq(Replies), Replied(c, parts), parts[1].kind # "bytes",
         req' \in {req, Disturbed}, calls' = calls,
         \A r \in Coroutines : req[r].sock = c => StreamOK(req'[r], parts)
  PROVE  ReplyInv'
<1>1. /\ \A d \in Conns \ {c} : conns'[d] = conns[d]
      /\ conns'[c].inbox = << >> /\ conns'[c].wire = << >> /\ conns'[c].client = conns[c].client
      /\ \/ conns[c].client = "closed" /\ conns'[c].outbox = << >>
         \/ /\ conns[c].client = "used" /\ conns'[c].addr = conns[c].addr /\ conns'[c].up
            /\ conns'[c].outbox = parts /\ Coming(conns'[c]) = parts
  BY RepliedIs
<1>2. ConnOK(conns'[c])
  <2>1. Len(<< >>) = 0
    OBVIOUS
  <2>2. QED
    BY <1>1, <2>1 DEF ConnOK
<1>3. \A d \in Conns : ConnOK(conns'[d])
  BY <1>1, <1>2 DEF ReplyInv
<1>4. ASSUME NEW r \in Coroutines, req[r].sock # None
      PROVE  HolderOK(req'[r], conns'[req[r].sock])
  <2>1. HolderOK(req[r], conns[req[r].sock]) /\ req[r] \in Requests /\ req'[r] \in Versions(r)
    BY <1>4 DEF ReplyInv, HoldersInv, RedisTypeOK, Versions
  <2>2. CASE req[r].sock # c
    <3>1. req[r].sock \in Conns \ {c}
      BY <1>4, <2>1, <2>2 DEF Requests
    <3>2. QED
      BY <1>1, <2>1, <3>1, VersionOK
  <2>3. CASE req[r].sock = c
    <3>1. HolderOK(req'[r], conns[c])
      BY <2>1, <2>3, VersionOK
    <3>2. req'[r].pc = "line" /\ req'[r].memb = conns[c].addr /\ conns[c].client = "used"
      BY <3>1 DEF HolderOK
    <3>3. /\ conns'[c].client = "used" /\ conns'[c].addr = conns[c].addr
          /\ conns'[c].inbox = << >> /\ Coming(conns'[c]) = parts
      BY <1>1, <3>2
    <3>4. HolderOK(req'[r], conns'[c])
      BY <2>3, <3>2, <3>3 DEF HolderOK
    <3>5. QED
      BY <2>3, <3>4
  <2>4. QED
    BY <2>2, <2>3
<1>5. QED
  BY <1>3, <1>4, ConnStep

LEMMA ServeKeepsReply ==
  ASSUME RedisTypeOK, ReplyInv, NEW c \in Conns, Serve(c)
  PROVE  ReplyInv'
<1> DEFINE cmd == Head(conns[c].inbox)
           wrong == <<[id |-> cmd.id, i |-> cmd.i, kind |-> "error"]>>
<1>1. /\ conns[c] \in ConnRecords /\ ConnOK(conns[c]) /\ conns[c].inbox # << >> /\ conns[c].up
      /\ calls' = calls
  BY DEF Serve, RedisTypeOK, ReplyInv
<1>2. cmd \in Commands /\ cmd = conns[c].inbox[1]
  BY <1>1, HeadTailProperties DEF ConnRecords
<1>3. ASSUME NEW r \in Coroutines, req[r].sock = c, NEW q \in Versions(r)
      PROVE  cmd.id = q.id /\ cmd.i = Current(q) /\ cmd.kind = q.cmds[Current(q)]
  <2>1. HolderOK(req[r], conns[c])
    BY <1>3, NoneAssumption DEF ReplyInv, HoldersInv
  <2>2. HolderOK(q, conns[c])
    BY <2>1, VersionOK
  <2>3. cmd = [id |-> q.id, i |-> Current(q), kind |-> q.cmds[Current(q)]]
    BY <1>1, <1>2, <2>2 DEF HolderOK
  <2>4. QED
    BY <2>3
<1>4. CASE Replied(c, Parts(cmd)) /\ UNCHANGED <<req, faults>>
  <2>1. \A r \in Coroutines : req[r].sock = c => StreamOK(req'[r], Parts(cmd))
    <3> SUFFICES ASSUME NEW r \in Coroutines, req[r].sock = c
                 PROVE  StreamOK(req[r], Parts(cmd))
      BY <1>4
    <3>1. /\ cmd.id = req[r].id /\ cmd.i = Current(req[r])
          /\ cmd.kind = req[r].cmds[Current(req[r])]
      BY <1>3 DEF Versions
    <3>2. QED
      BY <1>2, <3>1, PartsAre DEF StreamOK
  <2>2. Parts(cmd) \in Seq(Replies) /\ Parts(cmd)[1].kind # "bytes"
    <3>1. PICK p : p = Parts(cmd)
      OBVIOUS
    <3>2. p \in Seq(Replies)
      BY <1>2, <3>1, PartsAre, SMTT(60)
    <3>3. p[1].kind # "bytes"
      BY <1>2, <3>1, PartsAre, SMTT(60)
    <3>4. QED
      BY <3>1, <3>2, <3>3
  <2>3. Replied(c, Parts(cmd)) /\ req' \in {req, Disturbed}
    BY <1>4
  <2>4. QED
    BY <1>1, <2>1, <2>2, <2>3, ReplyReachesSender
<1>5. CASE Replied(c, wrong) /\ req' = Disturbed
  <2>1. cmd.id \in Nat /\ cmd.i \in Nat
    BY <1>2, CommandNumbers, Zenon
  <2>2. /\ wrong \in Seq(Replies) /\ Len(wrong) = 1 /\ wrong[1].kind = "error"
        /\ wrong[1].id = cmd.id /\ wrong[1].i = cmd.i
    BY <2>1 DEF Replies
  <2>3. \A r \in Coroutines : req[r].sock = c => StreamOK(req'[r], wrong)
    <3> SUFFICES ASSUME NEW r \in Coroutines, req[r].sock = c
                 PROVE  StreamOK(Disturbed[r], wrong)
      BY <1>5
    <3>1. cmd.id = Disturbed[r].id /\ cmd.i = Current(Disturbed[r])
      BY <1>3 DEF Versions
    <3>2. ~Disturbed[r].quiet
      BY DEF Disturbed, RedisTypeOK, Requests
    <3>3. \A k \in 1 .. Len(wrong) : k = 1
      BY <2>2
    <3>4. QED
      BY <2>2, <3>1, <3>2, <3>3 DEF StreamOK
  <2>4. wrong[1].kind # "bytes" /\ Replied(c, wrong) /\ req' \in {req, Disturbed}
    BY <1>5, <2>2
  <2>5. QED
    BY <1>1, <2>2, <2>3, <2>4, ReplyReachesSender, Zenon
<1>6. QED
  BY <1>4, <1>5 DEF Serve, Replied

LEMMA DeliverKeepsReply ==
  ASSUME RedisTypeOK, ReplyInv, NEW c \in Conns, Deliver(c)
  PROVE  ReplyInv'
<1> DEFINE new == [conns[c] EXCEPT !.wire = Append(@, Head(conns[c].outbox)), !.outbox = Tail(@)]
<1>1. /\ conns[c] \in ConnRecords /\ ConnOK(conns[c]) /\ conns[c].outbox # << >> /\ conns[c].up
      /\ req' = req /\ calls' = calls /\ conns' = [conns EXCEPT ![c] = new]
  BY Zenon DEF Deliver, RedisTypeOK, ReplyInv
<1>2. conns[c].client = "used" /\ conns[c].inbox = << >>
  BY <1>1 DEF ConnOK
<1>3. /\ new.client = "used" /\ new.inbox = << >> /\ new.up /\ new.addr = conns[c].addr
      /\ Coming(new) = Coming(conns[c])
  BY <1>1, <1>2, DeliveredIs DEF ConnRecords
<1>4. ConnOK(new)
  BY <1>3, EmptySeq DEF ConnOK
<1>5. conns'[c] = new /\ \A d \in Conns \ {c} : conns'[d] = conns[d]
  BY <1>1 DEF RedisTypeOK
<1>6. \A d \in Conns : ConnOK(conns'[d])
  BY <1>4, <1>5 DEF ReplyInv
<1>7. ASSUME NEW r \in Coroutines, req[r].sock # None
      PROVE  HolderOK(req'[r], conns'[req[r].sock])
  <2>1. HolderOK(req[r], conns[req[r].sock]) /\ req[r].sock \in Conns
    BY <1>7 DEF ReplyInv, HoldersInv, RedisTypeOK, Requests
  <2>2. CASE req[r].sock = c
    <3>1. HolderOK(req[r], new)
      BY <1>2, <1>3, <2>1, <2>2 DEF HolderOK
    <3>2. QED
      BY <1>1, <1>5, <2>2, <3>1
  <2>3. CASE req[r].sock # c
    BY <1>1, <1>5, <2>1, <2>3
  <2>4. QED
    BY <2>2, <2>3
<1>8. QED
  BY <1>1, <1>6, <1>7, ConnStep

LEMMA ReapKeepsReply ==
  ASSUME RedisTypeOK, ReplyInv, NEW c \in Conns, Reap(c)
  PROVE  ReplyInv'
<1>1. /\ conns[c].client = "idle" /\ req' = req /\ calls' = calls
      /\ conns' = [conns EXCEPT ![c] = Closed(@)]
  BY DEF Reap
<1>2. \A d \in Conns : ConnOK(conns'[d]) /\ (d # c => conns'[d] = conns[d])
  BY <1>1, ClosedOK DEF ReplyInv, RedisTypeOK
<1>3. ASSUME NEW r \in Coroutines, req[r].sock # None
      PROVE  HolderOK(req'[r], conns'[req[r].sock])
  <2>1. HolderOK(req[r], conns[req[r].sock]) /\ req[r].sock \in Conns
    BY <1>3 DEF ReplyInv, HoldersInv, RedisTypeOK, Requests
  <2>2. req[r].sock # c
    BY <1>1, <2>1 DEF HolderOK
  <2>3. QED
    BY <1>1, <1>2, <2>1, <2>2
<1>4. QED
  BY <1>1, <1>2, <1>3, ConnStep

LEMMA DropKeepsReply ==
  ASSUME RedisTypeOK, ReplyInv, NEW cs \in SUBSET Conns, Drop(cs)
  PROVE  ReplyInv'
<1> DEFINE Loss(c) == [conns[c] EXCEPT !.up = FALSE, !.inbox = << >>, !.outbox = << >>]
<1>1. /\ req' = Disturbed /\ calls' = calls
      /\ \A c \in Conns : conns'[c] = IF c \in cs THEN Loss(c) ELSE conns[c]
  BY DEF Drop
<1>2. ASSUME NEW c \in Conns
      PROVE  /\ Loss(c).client = conns[c].client /\ Loss(c).addr = conns[c].addr /\ ~Loss(c).up
             /\ Loss(c).inbox = << >> /\ Loss(c).outbox = << >> /\ Loss(c).wire = conns[c].wire
             /\ conns[c] \in ConnRecords /\ ConnOK(conns[c])
  BY DEF RedisTypeOK, ConnRecords, ReplyInv
<1>3. \A c \in Conns : ConnOK(Loss(c))
  BY <1>2, EmptySeq DEF ConnOK
<1>4. \A c \in Conns : ConnOK(conns'[c])
  BY <1>1, <1>3 DEF ReplyInv
<1>5. ASSUME NEW r \in Coroutines, req[r].sock # None
      PROVE  HolderOK(req'[r], conns'[req[r].sock])
  <2> DEFINE c == req[r].sock
             q == req'[r]
  <2>1. q \in Versions(r) /\ c \in Conns /\ HolderOK(req[r], conns[c])
    BY <1>1, <1>5 DEF ReplyInv, HoldersInv, RedisTypeOK, Requests, Versions
  <2>2. HolderOK(q, conns[c])
    BY <2>1, VersionOK
  <2>3. CASE c \in cs
    <3>1. conns[c].wire \in Seq(Replies) /\ conns[c].outbox \in Seq(Replies)
      BY <1>2, <2>1 DEF ConnRecords
    <3>2. Coming(Loss(c)) = conns[c].wire
      BY <1>2, <2>1, <3>1, ConcatEmptySeq DEF Coming
    <3>3. StreamOK(q, Coming(Loss(c)))
      <4>1. StreamOK(q, conns[c].wire \o conns[c].outbox)
        BY <2>2 DEF HolderOK, Coming
      <4>2. QED
        BY <3>1, <3>2, <4>1, StreamPrefix
    <3>4. conns[c].wire # << >> => Coming(conns[c])[1] = conns[c].wire[1] /\ Coming(conns[c]) # << >>
      <4>1. conns[c].wire # << >> => Head(conns[c].wire) = conns[c].wire[1]
        BY <3>1
      <4>2. QED
        BY <1>2, <2>1, <4>1, ComingIs, Zenon
    <3>5. Coming(conns[c]) = << >> => conns[c].wire = << >>
      BY <3>4
    <3>6. HolderOK(q, Loss(c))
      BY <1>2, <2>1, <2>2, <3>2, <3>3, <3>4, <3>5 DEF HolderOK
    <3>7. QED
      BY <1>1, <2>1, <2>3, <3>6
  <2>4. CASE c \notin cs
    BY <1>1, <2>1, <2>2, <2>4
  <2>5. QED
    BY <2>3, <2>4
<1>6. QED
  BY <1>1, <1>4, <1>5, ConnStep

(* Every step keeps the replies apart.                                     *)
LEMMA ReplyStep == RedisTypeOK /\ ReplyInv /\ [RedisNext]_redisVars => ReplyInv'
<1> SUFFICES ASSUME RedisTypeOK, ReplyInv, [RedisNext]_redisVars
             PROVE  ReplyInv'
  OBVIOUS
<1>1. ASSUME NEW r \in Coroutines, ConnectFails(r)
      PROVE  ReplyInv'
  BY <1>1, FailureKeepsReply DEF ConnectFails, Versions
<1>2. ASSUME NEW r \in Coroutines, SendFails(r)
      PROVE  ReplyInv'
  BY <1>2, FailureKeepsReply DEF SendFails, Versions
<1>3. ASSUME NEW r \in Coroutines, ReadLineFails(r)
      PROVE  ReplyInv'
  BY <1>3, FailureKeepsReply DEF ReadLineFails, Versions
<1>4. ASSUME NEW name \in Names, DelFromPool(name) \/ AddToPool(name)
      PROVE  ReplyInv'
  BY <1>4 DEF DelFromPool, AddToPool, ReplyInv, HoldersInv
<1>5. CASE UNCHANGED redisVars
  BY <1>5 DEF redisVars, ReplyInv, HoldersInv
<1>6. QED
  BY <1>1, <1>2, <1>3, <1>4, <1>5, CallKeepsReply, ConnectKeepsReply, SendKeepsReply,
     ReadLineKeepsReply, ReadBytesKeepsReply, ReadBytesFailsKeepsReply, CollectKeepsReply,
     ServeKeepsReply, DeliverKeepsReply, ReapKeepsReply, DropKeepsReply
     DEF RedisNext, Advance

LEMMA InitIs == RedisInit => RedisTypeOK /\ ReplyInv
<1> SUFFICES ASSUME RedisInit
             PROVE  RedisTypeOK /\ ReplyInv
  OBVIOUS
<1>1. NoRequest \in Requests
  BY BoundsAssumption, EmptySeq DEF NoRequest, Requests
<1>2. (CHOOSE a \in Addrs : TRUE) \in Addrs
  BY AddrsAssumption
<1>3. \A c \in Conns : conns[c] \in ConnRecords
  BY <1>2, EmptySeq DEF RedisInit, ConnRecords
<1>4. \A x \in DOMAIN Configured : Configured[x] \subseteq Addrs
  BY DEF Addrs
<1>5. RedisTypeOK
  <2>1. pools \in [Names -> SUBSET Addrs]
    BY <1>4 DEF RedisInit, Names
  <2>2. conns \in [Conns -> ConnRecords]
    BY <1>3 DEF RedisInit
  <2>3. 0 \in 0 .. MaxCalls /\ 0 \in 0 .. MaxFaults /\ 0 \in Nat
    BY BoundsAssumption
  <2>4. QED
    BY <1>1, <2>1, <2>2, <2>3 DEF RedisInit, RedisTypeOK
<1>6. Len(<< >>) = 0
  OBVIOUS
<1>7. \A c \in Conns : ConnOK(conns[c])
  BY <1>6 DEF RedisInit, ConnOK
<1>8. \A r \in Coroutines : req[r] = NoRequest
  BY DEF RedisInit
<1>9. RequestOK(NoRequest) /\ NoRequest.sock = None /\ NoRequest.id = 0
  BY <1>6 DEF RequestOK, NoRequest
<1>10. HoldersInv
  BY <1>5, <1>8, <1>9 DEF HoldersInv, RedisTypeOK
<1>11. QED
  BY <1>5, <1>7, <1>10 DEF ReplyInv

(* Which request uses which connection for what, and what is under way on  *)
(* it, in every reachable state.                                           *)
THEOREM RepliesAreKeptApart == RedisSpec => [](RedisTypeOK /\ ReplyInv)
<1>1. RedisInit => RedisTypeOK /\ ReplyInv
  BY InitIs
<1>2. RedisTypeOK /\ ReplyInv /\ [RedisNext]_redisVars => (RedisTypeOK /\ ReplyInv)'
  BY TypeStep, ReplyStep
<1>3. QED
  BY <1>1, <1>2, PTL DEF RedisSpec

(* No request is given another one's reply, however many requests share    *)
(* however many connections, and whatever is lost, late or cut off.        *)
THEOREM RepliesAreOwn == RedisSpec => []ReplyIsOwn
<1>1. RedisTypeOK /\ ReplyInv => ReplyIsOwn
  <2> SUFFICES ASSUME RedisTypeOK, ReplyInv, NEW r \in Coroutines,
                      NEW i \in DOMAIN req[r].results
               PROVE  ResultOK(req[r], i)
    BY DEF ReplyIsOwn, ResultOK
  <2>1. RequestOK(req[r]) /\ i \in 1 .. Len(req[r].results)
    BY LenProperties DEF ReplyInv, HoldersInv, RedisTypeOK, Requests
  <2>2. QED
    BY <2>1 DEF RequestOK
<1>2. QED
  BY <1>1, RepliesAreKeptApart, PTL
-----------------------------------------------------------------------------
(* How often a command took effect, or still may: the connections on which *)
(* a server has yet to read it count.  A command is sent at most once in a *)
(* round.                                                                  *)
Waiting(cs, x, i) == {c \in Conns : cs[c].inbox # << >> /\ cs[c].inbox[1].id = x /\ cs[c].inbox[1].i = i}
Load(rs, cs, x, i) == rs[x][i] + Cardinality(Waiting(cs, x, i))
Sent(q) == IF q.pc \in {"line", "bytes"} THEN q.index + 1 ELSE q.index

LoadOK(rs, cs, q) ==
  q.pc # "idle" => \A i \in Positions : /\ i = Current(q) => Load(rs, cs, q.id, i) <= Sent(q)
                                        /\ i > Current(q) => Load(rs, cs, q.id, i) = 0

(* What is answered, or on its way as an answer, took effect.              *)
RanOK(rs, cs, q) ==
  /\ \A i \in 1 .. Len(q.results) : rs[q.id][i] > 0
  /\ q.pc = "bytes" => rs[q.id][Current(q)] > 0
  /\ q.sock # None => \A k \in 1 .. Len(Coming(cs[q.sock])) :
                        Coming(cs[q.sock])[k].kind # "error" => rs[q.id][Current(q)] > 0

(* Each round that fails, of a request that no fault disturbs, uses up one *)
(* of the connections that the server had left when the request began.     *)
IsConfigured(a) == \E x \in DOMAIN Configured : a \in Configured[x]
LeftIn(cs, a) == {c \in Conns : cs[c].addr = a /\ cs[c].client # "closed" /\ ~cs[c].up}

StaleOK(cs, q) ==
  q.quiet =>
    /\ q.pc # "idle" => Cardinality(LeftIn(cs, q.memb)) + q.index <= q.stale
    /\ q.answer = "failed" => q.stale >= MAX_RECNT \/ ~IsConfigured(q.memb)

CountOK(rs, cs, q) == LoadOK(rs, cs, q) /\ RanOK(rs, cs, q) /\ StaleOK(cs, q)

CountsInv ==
  /\ \A a \in Addrs : IsConfigured(a) => queues[a] # None
  /\ \A x \in 1 .. MaxCalls, i \in Positions :
       /\ Load(runs, conns, x, i) <= MAX_RECNT
       /\ x > calls => Load(runs, conns, x, i) = 0
  /\ \A r \in Coroutines : CountOK(runs, conns, req[r])

LEMMA CommandIs ==
  ASSUME NEW cmd \in Commands
  PROVE  /\ cmd.id \in 1 .. MaxCalls /\ cmd.i \in Positions
         /\ cmd.id \in Nat /\ cmd.i \in Nat
<1>1. cmd.id \in 1 .. MaxCalls /\ cmd.i \in Positions
  BY DEF Commands
<1>2. QED
  BY <1>1, BoundsAssumption, BatchesAssumption DEF Positions

(* A command takes effect once more.                                       *)
LEMMA RanOnce ==
  ASSUME NEW rs \in [1 .. MaxCalls -> [Positions -> Nat]],
         NEW a \in 1 .. MaxCalls, NEW b \in Positions,
         NEW x \in 1 .. MaxCalls, NEW i \in Positions
  PROVE  [rs EXCEPT ![a][b] = @ + 1][x][i]
           = IF x = a /\ i = b THEN rs[x][i] + 1 ELSE rs[x][i]
<1>1. CASE x = a
  <2>1. [rs EXCEPT ![a][b] = @ + 1][x] = [rs[x] EXCEPT ![b] = @ + 1]
    BY <1>1
  <2>2. rs[x] \in [Positions -> Nat]
    OBVIOUS
  <2>3. QED
    BY <1>1, <2>1, <2>2
<1>2. CASE x # a
  BY <1>2
<1>3. QED
  BY <1>1, <1>2

LEMMA LoadIs ==
  ASSUME NEW rs \in [1 .. MaxCalls -> [Positions -> Nat]], NEW cs,
         NEW x \in 1 .. MaxCalls, NEW i \in Positions
  PROVE  /\ IsFiniteSet(Waiting(cs, x, i)) /\ Cardinality(Waiting(cs, x, i)) \in Nat
         /\ Load(rs, cs, x, i) \in Nat /\ rs[x][i] \in Nat /\ rs[x][i] <= Load(rs, cs, x, i)
<1>1. IsFiniteSet(Waiting(cs, x, i)) /\ Cardinality(Waiting(cs, x, i)) \in Nat
  BY ConnsAssumption, FS_Subset, FS_CardinalityType DEF Waiting
<1>2. rs[x][i] \in Nat
  OBVIOUS
<1>3. QED
  BY <1>1, <1>2 DEF Load

(* Commands that stay where they are, and such as are gone.                *)
LEMMA SameLoad ==
  ASSUME NEW rs, NEW cs, NEW new, \A c \in Conns : new[c].inbox = cs[c].inbox
  PROVE  \A x, i : Load(rs, new, x, i) = Load(rs, cs, x, i)
<1>1. \A x, i : Waiting(new, x, i) = Waiting(cs, x, i)
  BY DEF Waiting
<1>2. QED
  BY <1>1 DEF Load

LEMMA LessLoad ==
  ASSUME NEW rs \in [1 .. MaxCalls -> [Positions -> Nat]], NEW cs, NEW new,
         \A c \in Conns : new[c].inbox \in {cs[c].inbox, << >>},
         NEW x \in 1 .. MaxCalls, NEW i \in Positions
  PROVE  Load(rs, new, x, i) <= Load(rs, cs, x, i)
<1>1. Waiting(new, x, i) \subseteq Waiting(cs, x, i)
  BY DEF Waiting
<1>2. Cardinality(Waiting(new, x, i)) <= Cardinality(Waiting(cs, x, i))
  BY <1>1, LoadIs, FS_Subset
<1>3. QED
  BY <1>2, LoadIs DEF Load

LEMMA LeftIs ==
  ASSUME NEW cs, NEW a
  PROVE  /\ IsFiniteSet(LeftIn(cs, a)) /\ Cardinality(LeftIn(cs, a)) \in Nat
         /\ \A S \in SUBSET LeftIn(cs, a) : Cardinality(S) <= Cardinality(LeftIn(cs, a))
         /\ \A c \in LeftIn(cs, a) :
              Cardinality(LeftIn(cs, a) \ {c}) = Cardinality(LeftIn(cs, a)) - 1
<1>1. IsFiniteSet(LeftIn(cs, a))
  BY ConnsAssumption, FS_Subset DEF LeftIn
<1>2. QED
  BY <1>1, FS_Subset, FS_CardinalityType, FS_RemoveElement

(* Closing a connection.                                                   *)
LEMMA ClosedCounts ==
  ASSUME RedisTypeOK, NEW k \in Conns \union {None},
         conns' = IF k = None THEN conns ELSE [conns EXCEPT ![k] = Closed(@)]
  PROVE  /\ \A c \in Conns : conns'[c].inbox = conns[c].inbox
         /\ \A a : LeftIn(conns', a) = LeftIn(conns, a) \ {k}
<1>1. \A c \in Conns : conns[c] \in ConnRecords
  BY DEF RedisTypeOK
<1>2. \A c \in Conns : conns'[c] = IF c = k THEN Closed(conns[c]) ELSE conns[c]
  BY NoneAssumption DEF RedisTypeOK
<1>3. \A c \in Conns : Closed(conns[c]).inbox = conns[c].inbox /\ Closed(conns[c]).client = "closed"
  BY <1>1, ClosedIs
<1>4. QED
  BY <1>2, <1>3 DEF LeftIn

(* Keeping one.                                                            *)
LEMMA KeptCounts ==
  ASSUME NEW cs \in [Conns -> ConnRecords], NEW new, NEW k \in Conns, NEW failed,
         cs[k].client = "used", KeptOrClosed(cs, new, k, failed)
  PROVE  /\ \A c \in Conns : new[c].inbox = cs[c].inbox
         /\ \A a : LeftIn(new, a) \subseteq LeftIn(cs, a)
<1>1. \A c \in Conns : cs[c] \in ConnRecords
  OBVIOUS
<1>2. \A c \in Conns : Closed(cs[c]).inbox = cs[c].inbox /\ Closed(cs[c]).client = "closed"
  BY <1>1, ClosedIs
<1>3. LET idle == [cs[k] EXCEPT !.client = "idle"]
      IN idle.inbox = cs[k].inbox /\ idle.addr = cs[k].addr /\ idle.up = cs[k].up
  BY <1>1 DEF ConnRecords
<1>4. \A c \in Conns :
        /\ new[c].inbox = cs[c].inbox
        /\ \/ new[c].client = "closed"
           \/ new[c].addr = cs[c].addr /\ new[c].up = cs[c].up /\ cs[c].client # "closed"
           \/ new[c] = cs[c]
  BY <1>2, <1>3, Zenon DEF KeptOrClosed
<1>5. QED
  BY <1>4 DEF LeftIn

(* A step of one request that moves no command.                            *)
LEMMA CountsRequestStep ==
  ASSUME RedisTypeOK, ReplyInv, CountsInv, NEW r \in Coroutines, NEW next,
         req' = [req EXCEPT ![r] = next], UNCHANGED <<runs, queues>>,
         calls' \in Nat, calls <= calls',
         \A c \in Conns : conns'[c].inbox = conns[c].inbox,
         \A c \in Conns : c # req[r].sock /\ conns[c].client = "used" => conns'[c] = conns[c],
         \A a : LeftIn(conns', a) \subseteq LeftIn(conns, a),
         CountOK(runs, conns', next)
  PROVE  CountsInv'
<1>1. \A x, i : Load(runs, conns', x, i) = Load(runs, conns, x, i)
  BY SameLoad
<1>2. calls \in Nat /\ req'[r] = next /\ \A s \in Coroutines \ {r} : req'[s] = req[s]
  BY DEF RedisTypeOK
<1>3. ASSUME NEW s \in Coroutines \ {r}
      PROVE  CountOK(runs, conns', req[s])
  <2> DEFINE q == req[s]
  <2>1. CountOK(runs, conns, q)
    BY DEF CountsInv
  <2>2. LoadOK(runs, conns', q)
    BY <1>1, <2>1 DEF CountOK, LoadOK
  <2>3. q.sock # None => conns'[q.sock] = conns[q.sock]
    <3> SUFFICES ASSUME q.sock # None
                 PROVE  conns'[q.sock] = conns[q.sock]
      OBVIOUS
    <3>1. HolderOK(q, conns[q.sock]) /\ q.sock # req[r].sock /\ q.sock \in Conns
      BY DEF ReplyInv, HoldersInv, RedisTypeOK, Requests
    <3>2. QED
      BY <3>1 DEF HolderOK
  <2>4. RanOK(runs, conns', q)
    BY <2>1, <2>3 DEF CountOK, RanOK
  <2>5. /\ Cardinality(LeftIn(conns, q.memb)) \in Nat /\ Cardinality(LeftIn(conns', q.memb)) \in Nat
        /\ Cardinality(LeftIn(conns', q.memb)) <= Cardinality(LeftIn(conns, q.memb))
        /\ q.index \in Nat /\ q.stale \in Nat
    BY LeftIs, Zenon DEF RedisTypeOK, Requests
  <2>6. StaleOK(conns', q)
    BY <2>1, <2>5 DEF CountOK, StaleOK
  <2>7. QED
    BY <2>2, <2>4, <2>6 DEF CountOK
<1>4. \A s \in Coroutines : CountOK(runs', conns', req'[s])
  BY <1>2, <1>3
<1>5. ASSUME NEW x \in 1 .. MaxCalls, NEW i \in Positions
      PROVE  /\ Load(runs', conns', x, i) <= MAX_RECNT
             /\ x > calls' => Load(runs', conns', x, i) = 0
  <2>1. /\ Load(runs, conns, x, i) <= MAX_RECNT
        /\ x > calls => Load(runs, conns, x, i) = 0
    BY DEF CountsInv
  <2>2. x \in Nat /\ (x > calls' => x > calls)
    BY <1>2, BoundsAssumption
  <2>3. QED
    BY <1>1, <2>1, <2>2
<1>6. QED
  BY <1>4, <1>5 DEF CountsInv

(* The fields that a request's counts depend on.                           *)
LEMMA SameCount ==
  ASSUME NEW rs, NEW cs, NEW q, NEW next, CountOK(rs, cs, q), next.id = q.id, next.cmds = q.cmds,
         next.memb = q.memb, next.sock = q.sock, next.index = q.index, next.stale = q.stale,
         next.answer = q.answer, next.pc = q.pc, next.quiet => q.quiet,
         Len(next.results) = Len(q.results)
  PROVE  CountOK(rs, cs, next)
<1>1. Current(next) = Current(q) /\ Sent(next) = Sent(q)
  BY DEF Current, Sent
<1>2. LoadOK(rs, cs, next)
  BY <1>1 DEF CountOK, LoadOK
<1>3. RanOK(rs, cs, next)
  BY <1>1 DEF CountOK, RanOK
<1>4. StaleOK(cs, next)
  BY DEF CountOK, StaleOK
<1>5. QED
  BY <1>2, <1>3, <1>4 DEF CountOK

LEMMA VersionCount ==
  ASSUME RedisTypeOK, ReplyInv, CountsInv, NEW r \in Coroutines, NEW q \in Versions(r)
  PROVE  CountOK(runs, conns, q)
<1>1. CountOK(runs, conns, req[r])
  BY DEF CountsInv
<1>2. /\ q.id = req[r].id /\ q.cmds = req[r].cmds /\ q.memb = req[r].memb
      /\ q.sock = req[r].sock /\ q.index = req[r].index /\ q.stale = req[r].stale
      /\ q.answer = req[r].answer /\ q.pc = req[r].pc /\ (q.quiet => req[r].quiet)
      /\ Len(q.results) = Len(req[r].results)
  BY VersionIs
<1>3. QED
  BY <1>1, <1>2, SameCount

LEMMA FailureKeepsCounts ==
  ASSUME RedisTypeOK, ReplyInv, CountsInv, NEW r \in Coroutines, NEW q \in Versions(r),
         req[r].pc # "idle", RoundFails(r, q), UNCHANGED <<calls, runs>>,
         q.quiet => q.sock \in LeftIn(conns, q.memb)
  PROVE  CountsInv'
<1>1. /\ q \in Requests /\ q.memb \in Addrs /\ q.sock = req[r].sock /\ q.id = req[r].id
      /\ q.pc = req[r].pc /\ q.index \in Nat /\ q.stale \in Nat
  BY VersionIs, ActiveIs DEF Requests
<1>2. PICK next \in Requests : req' = [req EXCEPT ![r] = next] /\ AfterFailure(q, next)
  BY <1>1, FailureIs
<1>3. /\ queues' = queues
      /\ conns' = IF q.sock = None THEN conns ELSE [conns EXCEPT ![q.sock] = Closed(@)]
  BY <1>1, FailureIs
<1>4. q.sock \in Conns \union {None}
  BY <1>1 DEF Requests
<1>5. /\ \A c \in Conns : conns'[c].inbox = conns[c].inbox
      /\ \A a : LeftIn(conns', a) = LeftIn(conns, a) \ {q.sock}
  BY <1>3, <1>4, ClosedCounts, Zenon
<1>6. CountOK(runs, conns, q) /\ q.answer = "none"
  <2>1. RequestOK(q)
    BY VersionOK
  <2>2. QED
    BY <1>1, <2>1, VersionCount DEF RequestOK
<1>7. LoadOK(runs, conns', next)
  <2> SUFFICES ASSUME next.pc = "connect", NEW i \in Positions
               PROVE  /\ i = Current(next) => Load(runs, conns', next.id, i) <= Sent(next)
                      /\ i > Current(next) => Load(runs, conns', next.id, i) = 0
    BY <1>2 DEF LoadOK, AfterFailure
  <2>1. next.id = q.id /\ Current(next) = Current(q) /\ Sent(next) = q.index + 1
    BY <1>2 DEF AfterFailure, SameRequest, Current, Sent
  <2>2. Load(runs, conns', q.id, i) = Load(runs, conns, q.id, i)
    BY <1>5, SameLoad
  <2>3. /\ i = Current(q) => Load(runs, conns, q.id, i) <= Sent(q)
        /\ i > Current(q) => Load(runs, conns, q.id, i) = 0
    BY <1>1, <1>6 DEF CountOK, LoadOK
  <2>4. Sent(q) <= q.index + 1 /\ Sent(q) \in Nat
    BY <1>1 DEF Sent
  <2>5. Load(runs, conns, q.id, i) \in Nat
    BY <1>1, ActiveIs, LoadIs, Zenon DEF RedisTypeOK
  <2>6. QED
    BY <1>1, <2>1, <2>2, <2>3, <2>4, <2>5
<1>8. RanOK(runs, conns', next)
  BY <1>2, <1>6 DEF AfterFailure, SameRequest, CountOK, RanOK
<1>9. StaleOK(conns', next)
  <2> SUFFICES ASSUME q.quiet
               PROVE  /\ next.pc # "idle" =>
                           Cardinality(LeftIn(conns', q.memb)) + next.index <= q.stale
                      /\ next.answer = "failed" => q.stale >= MAX_RECNT \/ ~IsConfigured(q.memb)
    BY <1>2 DEF StaleOK, AfterFailure, SameRequest
  <2> DEFINE x == Cardinality(LeftIn(conns, q.memb))
             m == Cardinality(LeftIn(conns', q.memb))
  <2>1. x \in Nat /\ m \in Nat /\ m = x - 1
    BY <1>5, LeftIs
  <2>2. x + q.index <= q.stale
    BY <1>1, <1>6 DEF CountOK, StaleOK
  <2>3. next.index = q.index + 1
    BY <1>2 DEF AfterFailure
  <2>4. m + next.index <= q.stale /\ next.index <= q.stale
    <3> HIDE DEF x, m
    <3>1. QED
      BY <1>1, <2>1, <2>2, <2>3
  <2>5. next.index >= MAX_RECNT => q.stale >= MAX_RECNT
    BY <1>1, <2>3, <2>4, RoundsAssumption
  <2>6. queues[q.memb] = None => ~IsConfigured(q.memb)
    BY <1>1 DEF CountsInv
  <2>7. next.answer = "failed" => next.index >= MAX_RECNT \/ queues[q.memb] = None
    BY <1>2, <1>6 DEF AfterFailure
  <2>8. QED
    BY <2>4, <2>5, <2>6, <2>7
<1>10. CountOK(runs, conns', next)
  BY <1>7, <1>8, <1>9 DEF CountOK
<1>11. \A c \in Conns : c # req[r].sock => conns'[c] = conns[c]
  BY <1>1, <1>3
<1>12. \A a : LeftIn(conns', a) \subseteq LeftIn(conns, a)
  BY <1>5
<1>13. calls' \in Nat /\ calls <= calls' /\ UNCHANGED <<runs, queues>>
  BY <1>3 DEF RedisTypeOK
<1>14. \A c \in Conns : c # req[r].sock /\ conns[c].client = "used" => conns'[c] = conns[c]
  BY <1>11
<1>15. \A c \in Conns : conns'[c].inbox = conns[c].inbox
  BY <1>5
<1>16. QED
  BY <1>2, <1>10, <1>12, <1>13, <1>14, <1>15, CountsRequestStep, Zenon

LEMMA SuccessKeepsCounts ==
  ASSUME RedisTypeOK, ReplyInv, CountsInv, NEW r \in Coroutines, NEW q \in Versions(r),
         req[r].pc \in {"send", "line", "bytes"},
         NEW cs \in [Conns -> ConnRecords],
         \A c \in Conns : /\ cs[c].inbox = conns[c].inbox /\ cs[c].addr = conns[c].addr
                          /\ cs[c].client = conns[c].client /\ cs[c].up = conns[c].up,
         \A c \in Conns \ {req[r].sock} : cs[c] = conns[c],
         NEW result \in Results, NEW failed \in BOOLEAN,
         runs[q.id][Current(q)] > 0,
         RoundSucceeds(r, q, cs, result, failed), UNCHANGED <<calls, runs>>
  PROVE  CountsInv'
<1> DEFINE k == req[r].sock
<1>1. /\ q \in Requests /\ q.memb \in Addrs /\ q.sock = k /\ q.id = req[r].id
      /\ q.pc = req[r].pc /\ q.index \in Nat /\ q.stale \in Nat
  BY VersionIs, ActiveIs DEF Requests
<1>2. PICK next \in Requests : req' = [req EXCEPT ![r] = next] /\ AfterSuccess(q, next, result)
  BY <1>1, SuccessIs
<1>3. k \in Conns /\ conns' \in SetKeepAlive(cs, k, failed) /\ queues' = queues /\ cs[k].client = "used"
  <2>1. k \in Conns /\ HolderOK(req[r], conns[k])
    BY HeldIs
  <2>2. conns' \in SetKeepAlive(cs, q.sock, failed) /\ queues' = queues
    BY <1>1, SuccessIs
  <2>3. QED
    BY <1>1, <2>1, <2>2 DEF HolderOK
<1>4. KeptOrClosed(cs, conns', k, failed)
  BY <1>3, KeepAliveIs
<1>5. /\ \A c \in Conns : conns'[c].inbox = conns[c].inbox
      /\ \A a : LeftIn(conns', a) \subseteq LeftIn(conns, a)
  <2>1. \A a : LeftIn(cs, a) = LeftIn(conns, a)
    BY DEF LeftIn
  <2>2. /\ \A c \in Conns : conns'[c].inbox = cs[c].inbox
        /\ \A a : LeftIn(conns', a) \subseteq LeftIn(cs, a)
    BY <1>3, <1>4, KeptCounts, Zenon
  <2>3. QED
    BY <2>1, <2>2
<1>6. CountOK(runs, conns, q) /\ q.answer = "none"
  <2>1. RequestOK(q)
    BY VersionOK
  <2>2. QED
    BY <1>1, <2>1, VersionCount DEF RequestOK
<1>7. Len(q.results) \in Nat /\ q.results \in Seq(Results)
  BY <1>1, ActiveIs DEF Requests
<1>8. /\ Len(next.results) = Len(q.results) + 1
      /\ next.id = q.id /\ next.memb = q.memb /\ next.index = 0 /\ next.sock = None
      /\ next.quiet = q.quiet /\ next.stale = q.stale /\ next.pc \in {"idle", "connect"}
  BY <1>2, <1>7, AppendProperties DEF AfterSuccess, SameRequest
<1>9. LoadOK(runs, conns', next)
  <2> SUFFICES ASSUME next.pc = "connect", NEW i \in Positions
               PROVE  /\ i = Current(next) => Load(runs, conns', next.id, i) <= Sent(next)
                      /\ i > Current(next) => Load(runs, conns', next.id, i) = 0
    BY <1>8 DEF LoadOK
  <2>1. Current(next) = Current(q) + 1 /\ Current(q) \in Nat /\ Sent(next) = 0
    BY <1>7, <1>8 DEF Current, Sent
  <2>2. Load(runs, conns', q.id, i) = Load(runs, conns, q.id, i)
    BY <1>5, SameLoad
  <2>3. i > Current(q) => Load(runs, conns, q.id, i) = 0
    BY <1>1, <1>6 DEF CountOK, LoadOK
  <2>4. i \in Nat
    BY BatchesAssumption DEF Positions
  <2>5. QED
    BY <1>8, <2>1, <2>2, <2>3, <2>4
<1>10. RanOK(runs, conns', next)
  <2>1. \A i \in 1 .. Len(next.results) : i \in 1 .. Len(q.results) \/ i = Current(q)
    BY <1>7, <1>8 DEF Current
  <2>2. QED
    BY <1>6, <1>8, <2>1 DEF CountOK, RanOK
<1>11. StaleOK(conns', next)
  <2> SUFFICES ASSUME q.quiet
               PROVE  /\ next.pc # "idle" =>
                           Cardinality(LeftIn(conns', q.memb)) + 0 <= q.stale
                      /\ next.answer = "failed" => ~IsConfigured(q.memb)
    BY <1>8 DEF StaleOK
  <2> DEFINE x == Cardinality(LeftIn(conns, q.memb))
             m == Cardinality(LeftIn(conns', q.memb))
  <2>1. x \in Nat /\ m \in Nat /\ m <= x
    BY <1>5, LeftIs
  <2>2. x + q.index <= q.stale
    BY <1>1, <1>6 DEF CountOK, StaleOK
  <2>3. m + 0 <= q.stale
    <3> HIDE DEF x, m
    <3>1. QED
      BY <1>1, <2>1, <2>2
  <2>4. queues[q.memb] = None => ~IsConfigured(q.memb)
    BY <1>1 DEF CountsInv
  <2>5. next.answer = "failed" => queues[q.memb] = None
    BY <1>2, <1>6 DEF AfterSuccess
  <2>6. QED
    BY <2>3, <2>4, <2>5
<1>12. CountOK(runs, conns', next)
  BY <1>9, <1>10, <1>11 DEF CountOK
<1>13. \A c \in Conns : c # req[r].sock /\ conns[c].client = "used" => conns'[c] = conns[c]
  BY <1>4 DEF KeptOrClosed
<1>14. calls' \in Nat /\ calls <= calls' /\ UNCHANGED <<runs, queues>>
  BY <1>3 DEF RedisTypeOK
<1>15. /\ \A c \in Conns : conns'[c].inbox = conns[c].inbox
       /\ \A a : LeftIn(conns', a) \subseteq LeftIn(conns, a)
  BY <1>5
<1>16. QED
  BY <1>2, <1>12, <1>13, <1>14, <1>15, CountsRequestStep, Zenon

LEMMA CallKeepsCounts ==
  ASSUME RedisTypeOK, ReplyInv, CountsInv, NEW r \in Coroutines, NEW name \in Names, Call(r, name)
  PROVE  CountsInv'
<1>1. /\ calls \in Nat /\ calls' \in Nat /\ calls <= calls' /\ calls < calls' /\ calls' \in 1 .. MaxCalls
      /\ conns' = conns /\ UNCHANGED runs
  <2>1. calls < MaxCalls /\ calls' = calls + 1 /\ conns' = conns /\ runs' = runs
    BY DEF Call
  <2>2. QED
    BY <2>1, BoundsAssumption DEF RedisTypeOK
<1>2. /\ \A c \in Conns : conns'[c].inbox = conns[c].inbox
      /\ \A c \in Conns : c # req[r].sock /\ conns[c].client = "used" => conns'[c] = conns[c]
      /\ \A a : LeftIn(conns', a) \subseteq LeftIn(conns, a)
  BY <1>1
<1>3. CASE pools[name] = {}
  <2> DEFINE next == [NoRequest EXCEPT !.id = calls', !.answer = "unknown"]
  <2>1. req' = [req EXCEPT ![r] = next] /\ UNCHANGED <<runs, queues>>
    BY <1>1, <1>3 DEF Call
  <2>2. CountOK(runs, conns', next)
    <3>1. Len(<< >>) = 0
      OBVIOUS
    <3>2. QED
      BY <3>1 DEF NoRequest, CountOK, LoadOK, RanOK, StaleOK
  <2>3. QED
    BY <1>1, <1>2, <2>1, <2>2, CountsRequestStep, Zenon
<1>4. CASE pools[name] # {}
  <2>1. PICK memb \in pools[name], cmds \in Batches :
          Round(r, [NoRequest EXCEPT !.id = calls', !.cmds = cmds, !.memb = memb,
                                     !.stale = Cardinality(Left(memb))])
    BY <1>4 DEF Call
  <2> DEFINE q == [NoRequest EXCEPT !.id = calls', !.cmds = cmds, !.memb = memb,
                                    !.stale = Cardinality(Left(memb))]
  <2>2. memb \in Addrs
    BY <2>1 DEF RedisTypeOK
  <2>3. Cardinality(Left(memb)) \in Nat
    BY ConnsAssumption, FS_Subset, FS_CardinalityType DEF Left
  <2>4. NoRequest \in Requests
    BY BoundsAssumption, EmptySeq DEF NoRequest, Requests
  <2>5. q \in Requests /\ q.memb \in Addrs
    <3>1. calls' \in 0 .. MaxCalls
      BY <1>1, BoundsAssumption
    <3>2. QED
      BY <2>1, <2>2, <2>3, <2>4, <3>1, Zenon DEF Requests
  <2>6. PICK next \in Requests :
          /\ req' = [req EXCEPT ![r] = next]
          /\ SameRequest(q, next) /\ Begins(q, next)
    BY <2>1, <2>5, RoundIs, Zenon
  <2>7. queues' = queues
    BY <2>1, <2>5, RoundIs, Zenon
  <2>8. /\ next.id = calls' /\ next.memb = memb /\ next.sock = None /\ next.results = << >>
        /\ next.index = 0 /\ next.stale = Cardinality(Left(memb))
        /\ \/ next.pc = "connect" /\ next.answer = "none"
           \/ next.pc = "idle" /\ next.answer = "failed" /\ queues[memb] = None
    BY <2>6 DEF NoRequest, SameRequest, Begins
  <2>9. \A i \in Positions : Load(runs, conns', calls', i) = 0
    <3>1. \A i \in Positions : Load(runs, conns, calls', i) = 0
      BY <1>1 DEF CountsInv
    <3>2. QED
      BY <1>1, <3>1
  <2>10. LoadOK(runs, conns', next)
    BY <2>8, <2>9 DEF LoadOK, Sent
  <2>11. RanOK(runs, conns', next)
    <3>1. Len(<< >>) = 0
      OBVIOUS
    <3>2. QED
      BY <2>8, <3>1 DEF RanOK
  <2>12. StaleOK(conns', next)
    <3>1. LeftIn(conns', memb) = Left(memb)
      BY <1>1 DEF Left, LeftIn
    <3>2. queues[memb] = None => ~IsConfigured(memb)
      BY <2>2 DEF CountsInv
    <3>3. QED
      BY <2>3, <2>8, <3>1, <3>2 DEF StaleOK
  <2>13. CountOK(runs, conns', next) /\ UNCHANGED <<runs, queues>>
    BY <1>1, <2>7, <2>10, <2>11, <2>12 DEF CountOK
  <2>14. QED
    BY <1>1, <1>2, <2>6, <2>13, CountsRequestStep, Zenon
<1>5. QED
  BY <1>3, <1>4

LEMMA ConnectKeepsCounts ==
  ASSUME RedisTypeOK, ReplyInv, CountsInv, ReplyInv', NEW r \in Coroutines, Connect(r)
  PROVE  CountsInv'
<1> DEFINE q == req[r]
<1>1. /\ q.pc = "connect" /\ q \in Requests /\ UNCHANGED <<runs, queues>> /\ calls' = calls
      /\ CountOK(runs, conns, q) /\ RequestOK(q)
  BY DEF Connect, RedisTypeOK, CountsInv, ReplyInv, HoldersInv
<1>2. PICK c \in Conns :
        /\ req' = [req EXCEPT ![r] = [q EXCEPT !.pc = "send", !.sock = c]]
        /\ conns[c].client \in {"idle", "closed"}
        /\ \/ conns' = [conns EXCEPT ![c].client = "used"] /\ conns[c].client = "idle"
           \/ conns' = [conns EXCEPT ![c] = [@ EXCEPT !.addr = q.memb, !.up = TRUE,
                                                   !.client = "used"]]
  BY DEF Connect, Idle, FreeConns
<1> DEFINE next == [q EXCEPT !.pc = "send", !.sock = c]
<1>3. conns[c] \in ConnRecords
  BY DEF RedisTypeOK
<1>4. /\ \A d \in Conns \ {c} : conns'[d] = conns[d]
      /\ conns'[c].inbox = conns[c].inbox
      /\ conns'[c].up \/ (/\ conns'[c].up = conns[c].up /\ conns'[c].addr = conns[c].addr
                         /\ conns[c].client # "closed")
  <2>1. CASE conns' = [conns EXCEPT ![c].client = "used"] /\ conns[c].client = "idle"
    BY <1>3, <2>1 DEF RedisTypeOK, ConnRecords
  <2>2. CASE conns' = [conns EXCEPT ![c] = [@ EXCEPT !.addr = q.memb, !.up = TRUE, !.client = "used"]]
    BY <1>3, <2>2 DEF RedisTypeOK, ConnRecords
  <2>3. QED
    BY <1>2, <2>1, <2>2
<1>5. \A a : LeftIn(conns', a) \subseteq LeftIn(conns, a)
  BY <1>4 DEF LeftIn
<1>6. \A d \in Conns : conns'[d].inbox = conns[d].inbox
  BY <1>4
<1>7. \A d \in Conns : d # req[r].sock /\ conns[d].client = "used" => conns'[d] = conns[d]
  BY <1>2, <1>4
<1>8. /\ next.pc = "send" /\ next.sock = c /\ next.id = q.id /\ next.memb = q.memb
      /\ next.cmds = q.cmds /\ next.results = q.results /\ next.index = q.index
      /\ next.answer = q.answer /\ next.stale = q.stale /\ next.quiet = q.quiet
      /\ Current(next) = Current(q) /\ q.answer = "none"
  BY <1>1 DEF Requests, Current, RequestOK
<1>9. LoadOK(runs, conns', next)
  <2>1. \A x, i : Load(runs, conns', x, i) = Load(runs, conns, x, i)
    BY <1>6, SameLoad
  <2>2. Sent(next) = Sent(q)
    BY <1>1, <1>8 DEF Sent
  <2>3. QED
    BY <1>1, <1>8, <2>1, <2>2 DEF CountOK, LoadOK
<1>10. RanOK(runs, conns', next)
  <2>1. req'[r] = next
    BY <1>2 DEF RedisTypeOK
  <2>2. HolderOK(next, conns'[c])
    <3>1. req'[r].sock = c /\ c # None
      BY <1>8, <2>1, NoneAssumption
    <3>2. HolderOK(req'[r], conns'[req'[r].sock])
      BY <3>1 DEF ReplyInv, HoldersInv
    <3>3. QED
      BY <2>1, <3>1, <3>2
  <2>3. Coming(conns'[c]) = << >> /\ Len(<< >>) = 0
    BY <1>8, <2>2 DEF HolderOK
  <2>4. QED
    BY <1>1, <1>8, <2>3 DEF CountOK, RanOK
<1>11. StaleOK(conns', next)
  <2>1. /\ Cardinality(LeftIn(conns, q.memb)) \in Nat /\ Cardinality(LeftIn(conns', q.memb)) \in Nat
        /\ Cardinality(LeftIn(conns', q.memb)) <= Cardinality(LeftIn(conns, q.memb))
        /\ q.index \in Nat /\ q.stale \in Nat
    BY <1>1, <1>5, LeftIs DEF Requests
  <2>2. q.quiet => Cardinality(LeftIn(conns, q.memb)) + q.index <= q.stale
    BY <1>1 DEF CountOK, StaleOK
  <2>3. QED
    BY <1>8, <2>1, <2>2 DEF StaleOK
<1>12. CountOK(runs, conns', next)
  BY <1>9, <1>10, <1>11 DEF CountOK
<1>13. calls' \in Nat /\ calls <= calls' /\ UNCHANGED <<runs, queues>>
  BY <1>1 DEF RedisTypeOK
<1>14. QED
  BY <1>2, <1>5, <1>6, <1>7, <1>12, <1>13, CountsRequestStep, Zenon

LEMMA ReadLineKeepsCounts ==
  ASSUME RedisTypeOK, ReplyInv, CountsInv, NEW r \in Coroutines, ReadLine(r)
  PROVE  CountsInv'
<1> DEFINE q == req[r]
           k == q.sock
           part == Head(conns[k].wire)
           rest == [conns[k] EXCEPT !.wire = Tail(@)]
           read == [conns EXCEPT ![k].wire = Tail(@)]
<1>1. /\ q.pc = "line" /\ q \in Versions(r) /\ q \in Requests /\ conns[k].wire # << >>
      /\ UNCHANGED <<calls, runs>> /\ CountOK(runs, conns, q)
  BY DEF ReadLine, Versions, RedisTypeOK, CountsInv
<1>2. k \in Conns /\ conns[k] \in ConnRecords /\ HolderOK(q, conns[k]) /\ ConnOK(conns[k])
  BY <1>1, HeldIs
<1>3. read \in [Conns -> ConnRecords] /\ part \in Replies
  BY <1>1, <1>2, TakenIs, Zenon
<1>4. read[k] = rest /\ \A c \in Conns \ {k} : read[c] = conns[c]
  BY <1>2, Zenon DEF RedisTypeOK
<1>5. \A c \in Conns : /\ read[c].inbox = conns[c].inbox /\ read[c].addr = conns[c].addr
                       /\ read[c].client = conns[c].client /\ read[c].up = conns[c].up
  BY <1>2, <1>4 DEF ConnRecords
<1>6. /\ part.kind = "bytes" <=> q.pc = "bytes"
      /\ part.kind = "error" => ~q.quiet
  BY <1>1, <1>2, FirstPart, Zenon
<1>7. part.kind # "error" => runs[q.id][Current(q)] > 0
  <2>1. Coming(conns[k]) # << >> /\ Coming(conns[k])[1] = part /\ Coming(conns[k]) \in Seq(Replies)
    BY <1>1, <1>2, ComingIs, Zenon
  <2>2. 1 \in 1 .. Len(Coming(conns[k]))
    BY <2>1, EmptySeq, LenProperties
  <2>3. QED
    BY <1>1, <1>2, <2>1, <2>2, NoneAssumption DEF CountOK, RanOK
<1>8. CASE part.kind = "status"
  <2>1. RoundSucceeds(r, q, read, part, FALSE)
    BY <1>8, Zenon DEF ReadLine
  <2>2. part \in Results
    BY <1>3, <1>8 DEF Replies, Results
  <2>3. req[r].pc \in {"send", "line", "bytes"} /\ FALSE \in BOOLEAN /\ runs[q.id][Current(q)] > 0
        /\ \A c \in Conns \ {req[r].sock} : read[c] = conns[c]
    BY <1>1, <1>4, <1>7, <1>8
  <2>4. QED
    BY <1>1, <1>3, <1>5, <2>1, <2>2, <2>3, SuccessKeepsCounts, Zenon
<1>9. CASE part.kind \in {"error", "bytes"}
  <2>1. RoundFails(r, q)
    BY <1>9, Zenon DEF ReadLine
  <2>2. ~q.quiet /\ req[r].pc # "idle"
    BY <1>1, <1>6, <1>9
  <2>3. QED
    BY <1>1, <2>1, <2>2, FailureKeepsCounts
<1>10. CASE part.kind \in {"bulk", "list"}
  <2> DEFINE next == IF part.kind = "bulk" THEN [q EXCEPT !.pc = "bytes"] ELSE q
  <2>1. req' = [req EXCEPT ![r] = next] /\ conns' = read /\ queues' = queues
    <3>1. CASE part.kind = "bulk"
      BY <3>1, Zenon DEF ReadLine
    <3>2. CASE part.kind = "list"
      BY <3>2, Zenon DEF ReadLine, RedisTypeOK
    <3>3. QED
      BY <1>10, <3>1, <3>2
  <2>2. /\ next.pc \in {"line", "bytes"} /\ next.sock = k /\ next.id = q.id /\ next.cmds = q.cmds
        /\ next.memb = q.memb /\ next.results = q.results /\ next.answer = q.answer
        /\ next.index = q.index /\ next.stale = q.stale /\ next.quiet = q.quiet
    BY <1>1 DEF Requests
  <2>3. \A c \in Conns : conns'[c].inbox = conns[c].inbox
    BY <1>5, <2>1
  <2>4. \A a : LeftIn(conns', a) = LeftIn(conns, a)
    BY <1>5, <2>1 DEF LeftIn
  <2> HIDE DEF next
  <2>5. LoadOK(runs, conns', next)
    <3>1. \A x, i : Load(runs, conns', x, i) = Load(runs, conns, x, i)
      BY <2>3, SameLoad
    <3>2. Sent(next) = Sent(q) /\ Current(next) = Current(q)
      BY <1>1, <2>2 DEF Sent, Current
    <3>3. QED
      BY <1>1, <2>2, <3>1, <3>2 DEF CountOK, LoadOK
  <2>6. RanOK(runs, conns', next)
    BY <1>1, <1>7, <1>10, <2>2 DEF CountOK, RanOK, Current
  <2>7. StaleOK(conns', next)
    BY <1>1, <2>2, <2>4 DEF CountOK, StaleOK
  <2>8. CountOK(runs, conns', next)
    BY <2>5, <2>6, <2>7 DEF CountOK
  <2>9. /\ calls' \in Nat /\ calls <= calls' /\ UNCHANGED <<runs, queues>>
        /\ \A c \in Conns : c # req[r].sock /\ conns[c].client = "used" => conns'[c] = conns[c]
    BY <1>1, <1>4, <2>1 DEF RedisTypeOK
  <2>10. \A a : LeftIn(conns', a) \subseteq LeftIn(conns, a)
    BY <2>4
  <2>11. QED
    BY <2>1, <2>3, <2>8, <2>9, <2>10, CountsRequestStep, Zenon
<1>11. QED
  BY <1>3, <1>8, <1>9, <1>10 DEF Replies

LEMMA ReceiveKeepsCounts ==
  ASSUME RedisTypeOK, ReplyInv, CountsInv, NEW r \in Coroutines,
         ReadLineFails(r) \/ ReadBytes(r) \/ ReadBytesFails(r)
  PROVE  CountsInv'
<1>1. CountOK(runs, conns, req[r]) /\ conns \in [Conns -> ConnRecords]
  BY DEF CountsInv, RedisTypeOK
<1>2. CASE ReadLineFails(r)
  <2>1. PICK q \in Versions(r) : ReceiveFails(r, q) /\ RoundFails(r, q)
    BY <1>2 DEF ReadLineFails, Versions
  <2>2. req[r].pc = "line" /\ UNCHANGED <<calls, runs>> /\ req[r].pc # "idle"
    BY <1>2 DEF ReadLineFails
  <2>3. q.quiet => q.sock \in LeftIn(conns, q.memb)
    <3> SUFFICES ASSUME q.quiet
                 PROVE  q.sock \in LeftIn(conns, q.memb)
      OBVIOUS
    <3>1. q # Disturbed[r]
      BY DEF Disturbed, RedisTypeOK, Requests
    <3>2. q = req[r] /\ ~conns[q.sock].up
      BY <2>1, <3>1 DEF ReceiveFails
    <3>3. q.sock \in Conns /\ HolderOK(q, conns[q.sock])
      BY <2>2, <3>2, HeldIs
    <3>4. QED
      BY <3>2, <3>3 DEF HolderOK, LeftIn
  <2>4. QED
    BY <2>1, <2>2, <2>3, FailureKeepsCounts
<1>3. CASE ReadBytes(r)
  <2> DEFINE q == req[r]
             k == q.sock
             part == Head(conns[k].wire)
             read == [conns EXCEPT ![k].wire = Tail(@)]
  <2>1. /\ q.pc = "bytes" /\ q \in Versions(r) /\ UNCHANGED <<calls, runs>>
        /\ conns[k].wire # << >> /\ RoundSucceeds(r, q, read, part, FALSE)
    BY <1>3, Zenon DEF ReadBytes, Versions
  <2>2. k \in Conns /\ conns[k] \in ConnRecords /\ HolderOK(q, conns[k])
    BY <2>1, HeldIs
  <2>3. read \in [Conns -> ConnRecords] /\ part \in Replies
    BY <2>1, <2>2, TakenIs, Zenon
  <2>4. part.kind = "bytes"
    BY <2>1, <2>2, FirstPart, Zenon
  <2>5. part \in Results /\ FALSE \in BOOLEAN
    BY <2>3, <2>4 DEF Replies, Results
  <2>6. /\ \A c \in Conns \ {req[r].sock} : read[c] = conns[c]
        /\ \A c \in Conns : /\ read[c].inbox = conns[c].inbox /\ read[c].addr = conns[c].addr
                            /\ read[c].client = conns[c].client /\ read[c].up = conns[c].up
    BY <2>2 DEF RedisTypeOK, ConnRecords
  <2>7. req[r].pc \in {"send", "line", "bytes"} /\ runs[q.id][Current(q)] > 0
    BY <1>1, <2>1 DEF CountOK, RanOK
  <2>8. QED
    BY <2>1, <2>3, <2>5, <2>6, <2>7, SuccessKeepsCounts, Zenon
<1>4. CASE ReadBytesFails(r)
  <2>1. PICK q \in Versions(r) : RoundSucceeds(r, q, conns, Garbled, TRUE)
    BY <1>4, Zenon DEF ReadBytesFails, Versions
  <2>2. req[r].pc = "bytes" /\ UNCHANGED <<calls, runs>>
    BY <1>4 DEF ReadBytesFails
  <2>3. runs[q.id][Current(q)] > 0
    BY <1>1, <2>2, VersionIs DEF CountOK, RanOK, Current
  <2>4. Garbled \in Results /\ TRUE \in BOOLEAN /\ req[r].pc \in {"send", "line", "bytes"}
    BY <2>2 DEF Garbled, Results
  <2>5. /\ \A c \in Conns \ {req[r].sock} : conns[c] = conns[c]
        /\ \A c \in Conns : /\ conns[c].inbox = conns[c].inbox /\ conns[c].addr = conns[c].addr
                            /\ conns[c].client = conns[c].client /\ conns[c].up = conns[c].up
    OBVIOUS
  <2>6. QED
    BY <1>1, <2>1, <2>2, <2>3, <2>4, <2>5, SuccessKeepsCounts, Zenon
<1>5. QED
  BY <1>2, <1>3, <1>4

(* A command is sent: one more may take effect, in this round.             *)
LEMMA SendKeepsCounts ==
  ASSUME RedisTypeOK, ReplyInv, CountsInv, ReplyInv', NEW r \in Coroutines, Send(r)
  PROVE  CountsInv'
<1> DEFINE q == req[r]
           k == q.sock
           i == Current(q)
           cmd == [id |-> q.id, i |-> i, kind |-> q.cmds[i]]
           next == [q EXCEPT !.pc = "line"]
<1>1. /\ q.pc = "send" /\ q \in Versions(r) /\ q \in Requests
      /\ UNCHANGED <<pools, queues, calls, runs, faults>> /\ CountOK(runs, conns, q)
  BY DEF Send, Versions, RedisTypeOK, CountsInv
<1>2. /\ cmd \in Commands /\ k \in Conns /\ conns[k] \in ConnRecords
      /\ HolderOK(q, conns[k]) /\ ConnOK(conns[k]) /\ q.id \in 1 .. MaxCalls /\ i \in Positions
      /\ q.index \in Nat /\ q.index < MAX_RECNT
  BY <1>1, ActiveIs, HeldIs DEF Commands, Requests, ReplyInv, HoldersInv, RequestOK
<1>3. /\ req' = [req EXCEPT ![r] = next]
      /\ conns' = IF conns[k].up THEN [conns EXCEPT ![k].inbox = Append(@, cmd)] ELSE conns
  BY DEF Send
<1>4. /\ next.pc = "line" /\ next.sock = k /\ next.id = q.id /\ next.memb = q.memb
      /\ next.cmds = q.cmds /\ next.results = q.results /\ next.index = q.index
      /\ next.answer = q.answer /\ next.stale = q.stale /\ next.quiet = q.quiet
      /\ Current(next) = i
  BY <1>1 DEF Requests, Current
<1>5. conns[k].inbox = << >> /\ Coming(conns[k]) = << >>
  BY <1>1, <1>2 DEF HolderOK
<1>6. /\ \A c \in Conns : /\ conns'[c].addr = conns[c].addr /\ conns'[c].client = conns[c].client
                          /\ conns'[c].up = conns[c].up /\ conns'[c].wire = conns[c].wire
                          /\ conns'[c].outbox = conns[c].outbox
                          /\ c # k => conns'[c] = conns[c]
      /\ conns'[k].inbox = << >> \/ conns'[k].inbox = <<cmd>>
  BY <1>2, <1>3, <1>5 DEF RedisTypeOK, ConnRecords
<1>7. \A c \in Conns : Coming(conns'[c]) = Coming(conns[c])
  BY <1>6, Zenon DEF Coming
<1>8. \A a : LeftIn(conns', a) = LeftIn(conns, a)
  BY <1>6 DEF LeftIn
<1>9. ASSUME NEW x \in 1 .. MaxCalls, NEW j \in Positions
      PROVE  /\ Load(runs, conns', x, j) \in Nat /\ Load(runs, conns, x, j) \in Nat
             /\ Load(runs, conns', x, j) <= Load(runs, conns, x, j) + 1
             /\ x # q.id \/ j # i => Load(runs, conns', x, j) = Load(runs, conns, x, j)
  <2>1. k \notin Waiting(conns, x, j)
    BY <1>5 DEF Waiting
  <2>2. /\ Waiting(conns', x, j) \subseteq Waiting(conns, x, j) \union {k}
        /\ Waiting(conns, x, j) \subseteq Waiting(conns', x, j)
        /\ x # q.id \/ j # i => k \notin Waiting(conns', x, j)
    BY <1>2, <1>5, <1>6 DEF Waiting
  <2>3. \/ Waiting(conns', x, j) = Waiting(conns, x, j)
        \/ Waiting(conns', x, j) = Waiting(conns, x, j) \union {k} /\ ~(x # q.id \/ j # i)
    BY <2>2
  <2>4. IsFiniteSet(Waiting(conns, x, j)) /\ Cardinality(Waiting(conns, x, j)) \in Nat
        /\ runs[x][j] \in Nat
    BY LoadIs DEF RedisTypeOK
  <2>5. Cardinality(Waiting(conns, x, j) \union {k}) = Cardinality(Waiting(conns, x, j)) + 1
    BY <2>1, <2>4, FS_AddElement, Zenon
  <2>6. \/ Cardinality(Waiting(conns', x, j)) = Cardinality(Waiting(conns, x, j))
        \/ /\ Cardinality(Waiting(conns', x, j)) = Cardinality(Waiting(conns, x, j)) + 1
           /\ ~(x # q.id \/ j # i)
    BY <2>3, <2>5
  <2>7. QED
    BY <2>4, <2>6 DEF Load
<1>10. Load(runs, conns, q.id, i) <= q.index /\ \A j \in Positions : j > i => Load(runs, conns, q.id, j) = 0
  BY <1>1, <1>2 DEF CountOK, LoadOK, Sent
<1>11. Load(runs, conns', q.id, i) <= q.index + 1 /\ Load(runs, conns', q.id, i) <= MAX_RECNT
  BY <1>2, <1>9, <1>10, RoundsAssumption
<1>12. LoadOK(runs, conns', next)
  <2>1. i \in Nat /\ \A j \in Positions : j \in Nat
    BY <1>2, BatchesAssumption DEF Positions
  <2>2. \A j \in Positions : j > i => Load(runs, conns', q.id, j) = 0
    BY <1>2, <1>9, <1>10, <2>1
  <2>3. QED
    BY <1>4, <1>11, <2>2 DEF LoadOK, Sent
<1>13. RanOK(runs, conns', next)
  BY <1>1, <1>2, <1>4, <1>7 DEF CountOK, RanOK
<1>14. StaleOK(conns', next)
  BY <1>1, <1>4, <1>8 DEF CountOK, StaleOK
<1>15. ASSUME NEW s \in Coroutines \ {r}
       PROVE  CountOK(runs, conns', req[s])
  <2> DEFINE p == req[s]
  <2>1. CountOK(runs, conns, p) /\ p.id \in 0 .. MaxCalls
    BY DEF CountsInv, RedisTypeOK, Requests
  <2>2. LoadOK(runs, conns', p)
    <3> SUFFICES ASSUME p.pc # "idle"
                 PROVE  LoadOK(runs, conns', p)
      BY DEF LoadOK
    <3>1. p.id # q.id /\ p.id \in 1 .. MaxCalls
      BY <1>2, ActiveIs DEF ReplyInv, HoldersInv, Versions
    <3>2. \A j \in Positions : Load(runs, conns', p.id, j) = Load(runs, conns, p.id, j)
      BY <1>9, <3>1
    <3>3. QED
      BY <2>1, <3>2 DEF CountOK, LoadOK
  <2>3. p.sock # None => Coming(conns'[p.sock]) = Coming(conns[p.sock])
    BY <1>7 DEF RedisTypeOK, Requests
  <2>4. RanOK(runs, conns', p)
    BY <2>1, <2>3 DEF CountOK, RanOK
  <2>5. StaleOK(conns', p)
    BY <1>8, <2>1 DEF CountOK, StaleOK
  <2>6. QED
    BY <2>2, <2>4, <2>5 DEF CountOK
<1>16. \A s \in Coroutines : CountOK(runs', conns', req'[s])
  <2>1. req'[r] = next /\ \A s \in Coroutines \ {r} : req'[s] = req[s]
    BY <1>3 DEF RedisTypeOK
  <2>2. CountOK(runs, conns', next)
    BY <1>12, <1>13, <1>14 DEF CountOK
  <2> HIDE DEF next
  <2>3. QED
    BY <1>1, <1>15, <2>1, <2>2
<1>17. ASSUME NEW x \in 1 .. MaxCalls, NEW j \in Positions
       PROVE  /\ Load(runs', conns', x, j) <= MAX_RECNT
              /\ x > calls' => Load(runs', conns', x, j) = 0
  <2>1. /\ Load(runs, conns, x, j) <= MAX_RECNT
        /\ x > calls => Load(runs, conns, x, j) = 0
    BY DEF CountsInv
  <2>2. CASE x = q.id
    <3>1. q.id <= calls /\ q.id \in Nat /\ calls \in Nat
      BY <1>2, BoundsAssumption DEF ReplyInv, HoldersInv, RedisTypeOK
    <3>2. QED
      BY <1>1, <1>9, <1>11, <2>1, <2>2, <3>1
  <2>3. CASE x # q.id
    BY <1>1, <1>9, <2>1, <2>3
  <2>4. QED
    BY <2>2, <2>3
<1>18. QED
  BY <1>1, <1>16, <1>17 DEF CountsInv

(* A step of the servers, the network or nginx.                            *)
LEMMA CountsConnStep ==
  ASSUME RedisTypeOK, RedisTypeOK', ReplyInv, CountsInv, req' \in {req, Disturbed},
         UNCHANGED <<queues, calls>>,
         \A x \in 1 .. MaxCalls, i \in Positions :
           /\ Load(runs', conns', x, i) <= Load(runs, conns, x, i)
           /\ runs[x][i] <= runs'[x][i],
         \A r \in Coroutines : req[r].sock # None =>
           \A k \in 1 .. Len(Coming(conns'[req[r].sock])) :
             Coming(conns'[req[r].sock])[k].kind # "error" => runs'[req[r].id][Current(req[r])] > 0,
         req' = Disturbed \/ \A a : LeftIn(conns', a) \subseteq LeftIn(conns, a)
  PROVE  CountsInv'
<1>1. ASSUME NEW x \in 1 .. MaxCalls, NEW i \in Positions
      PROVE  /\ Load(runs, conns, x, i) \in Nat /\ Load(runs', conns', x, i) \in Nat
             /\ runs[x][i] \in Nat /\ runs'[x][i] \in Nat
             /\ runs[x][i] > 0 => runs'[x][i] > 0
             /\ Load(runs, conns, x, i) = 0 => Load(runs', conns', x, i) = 0
  BY LoadIs, SMTT(30) DEF RedisTypeOK
<1>2. ASSUME NEW r \in Coroutines
      PROVE  CountOK(runs', conns', req'[r])
  <2> DEFINE q == req'[r]
  <2>1. q \in Versions(r) /\ q \in Requests
    BY DEF Versions, RedisTypeOK
  <2>2. CountOK(runs, conns, q) /\ RequestOK(q)
    BY <2>1, VersionCount, VersionOK
  <2>3. q.pc = req[r].pc /\ q.id = req[r].id /\ q.sock = req[r].sock /\ q.results = req[r].results
    BY <2>1, VersionIs
  <2>4. ASSUME q.pc # "idle"
        PROVE  q.id \in 1 .. MaxCalls /\ Current(q) \in Positions
    BY <2>1, <2>3, <2>4, ActiveIs
  <2> HIDE DEF q
  <2>5. LoadOK(runs', conns', q)
    <3> SUFFICES ASSUME q.pc # "idle", NEW i \in Positions
                 PROVE  /\ i = Current(q) => Load(runs', conns', q.id, i) <= Sent(q)
                        /\ i > Current(q) => Load(runs', conns', q.id, i) = 0
      BY DEF LoadOK
    <3>1. q.id \in 1 .. MaxCalls
      BY <2>4
    <3>2. /\ i = Current(q) => Load(runs, conns, q.id, i) <= Sent(q)
          /\ i > Current(q) => Load(runs, conns, q.id, i) = 0
      BY <2>2 DEF CountOK, LoadOK
    <3>3. Sent(q) \in Nat
      BY <2>1 DEF Sent, Requests
    <3>4. Load(runs', conns', q.id, i) <= Load(runs, conns, q.id, i)
      BY <3>1
    <3>5. QED
      BY <1>1, <3>1, <3>2, <3>3, <3>4
  <2>6. RanOK(runs', conns', q)
    <3>1. ASSUME NEW i \in 1 .. Len(q.results)
          PROVE  runs'[q.id][i] > 0
      <4>1. q.id # 0 /\ Len(q.results) <= Len(q.cmds) /\ q.cmds # << >>
        <5>1. q.results \in Seq(Results) /\ q.results # << >>
          BY <2>1, <3>1, EmptySeq, LenProperties DEF Requests
        <5>2. q.id # 0 /\ Len(q.results) <= Len(q.cmds)
          BY <2>2, <5>1 DEF RequestOK
        <5>3. Len(q.cmds) # 0
          BY <3>1, <5>1, <5>2, LenProperties
        <5>4. QED
          BY <5>2, <5>3
      <4>2. q.id \in 1 .. MaxCalls /\ q.cmds \in Batches /\ q.cmds \in Seq(Kinds)
        BY <2>1, <4>1, BatchesAssumption, BoundsAssumption DEF Requests
      <4>3. i \in DOMAIN q.cmds
        BY <3>1, <4>1, <4>2, <2>1, LenProperties DEF Requests
      <4>4. i \in Positions
        BY <4>2, <4>3 DEF Positions
      <4>5. runs[q.id][i] > 0
        BY <2>2, <3>1 DEF CountOK, RanOK
      <4>6. QED
        BY <1>1, <4>2, <4>4, <4>5
    <3>2. q.pc = "bytes" => runs'[q.id][Current(q)] > 0
      BY <1>1, <2>2, <2>4 DEF CountOK, RanOK
    <3>3. Current(q) = Current(req[r])
      BY <2>3 DEF Current
    <3>4. q.sock # None => \A k \in 1 .. Len(Coming(conns'[q.sock])) :
            Coming(conns'[q.sock])[k].kind # "error" => runs'[q.id][Current(q)] > 0
      BY <2>3, <3>3
    <3>5. QED
      BY <3>1, <3>2, <3>4 DEF RanOK
  <2>7. StaleOK(conns', q)
    <3>1. CASE req' = Disturbed
      <4>1. ~q.quiet
        BY <3>1 DEF q, Disturbed, RedisTypeOK, Requests
      <4>2. QED
        BY <4>1 DEF StaleOK
    <3>2. CASE \A a : LeftIn(conns', a) \subseteq LeftIn(conns, a)
      <4>1. /\ Cardinality(LeftIn(conns, q.memb)) \in Nat /\ Cardinality(LeftIn(conns', q.memb)) \in Nat
            /\ Cardinality(LeftIn(conns', q.memb)) <= Cardinality(LeftIn(conns, q.memb))
            /\ q.index \in Nat /\ q.stale \in Nat
        BY <2>1, <3>2, LeftIs DEF Requests
      <4>2. QED
        BY <2>2, <4>1 DEF CountOK, StaleOK
    <3>3. QED
      BY <3>1, <3>2
  <2>8. QED
    BY <2>5, <2>6, <2>7 DEF CountOK, q
<1>3. ASSUME NEW x \in 1 .. MaxCalls, NEW i \in Positions
      PROVE  /\ Load(runs', conns', x, i) <= MAX_RECNT
             /\ x > calls' => Load(runs', conns', x, i) = 0
  <2>1. /\ Load(runs, conns, x, i) <= MAX_RECNT
        /\ x > calls => Load(runs, conns, x, i) = 0
    BY DEF CountsInv
  <2>2. Load(runs', conns', x, i) <= Load(runs, conns, x, i)
    OBVIOUS
  <2>3. QED
    BY <1>1, <2>1, <2>2, RoundsAssumption
<1>4. QED
  BY <1>2, <1>3 DEF CountsInv

LEMMA ServeKeepsCounts ==
  ASSUME RedisTypeOK, RedisTypeOK', ReplyInv, CountsInv, NEW c \in Conns, Serve(c)
  PROVE  CountsInv'
<1> DEFINE cmd == Head(conns[c].inbox)
           wrong == <<[id |-> cmd.id, i |-> cmd.i, kind |-> "error"]>>
<1>1. /\ conns[c] \in ConnRecords /\ conns[c].inbox # << >> /\ conns[c].up
      /\ UNCHANGED <<queues, calls>> /\ runs \in [1 .. MaxCalls -> [Positions -> Nat]]
  BY DEF Serve, RedisTypeOK
<1>2. cmd \in Commands /\ cmd = conns[c].inbox[1]
  BY <1>1, HeadTailProperties DEF ConnRecords
<1>3. /\ cmd.id \in 1 .. MaxCalls /\ cmd.i \in Positions
      /\ cmd.id \in Nat /\ cmd.i \in Nat
  BY <1>2, CommandIs
<1>4. PICK parts \in {Parts(cmd), wrong} :
        /\ Replied(c, parts) /\ parts \in Seq(Replies)
        /\ \/ parts = Parts(cmd) /\ req' = req /\ runs' = [runs EXCEPT ![cmd.id][cmd.i] = @ + 1]
           \/ parts = wrong /\ req' = Disturbed /\ runs' = runs
  <2>1. Parts(cmd) \in Seq(Replies) /\ wrong \in Seq(Replies)
    BY <1>2, <1>3, PartsAre DEF Replies
  <2>2. CASE /\ Replied(c, Parts(cmd)) /\ req' = req
             /\ runs' = [runs EXCEPT ![cmd.id][cmd.i] = @ + 1]
    BY <2>1, <2>2
  <2>3. CASE Replied(c, wrong) /\ req' = Disturbed /\ runs' = runs
    BY <2>1, <2>3
  <2>4. QED
    BY <2>2, <2>3 DEF Serve, Replied
<1> HIDE DEF cmd
<1>5. /\ \A d \in Conns \ {c} : conns'[d] = conns[d]
      /\ conns'[c].inbox = << >> /\ conns'[c].wire = << >> /\ conns'[c].client = conns[c].client
      /\ \/ conns[c].client = "closed" /\ conns'[c].outbox = << >>
         \/ /\ conns[c].client = "used" /\ conns'[c].addr = conns[c].addr /\ conns'[c].up
            /\ conns'[c].outbox = parts /\ Coming(conns'[c]) = parts
  BY <1>1, <1>4, RepliedIs
<1>6. \A a : LeftIn(conns', a) \subseteq LeftIn(conns, a)
  BY <1>5 DEF LeftIn
<1>7. ASSUME NEW x \in 1 .. MaxCalls, NEW i \in Positions
      PROVE  /\ Load(runs', conns', x, i) <= Load(runs, conns, x, i)
             /\ runs[x][i] <= runs'[x][i]
  <2>1. Waiting(conns', x, i) = Waiting(conns, x, i) \ {c}
    BY <1>5 DEF Waiting
  <2>2. c \in Waiting(conns, x, i) <=> (x = cmd.id /\ i = cmd.i)
    BY <1>1, <1>2 DEF Waiting
  <2>3. /\ IsFiniteSet(Waiting(conns, x, i)) /\ Cardinality(Waiting(conns, x, i)) \in Nat
        /\ runs[x][i] \in Nat
    BY <1>1, LoadIs
  <2>0. \/ runs'[x][i] = IF x = cmd.id /\ i = cmd.i THEN runs[x][i] + 1 ELSE runs[x][i]
        \/ runs'[x][i] = runs[x][i]
    <3>1. runs' = [runs EXCEPT ![cmd.id][cmd.i] = @ + 1] \/ runs' = runs
      BY <1>4
    <3>2. [runs EXCEPT ![cmd.id][cmd.i] = @ + 1][x][i]
            = IF x = cmd.id /\ i = cmd.i THEN runs[x][i] + 1 ELSE runs[x][i]
      BY <1>1, <1>3, RanOnce
    <3>3. QED
      BY <3>1, <3>2, Zenon
  <2>4. CASE x = cmd.id /\ i = cmd.i
    <3>1. Cardinality(Waiting(conns', x, i)) = Cardinality(Waiting(conns, x, i)) - 1
      <4>1. c \in Waiting(conns, x, i)
        BY <2>2, <2>4
      <4>2. QED
        BY <2>1, <2>3, <4>1, FS_RemoveElement, Zenon
    <3>2. runs'[x][i] \in {runs[x][i], runs[x][i] + 1}
      BY <2>0, <2>4
    <3>3. QED
      BY <2>3, <3>1, <3>2 DEF Load
  <2>5. CASE ~(x = cmd.id /\ i = cmd.i)
    <3>1. Waiting(conns', x, i) = Waiting(conns, x, i)
      BY <2>1, <2>2, <2>5
    <3>2. runs'[x][i] = runs[x][i]
      BY <2>0, <2>5
    <3>3. QED
      BY <2>3, <3>1, <3>2 DEF Load
  <2>6. QED
    BY <2>4, <2>5
<1>8. ASSUME NEW r \in Coroutines, req[r].sock # None,
             NEW k \in 1 .. Len(Coming(conns'[req[r].sock])),
             Coming(conns'[req[r].sock])[k].kind # "error"
      PROVE  runs'[req[r].id][Current(req[r])] > 0
  <2> DEFINE q == req[r]
  <2>1. q.sock \in Conns /\ HolderOK(q, conns[q.sock]) /\ q.pc # "idle"
    BY <1>8, Zenon DEF RedisTypeOK, Requests, ReplyInv, HoldersInv, RequestOK
  <2>2. q.id \in 1 .. MaxCalls /\ Current(q) \in Positions
    BY <2>1, ActiveIs DEF Versions
  <2>3. CASE q.sock = c
    <3>1. conns[c].client = "used" /\ conns[c].inbox[1].id = q.id /\ conns[c].inbox[1].i = Current(q)
      BY <1>1, <2>1, <2>3 DEF HolderOK
    <3>2. parts # wrong
      <4>1. ASSUME parts = wrong
            PROVE  FALSE
        <5>1. Coming(conns'[c]) = wrong
          BY <1>5, <3>1, <4>1
        <5>2. Len(wrong) = 1 /\ wrong[1].kind = "error"
          OBVIOUS
        <5>3. k = 1
          BY <2>3, <5>1, <5>2
        <5>4. QED
          BY <1>8, <2>3, <5>1, <5>2, <5>3
      <4>2. QED
        BY <4>1
    <3>3. runs' = [runs EXCEPT ![cmd.id][cmd.i] = @ + 1] /\ cmd.id = q.id /\ cmd.i = Current(q)
      BY <1>2, <1>4, <3>1, <3>2
    <3>4. QED
      BY <1>1, <2>2, <3>3
  <2>4. CASE q.sock # c
    <3>1. conns'[q.sock] = conns[q.sock]
      BY <1>5, <2>1, <2>4
    <3>2. runs[q.id][Current(q)] > 0
      BY <1>8, <3>1 DEF CountsInv, CountOK, RanOK
    <3>3. runs[q.id][Current(q)] \in Nat /\ runs'[q.id][Current(q)] \in Nat
      BY <2>2 DEF RedisTypeOK
    <3>4. QED
      BY <1>7, <2>2, <3>2, <3>3
  <2>5. QED
    BY <2>3, <2>4
<1>9. req' \in {req, Disturbed}
  BY <1>4
<1>10. QED
  BY <1>1, <1>6, <1>7, <1>8, <1>9, CountsConnStep

LEMMA LinkKeepsCounts ==
  ASSUME RedisTypeOK, RedisTypeOK', ReplyInv, CountsInv,
         \/ \E c \in Conns : Deliver(c) \/ Reap(c)
         \/ \E cs \in SUBSET Conns : Drop(cs)
  PROVE  CountsInv'
<1>1. /\ UNCHANGED <<queues, calls, runs>> /\ req' \in {req, Disturbed}
      /\ runs \in [1 .. MaxCalls -> [Positions -> Nat]]
  BY DEF Deliver, Reap, Drop, RedisTypeOK
<1>2. /\ \A c \in Conns : conns'[c].inbox \in {conns[c].inbox, << >>}
      /\ req' = Disturbed \/ \A a : LeftIn(conns', a) \subseteq LeftIn(conns, a)
      /\ \A c \in Conns : conns[c].client = "used" =>
           \A k \in 1 .. Len(Coming(conns'[c])) :
             k \in 1 .. Len(Coming(conns[c])) /\ Coming(conns'[c])[k] = Coming(conns[c])[k]
  <2>1. \A c \in Conns : conns[c] \in ConnRecords
    BY DEF RedisTypeOK
  <2>2. ASSUME NEW c \in Conns, Deliver(c)
        PROVE  <1>2!:
    <3> DEFINE new == [conns[c] EXCEPT !.wire = Append(@, Head(conns[c].outbox)), !.outbox = Tail(@)]
    <3>1. conns' = [conns EXCEPT ![c] = new] /\ conns[c].outbox # << >>
      BY <2>2, Zenon DEF Deliver
    <3>2. Coming(new) = Coming(conns[c])
      BY <2>1, <3>1, DeliveredIs
    <3>3. \A d \in Conns :
            /\ conns'[d].inbox = conns[d].inbox /\ conns'[d].client = conns[d].client
            /\ conns'[d].addr = conns[d].addr /\ conns'[d].up = conns[d].up
            /\ Coming(conns'[d]) = Coming(conns[d])
      BY <2>1, <3>1, <3>2, Zenon DEF RedisTypeOK, ConnRecords
    <3>4. \A a : LeftIn(conns', a) \subseteq LeftIn(conns, a)
      BY <3>3 DEF LeftIn
    <3>5. QED
      BY <3>3, <3>4
  <2>3. ASSUME NEW c \in Conns, Reap(c)
        PROVE  <1>2!:
    <3>1. conns' = [conns EXCEPT ![c] = Closed(@)] /\ conns[c].client = "idle"
      BY <2>3 DEF Reap
    <3>2. /\ \A d \in Conns : conns'[d].inbox = conns[d].inbox
          /\ \A a : LeftIn(conns', a) \subseteq LeftIn(conns, a)
      BY <3>1, NoneAssumption, ClosedCounts, Zenon
    <3>3. \A d \in Conns : conns[d].client = "used" => conns'[d] = conns[d]
      BY <3>1
    <3>4. QED
      BY <3>2, <3>3
  <2>4. ASSUME NEW cs \in SUBSET Conns, Drop(cs)
        PROVE  <1>2!:
    <3>1. /\ req' = Disturbed
          /\ \A c \in Conns : conns'[c] = IF c \in cs THEN [conns[c] EXCEPT !.up = FALSE,
                                                  !.inbox = << >>, !.outbox = << >>]
                                         ELSE conns[c]
      BY <2>4 DEF Drop
    <3>2. ASSUME NEW c \in cs
          PROVE  /\ conns'[c].inbox = << >>
                 /\ \A k \in 1 .. Len(Coming(conns'[c])) :
                      k \in 1 .. Len(Coming(conns[c])) /\ Coming(conns'[c])[k] = Coming(conns[c])[k]
      <4>1. conns[c].wire \in Seq(Replies) /\ conns[c].outbox \in Seq(Replies)
        BY <2>1 DEF ConnRecords
      <4>2. conns'[c].inbox = << >> /\ conns'[c].wire = conns[c].wire /\ conns'[c].outbox = << >>
        <5>1. conns'[c] = [conns[c] EXCEPT !.up = FALSE, !.inbox = << >>, !.outbox = << >>]
          BY <3>1
        <5>2. conns[c] \in ConnRecords
          BY <2>1
        <5>3. QED
          BY <5>1, <5>2 DEF ConnRecords
      <4>3. Coming(conns'[c]) = conns[c].wire
        BY <4>1, <4>2, ConcatEmptySeq DEF Coming
      <4>4. \A k \in 1 .. Len(conns[c].wire) :
              k \in 1 .. Len(Coming(conns[c])) /\ Coming(conns[c])[k] = conns[c].wire[k]
        BY <4>1, PrefixIs, Zenon DEF Coming
      <4>5. QED
        BY <4>2, <4>3, <4>4
    <3>3. QED
      BY <3>1, <3>2
  <2>5. QED
    BY <2>2, <2>3, <2>4
<1>3. \A x \in 1 .. MaxCalls, i \in Positions :
        /\ Load(runs', conns', x, i) <= Load(runs, conns, x, i)
        /\ runs[x][i] <= runs'[x][i]
  <2> SUFFICES ASSUME NEW x \in 1 .. MaxCalls, NEW i \in Positions
               PROVE  /\ Load(runs, conns', x, i) <= Load(runs, conns, x, i)
                      /\ runs[x][i] <= runs[x][i]
    BY <1>1
  <2>1. runs[x][i] \in Nat
    BY <1>1
  <2>2. \A c \in Conns : conns'[c].inbox \in {conns[c].inbox, << >>}
    BY <1>2
  <2>3. runs \in [1 .. MaxCalls -> [Positions -> Nat]]
    BY <1>1
  <2>4. Load(runs, conns', x, i) <= Load(runs, conns, x, i)
    BY <2>2, <2>3, LessLoad, Zenon
  <2>5. QED
    BY <2>1, <2>4
<1>4. \A r \in Coroutines : req[r].sock # None =>
        \A k \in 1 .. Len(Coming(conns'[req[r].sock])) :
          Coming(conns'[req[r].sock])[k].kind # "error" => runs'[req[r].id][Current(req[r])] > 0
  <2> SUFFICES ASSUME NEW r \in Coroutines, req[r].sock # None,
                      NEW k \in 1 .. Len(Coming(conns'[req[r].sock])),
                      Coming(conns'[req[r].sock])[k].kind # "error"
               PROVE  runs[req[r].id][Current(req[r])] > 0
    BY <1>1
  <2>1. req[r].sock \in Conns /\ HolderOK(req[r], conns[req[r].sock])
    BY DEF RedisTypeOK, Requests, ReplyInv, HoldersInv
  <2>2. conns[req[r].sock].client = "used"
    BY <2>1 DEF HolderOK
  <2>3. QED
    BY <1>2, <2>1, <2>2 DEF CountsInv, CountOK, RanOK
<1>5. UNCHANGED <<queues, calls>>
  BY <1>1
<1>6. QED
  BY <1>1, <1>2, <1>3, <1>4, <1>5, CountsConnStep

LEMMA CollectKeepsCounts ==
  ASSUME RedisTypeOK, ReplyInv, CountsInv, NEW r \in Coroutines, NEW i \in Positions, Collect(r, i)
  PROVE  CountsInv'
<1> DEFINE q == req[r]
           next == [q EXCEPT !.results[i] = Collected]
<1>1. /\ q \in Requests /\ i \in DOMAIN q.results /\ CountOK(runs, conns, q)
      /\ req' = [req EXCEPT ![r] = next] /\ conns' = conns /\ UNCHANGED <<queues, calls, runs>>
  BY DEF Collect, RedisTypeOK, CountsInv
<1>2. Len(next.results) = Len(q.results)
  <2>1. next.results = [q.results EXCEPT ![i] = Collected]
    BY <1>1 DEF Requests
  <2>2. Collected \in Results /\ q.results \in Seq(Results) /\ i \in 1 .. Len(q.results)
    BY <1>1, LenProperties, Zenon DEF Collected, Results, Requests
  <2>3. QED
    BY <2>1, <2>2, ExceptSeq
<1>3. /\ next.pc = q.pc /\ next.sock = q.sock /\ next.id = q.id /\ next.cmds = q.cmds
      /\ next.memb = q.memb /\ next.answer = q.answer /\ next.index = q.index
      /\ next.quiet = q.quiet /\ next.stale = q.stale
  BY <1>1 DEF Requests
<1>4. CountOK(runs, conns, next)
  <2> HIDE DEF next
  <2>1. QED
    BY <1>1, <1>2, <1>3, SameCount
<1>5. /\ calls' \in Nat /\ calls <= calls' /\ UNCHANGED <<runs, queues>>
      /\ \A c \in Conns : conns'[c].inbox = conns[c].inbox
      /\ \A c \in Conns : c # req[r].sock /\ conns[c].client = "used" => conns'[c] = conns[c]
      /\ \A a : LeftIn(conns', a) \subseteq LeftIn(conns, a)
  BY <1>1 DEF RedisTypeOK
<1>6. CountOK(runs, conns', next)
  BY <1>1, <1>4
<1>7. QED
  BY <1>1, <1>5, <1>6, CountsRequestStep, Zenon

(* Every step keeps the counts.                                            *)
LEMMA CountsStep ==
  RedisTypeOK /\ ReplyInv /\ CountsInv /\ [RedisNext]_redisVars => CountsInv'
<1> SUFFICES ASSUME RedisTypeOK, ReplyInv, CountsInv, [RedisNext]_redisVars
             PROVE  CountsInv'
  OBVIOUS
<1>1. RedisTypeOK' /\ ReplyInv'
  BY TypeStep, ReplyStep
<1>2. ASSUME NEW r \in Coroutines, ConnectFails(r)
      PROVE  CountsInv'
  <2>1. /\ req[r].pc # "idle" /\ RoundFails(r, Disturbed[r]) /\ UNCHANGED <<calls, runs>>
        /\ Disturbed[r] \in Versions(r)
    BY <1>2 DEF ConnectFails, Versions
  <2>2. ~Disturbed[r].quiet
    BY DEF Disturbed, RedisTypeOK, Requests
  <2>3. QED
    BY <2>1, <2>2, FailureKeepsCounts
<1>3. ASSUME NEW r \in Coroutines, SendFails(r)
      PROVE  CountsInv'
  <2>1. /\ req[r].pc = "send" /\ req[r].pc # "idle" /\ RoundFails(r, req[r])
        /\ UNCHANGED <<calls, runs>> /\ ~conns[req[r].sock].up /\ req[r] \in Versions(r)
    BY <1>3 DEF SendFails, Versions
  <2>2. req[r].sock \in Conns /\ HolderOK(req[r], conns[req[r].sock])
    BY <2>1, HeldIs
  <2>3. req[r].sock \in LeftIn(conns, req[r].memb)
    BY <2>1, <2>2 DEF HolderOK, LeftIn
  <2>4. QED
    BY <2>1, <2>3, FailureKeepsCounts
<1>4. ASSUME NEW name \in Names, DelFromPool(name) \/ AddToPool(name)
      PROVE  CountsInv'
  BY <1>4 DEF DelFromPool, AddToPool, CountsInv
<1>5. CASE UNCHANGED redisVars
  BY <1>5 DEF redisVars, CountsInv
<1>6. ASSUME NEW r \in Coroutines, Advance(r)
      PROVE  CountsInv'
  BY <1>1, <1>2, <1>3, <1>6, ConnectKeepsCounts, SendKeepsCounts, ReadLineKeepsCounts,
     ReceiveKeepsCounts DEF Advance
<1>7. ASSUME NEW c \in Conns, Serve(c) \/ Deliver(c) \/ Reap(c)
      PROVE  CountsInv'
  BY <1>1, <1>7, ServeKeepsCounts, LinkKeepsCounts
<1>8. ASSUME NEW cs \in SUBSET Conns, Drop(cs)
      PROVE  CountsInv'
  BY <1>1, <1>8, LinkKeepsCounts
<1>9. QED
  BY <1>4, <1>5, <1>6, <1>7, <1>8, CallKeepsCounts, CollectKeepsCounts DEF RedisNext

LEMMA CountsInit == RedisInit => CountsInv
<1> SUFFICES ASSUME RedisInit
             PROVE  CountsInv
  OBVIOUS
<1>1. \A a \in Addrs : IsConfigured(a) => queues[a] # None
  BY NoneAssumption DEF RedisInit, IsConfigured
<1>2. ASSUME NEW x \in 1 .. MaxCalls, NEW i \in Positions
      PROVE  Load(runs, conns, x, i) = 0
  <2>1. Waiting(conns, x, i) = {}
    BY DEF RedisInit, Waiting
  <2>2. runs[x][i] = 0
    BY DEF RedisInit
  <2>3. QED
    BY <2>1, <2>2, FS_EmptySet DEF Load
<1>3. ASSUME NEW r \in Coroutines
      PROVE  CountOK(runs, conns, req[r])
  <2>1. req[r] = NoRequest /\ Len(<< >>) = 0
    BY DEF RedisInit
  <2>2. QED
    BY <2>1 DEF NoRequest, CountOK, LoadOK, RanOK, StaleOK
<1>4. QED
  BY <1>1, <1>2, <1>3, RoundsAssumption DEF CountsInv

(* How often each command was sent and took effect, and what each round    *)
(* that failed used up, in every reachable state.                          *)
THEOREM CountsAreKept == RedisSpec => [](RedisTypeOK /\ ReplyInv /\ CountsInv)
<1>1. RedisInit => RedisTypeOK /\ ReplyInv /\ CountsInv
  BY InitIs, CountsInit
<1>2. /\ RedisTypeOK /\ ReplyInv /\ CountsInv
      /\ [RedisNext]_redisVars
      => (RedisTypeOK /\ ReplyInv /\ CountsInv)'
  BY TypeStep, ReplyStep, CountsStep
<1>3. QED
  BY <1>1, <1>2, PTL DEF RedisSpec

(* A command takes effect at most once in each of its rounds, however late *)
(* a server gets to it, and an answered one took effect.                   *)
THEOREM RunsAreBounded == RedisSpec => []RunsMatchAnswer
<1>1. RedisTypeOK /\ ReplyInv /\ CountsInv => RunsMatchAnswer
  <2> SUFFICES ASSUME RedisTypeOK, CountsInv
               PROVE  RunsMatchAnswer
    OBVIOUS
  <2>1. ASSUME NEW x \in DOMAIN runs, NEW i \in DOMAIN runs[x]
        PROVE  runs[x][i] <= MAX_RECNT
    <3>1. x \in 1 .. MaxCalls /\ i \in Positions /\ runs \in [1 .. MaxCalls -> [Positions -> Nat]]
      BY DEF RedisTypeOK
    <3>2. Load(runs, conns, x, i) <= MAX_RECNT
      BY <3>1 DEF CountsInv
    <3>3. /\ runs[x][i] <= Load(runs, conns, x, i)
          /\ runs[x][i] \in Nat /\ Load(runs, conns, x, i) \in Nat
      BY <3>1, LoadIs, Zenon
    <3>4. QED
      BY <3>2, <3>3, RoundsAssumption
  <2>2. ASSUME NEW r \in Coroutines, NEW i \in DOMAIN req[r].results
        PROVE  runs[req[r].id][i] > 0
    <3>1. i \in 1 .. Len(req[r].results)
      BY LenProperties DEF RedisTypeOK, Requests
    <3>2. QED
      BY <3>1 DEF CountsInv, CountOK, RanOK
  <2>3. QED
    BY <2>1, <2>2 DEF RunsMatchAnswer
<1>2. QED
  BY <1>1, CountsAreKept, PTL

(* A request to a configured member that no fault disturbed fails only if  *)
(* it began with as many connections that the server had left as a command *)
(* has rounds.                                                             *)
FailureNeedsStale ==
  \A r \in Coroutines :
    req[r].answer = "failed" /\ req[r].quiet =>
      req[r].stale >= MAX_RECNT \/ ~IsConfigured(req[r].memb)

THEOREM StaleIsAbsorbed == RedisSpec => []FailureNeedsStale
<1>1. RedisTypeOK /\ ReplyInv /\ CountsInv => FailureNeedsStale
  BY DEF CountsInv, CountOK, StaleOK, FailureNeedsStale
<1>2. QED
  BY <1>1, CountsAreKept, PTL

(* With two rounds or more, as the code has it, the second makes up for    *)
(* one connection that nginx kept and the server had left.                 *)
THEOREM SecondRoundAbsorbs ==
  ASSUME MAX_RECNT >= 2
  PROVE  RedisSpec => []OneStaleIsAbsorbed
<1>1. RedisTypeOK /\ FailureNeedsStale => OneStaleIsAbsorbed
  <2> SUFFICES ASSUME RedisTypeOK, FailureNeedsStale, NEW r \in Coroutines,
                      req[r].answer = "failed", req[r].quiet
               PROVE  req[r].stale > 1 \/ ~IsConfigured(req[r].memb)
    BY DEF OneStaleIsAbsorbed, IsConfigured
  <2>1. req[r].stale \in Nat
    BY DEF RedisTypeOK, Requests
  <2>2. req[r].stale >= MAX_RECNT \/ ~IsConfigured(req[r].memb)
    BY DEF FailureNeedsStale
  <2>3. QED
    BY <2>1, <2>2, RoundsAssumption
<1>2. QED
  BY <1>1, RepliesAreKeptApart, StaleIsAbsorbed, PTL

-----------------------------------------------------------------------------
(* The pool of MySQL connections.                                          *)
USE MaxRecntAssumption, MaxStmtsAssumption DEF MaxRecntAssumption, MaxStmtsAssumption

(* Counting the statements of S again leaves a count for every statement.  *)
LEMMA TookEffectType ==
  ASSUME NEW S, done \in [Stmts -> Nat]
  PROVE  /\ TookEffect(S) \in [Stmts -> Nat]
         /\ \A i \in Stmts : TookEffect(S)[i] = IF i \in S THEN done[i] + 1 ELSE done[i]
  BY DEF TookEffect

(* Every variable keeps its type.                                          *)
THEOREM TypeCorrect == Spec => []TypeOK
<1>1. Init => TypeOK
  BY DEF Init, TypeOK, Stmts
<1>2. TypeOK /\ [Next]_vars => TypeOK'
  <2> SUFFICES ASSUME TypeOK, [Next]_vars
               PROVE  TypeOK'
    OBVIOUS
  <2> USE DEF TypeOK, connVars, cmdVars, reqVars, RoundEnds, Return
  <2>1. CASE NewConnect
    BY <2>1 DEF NewConnect, EnterMysqlCmd
  <2>2. CASE Execute
    BY <2>2 DEF Execute, TookEffect
  <2>3. CASE Lost
    BY <2>3 DEF Lost, LostWith, TookEffect
  <2>4. CASE Reject
    BY <2>4 DEF Reject
  <2>5. CASE Deadlock
    BY <2>5 DEF Deadlock
  <2>6. CASE GoneAway \/ SkipRound
    <3>1. CASE GoneAway
      BY <3>1 DEF GoneAway
    <3>2. CASE SkipRound
      BY <3>2 DEF SkipRound
    <3>3. QED
      BY <2>6, <3>1, <3>2
  <2>7. CASE AffairsBegin
    BY <2>7 DEF AffairsBegin, Stmts
  <2>8. CASE AffairsExecute
    <3>1. at \in Stmts /\ at + 1 \in 1 .. MaxStmts + 1
      <4>1. at <= n
        BY <2>8 DEF AffairsExecute
      <4>2. n \in 1 .. MaxStmts /\ at \in 1 .. MaxStmts + 1
        BY DEF Stmts
      <4>3. QED
        BY <4>1, <4>2 DEF Stmts
    <3>2. CASE autocommit = "on"
      <4>1. done' = TookEffect({at})
        BY <2>8, <3>2 DEF AffairsExecute
      <4>2. done' \in [Stmts -> Nat]
        BY <4>1, TookEffectType
      <4>3. QED
        BY <2>8, <3>1, <3>2, <4>2, Zenon DEF AffairsExecute
    <3>3. CASE autocommit # "on"
      BY <2>8, <3>1, <3>3, Zenon DEF AffairsExecute
    <3>4. QED
      BY <3>2, <3>3
  <2>9. CASE AffairsAbort
    BY <2>9, ZenonT(60) DEF AffairsAbort
  <2>10. CASE AffairsCommit
    BY <2>10 DEF AffairsCommit, TookEffect
  <2>11. CASE AffairsCommitFails
    BY <2>11 DEF AffairsCommitFails, TookEffect
  <2>12. CASE AffairsRestore
    BY <2>12 DEF AffairsRestore
  <2>13. CASE FlushPool
    BY <2>13 DEF FlushPool
  <2>14. CASE Tally
    BY <2>14, SMTT(60) DEF Tally, EnterMysqlCmd, Stmts
  <2>15. CASE Handler
    BY <2>15 DEF Handler, Cmd, EnterMysqlCmd, Stmts
  <2>16. CASE ServerDown
    BY <2>16 DEF ServerDown, Disconnect
  <2>17. CASE ServerUp
    BY <2>17 DEF ServerUp
  <2>18. CASE SessionDropped
    BY <2>18 DEF SessionDropped, Disconnect
  <2>19. CASE UNCHANGED vars
    BY <2>19 DEF vars
  <2>20. QED
    BY <2>1, <2>2, <2>3, <2>4, <2>5, <2>6, <2>7, <2>8, <2>9, <2>10, <2>11, <2>12, <2>13,
       <2>14, <2>15, <2>16, <2>17, <2>18, <2>19 DEF Next, Worker, Server
<1>3. QED
  BY <1>1, <1>2, PTL DEF Spec

(* The inductive invariant; one step per action, one per conjunct.          *)
THEOREM Invariance == Spec => []IInv
<1>1. Init => IInv
  BY DEF Init, IInv, TypeOK, TransactionInv, StatementInv, AffairsInv, Stmts
<1>2. IInv /\ TypeOK' /\ [Next]_vars => IInv'
  <2> SUFFICES ASSUME TypeOK, TransactionInv, StatementInv, AffairsInv, TypeOK', [Next]_vars
               PROVE  TransactionInv' /\ StatementInv' /\ AffairsInv'
    BY DEF IInv
  <2> USE TookEffectType DEF TypeOK, connVars, cmdVars, reqVars, Stmts
  <2>1. CASE NewConnect
    <3>1. TransactionInv'
      BY <2>1 DEF NewConnect, EnterMysqlCmd, Return, TransactionInv, AffairsInv
    <3>2. StatementInv'
      BY <2>1 DEF NewConnect, EnterMysqlCmd, Return, StatementInv, TransactionInv
    <3>3. AffairsInv'
      BY <2>1 DEF NewConnect, EnterMysqlCmd, Return, AffairsInv, TransactionInv
    <3>4. QED
      BY <3>1, <3>2, <3>3
  <2>2. CASE Execute
    <3>1. TransactionInv'
      BY <2>2 DEF Execute, RoundEnds, TransactionInv, AffairsInv
    <3>2. StatementInv'
      BY <2>2, SMTT(40) DEF Execute, RoundEnds, StatementInv, TransactionInv
    <3>3. AffairsInv'
      BY <2>2 DEF Execute, RoundEnds, AffairsInv, TransactionInv
    <3>4. QED
      BY <3>1, <3>2, <3>3
  <2>3. CASE Reject
    <3>1. TransactionInv'
      BY <2>3 DEF Reject, RoundEnds, TransactionInv, AffairsInv
    <3>2. StatementInv'
      BY <2>3 DEF Reject, RoundEnds, StatementInv, TransactionInv
    <3>3. AffairsInv'
      BY <2>3 DEF Reject, RoundEnds, AffairsInv, TransactionInv
    <3>4. QED
      BY <3>1, <3>2, <3>3
  <2>4. CASE Deadlock
    <3>1. TransactionInv'
      BY <2>4 DEF Deadlock, RoundEnds, TransactionInv, AffairsInv
    <3>2. StatementInv'
      BY <2>4 DEF Deadlock, RoundEnds, StatementInv, TransactionInv
    <3>3. AffairsInv'
      BY <2>4 DEF Deadlock, RoundEnds, AffairsInv, TransactionInv
    <3>4. QED
      BY <3>1, <3>2, <3>3
  <2>5. CASE Lost
    <3>1. TransactionInv'
      BY <2>5 DEF Lost, LostWith, RoundEnds, TransactionInv, AffairsInv
    <3>2. StatementInv'
      BY <2>5, SMTT(40) DEF Lost, LostWith, RoundEnds, StatementInv, TransactionInv
    <3>3. AffairsInv'
      BY <2>5 DEF Lost, LostWith, RoundEnds, AffairsInv, TransactionInv
    <3>4. QED
      BY <3>1, <3>2, <3>3
  <2>6. CASE GoneAway
    <3>1. TransactionInv'
      BY <2>6 DEF GoneAway, RoundEnds, TransactionInv, AffairsInv
    <3>2. StatementInv'
      BY <2>6 DEF GoneAway, RoundEnds, StatementInv, TransactionInv
    <3>3. AffairsInv'
      BY <2>6 DEF GoneAway, RoundEnds, AffairsInv, TransactionInv
    <3>4. QED
      BY <3>1, <3>2, <3>3
  <2>7. CASE SkipRound
    <3>1. TransactionInv'
      BY <2>7 DEF SkipRound, TransactionInv, AffairsInv
    <3>2. StatementInv'
      BY <2>7 DEF SkipRound, StatementInv, TransactionInv
    <3>3. AffairsInv'
      BY <2>7 DEF SkipRound, AffairsInv, TransactionInv
    <3>4. QED
      BY <3>1, <3>2, <3>3
  <2>8. CASE AffairsBegin
    <3>1. TransactionInv'
      BY <2>8 DEF AffairsBegin, TransactionInv, AffairsInv
    <3>2. StatementInv'
      BY <2>8 DEF AffairsBegin, StatementInv, TransactionInv
    <3>3. AffairsInv'
      BY <2>8 DEF AffairsBegin, AffairsInv, TransactionInv
    <3>4. QED
      BY <3>1, <3>2, <3>3
  <2>9. CASE AffairsExecute
    <3>1. TransactionInv'
      BY <2>9 DEF AffairsExecute, TransactionInv, AffairsInv
    <3>2. StatementInv'
      BY <2>9 DEF AffairsExecute, StatementInv, TransactionInv
    <3>3. AffairsInv'
      <4>1. autocommit = "off" /\ open = 1 .. at - 1 /\ at <= n
        BY <2>9 DEF AffairsExecute, AffairsInv, TransactionInv
      <4>2. open' = open \union {at} /\ at' = at + 1 /\ done' = done
        BY <2>9, <4>1 DEF AffairsExecute
      <4>3. open' = 1 .. at' - 1
        BY <4>1, <4>2
      <4>4. QED
        BY <2>9, <4>1, <4>2, <4>3 DEF AffairsExecute, AffairsInv, TransactionInv
    <3>4. QED
      BY <3>1, <3>2, <3>3
  <2>10. CASE AffairsAbort
    <3>1. TransactionInv'
      BY <2>10 DEF AffairsAbort, RoundEnds, TransactionInv, AffairsInv
    <3>2. StatementInv'
      BY <2>10 DEF AffairsAbort, RoundEnds, StatementInv, TransactionInv
    <3>3. AffairsInv'
      BY <2>10 DEF AffairsAbort, RoundEnds, AffairsInv, TransactionInv
    <3>4. QED
      BY <3>1, <3>2, <3>3
  <2>11. CASE AffairsCommit
    <3>1. TransactionInv'
      BY <2>11 DEF AffairsCommit, TransactionInv, AffairsInv
    <3>2. StatementInv'
      BY <2>11 DEF AffairsCommit, StatementInv, TransactionInv
    <3>3. AffairsInv'
      BY <2>11 DEF AffairsCommit, AffairsInv, TransactionInv
    <3>4. QED
      BY <3>1, <3>2, <3>3
  <2>12. CASE AffairsCommitFails
    <3>1. TransactionInv'
      BY <2>12 DEF AffairsCommitFails, RoundEnds, TransactionInv, AffairsInv
    <3>2. StatementInv'
      BY <2>12 DEF AffairsCommitFails, RoundEnds, StatementInv, TransactionInv
    <3>3. AffairsInv'
      <4>1. kind = "affairs" /\ kind' = kind /\ n' = n /\ pc' = "tally" /\ outcome' = "nil"
            /\ reply' = "none"
        BY <2>12 DEF AffairsCommitFails, RoundEnds, TransactionInv
      <4>2. CASE session = "live" /\ done' = TookEffect(open)
        <5>1. open = 1 .. n
          BY <2>12, <4>2 DEF AffairsCommitFails, AffairsInv, TransactionInv
        <5>2. \A i \in 1 .. MaxStmts : done'[i] = IF i <= n THEN 1 ELSE 0
          BY <2>12, <4>1, <4>2, <5>1, SMTT(40) DEF AffairsCommitFails, AffairsInv, TransactionInv
        <5>3. QED
          BY <4>1, <5>2 DEF AffairsInv
      <4>3. CASE done' = done
        BY <4>1, <4>3 DEF AffairsInv
      <4>4. QED
        BY <2>12, <4>2, <4>3 DEF AffairsCommitFails
    <3>4. QED
      BY <3>1, <3>2, <3>3
  <2>13. CASE AffairsRestore
    <3>1. TransactionInv'
      BY <2>13 DEF AffairsRestore, RoundEnds, TransactionInv, AffairsInv
    <3>2. StatementInv'
      BY <2>13 DEF AffairsRestore, RoundEnds, StatementInv, TransactionInv
    <3>3. AffairsInv'
      BY <2>13 DEF AffairsRestore, RoundEnds, AffairsInv, TransactionInv
    <3>4. QED
      BY <3>1, <3>2, <3>3
  <2>14. CASE FlushPool
    <3>1. TransactionInv'
      BY <2>14 DEF FlushPool, TransactionInv, AffairsInv
    <3>2. StatementInv'
      BY <2>14 DEF FlushPool, StatementInv, TransactionInv
    <3>3. AffairsInv'
      BY <2>14 DEF FlushPool, AffairsInv, TransactionInv
    <3>4. QED
      BY <3>1, <3>2, <3>3
  <2>15. CASE Tally
    <3>1. TransactionInv'
      BY <2>15 DEF Tally, EnterMysqlCmd, Return, TransactionInv, AffairsInv
    <3>2. StatementInv'
      BY <2>15 DEF Tally, EnterMysqlCmd, Return, StatementInv, TransactionInv
    <3>3. AffairsInv'
      BY <2>15 DEF Tally, EnterMysqlCmd, Return, AffairsInv, TransactionInv
    <3>4. QED
      BY <3>1, <3>2, <3>3
  <2>16. CASE Handler
    <3>1. TransactionInv'
      BY <2>16 DEF Handler, Cmd, EnterMysqlCmd, TransactionInv, AffairsInv
    <3>2. StatementInv'
      BY <2>16 DEF Handler, Cmd, EnterMysqlCmd, StatementInv, TransactionInv
    <3>3. AffairsInv'
      BY <2>16 DEF Handler, Cmd, EnterMysqlCmd, AffairsInv, TransactionInv
    <3>4. QED
      BY <3>1, <3>2, <3>3
  <2>17. CASE ServerDown
    <3>1. TransactionInv'
      BY <2>17 DEF ServerDown, Disconnect, TransactionInv, AffairsInv
    <3>2. StatementInv'
      BY <2>17 DEF ServerDown, Disconnect, StatementInv, TransactionInv
    <3>3. AffairsInv'
      BY <2>17 DEF ServerDown, Disconnect, AffairsInv, TransactionInv
    <3>4. QED
      BY <3>1, <3>2, <3>3
  <2>18. CASE ServerUp
    <3>1. TransactionInv'
      BY <2>18 DEF ServerUp, TransactionInv, AffairsInv
    <3>2. StatementInv'
      BY <2>18 DEF ServerUp, StatementInv, TransactionInv
    <3>3. AffairsInv'
      BY <2>18 DEF ServerUp, AffairsInv, TransactionInv
    <3>4. QED
      BY <3>1, <3>2, <3>3
  <2>19. CASE SessionDropped
    <3>1. TransactionInv'
      BY <2>19 DEF SessionDropped, Disconnect, TransactionInv, AffairsInv
    <3>2. StatementInv'
      BY <2>19 DEF SessionDropped, Disconnect, StatementInv, TransactionInv
    <3>3. AffairsInv'
      BY <2>19 DEF SessionDropped, Disconnect, AffairsInv, TransactionInv
    <3>4. QED
      BY <3>1, <3>2, <3>3
  <2>20. CASE UNCHANGED vars
    BY <2>20 DEF vars, TransactionInv, StatementInv, AffairsInv
  <2>21. QED
    BY <2>1, <2>2, <2>3, <2>4, <2>5, <2>6, <2>7, <2>8, <2>9, <2>10, <2>11, <2>12, <2>13, <2>14, <2>15, <2>16, <2>17, <2>18, <2>19, <2>20 DEF Next, Worker, Server
<1>3. QED
  BY <1>1, <1>2, TypeCorrect, PTL DEF Spec

(* cmd() returns true only for a request whose every statement took effect *)
(* exactly once (mysql_cmd's retries and reconnects included).             *)
THEOREM AckedExactlyOnceHolds == Spec => []AckedExactlyOnce
<1>1. IInv => AckedExactlyOnce
  BY DEF IInv, TypeOK, TransactionInv, StatementInv, AffairsInv, AckedExactlyOnce, Stmts
<1>2. QED
  BY <1>1, Invariance, PTL

(* No statement of a request takes effect twice.                           *)
THEOREM NeverTwiceHolds == Spec => []NeverTwice
<1>1. IInv => NeverTwice
  BY DEF IInv, TypeOK, StatementInv, AffairsInv, NeverTwice, Stmts
<1>2. QED
  BY <1>1, Invariance, PTL

(* What a batch applied is always a prefix of it.                          *)
THEOREM PrefixAppliedHolds == Spec => []PrefixApplied
<1>1. IInv => PrefixApplied
  BY DEF IInv, TypeOK, StatementInv, PrefixApplied, Stmts
<1>2. QED
  BY <1>1, Invariance, PTL

(* The statements of a transaction take effect together or not at all.     *)
THEOREM AffairsAtomicHolds == Spec => []AffairsAtomic
<1>1. IInv => AffairsAtomic
  BY DEF IInv, TypeOK, AffairsInv, AffairsAtomic, Stmts
<1>2. QED
  BY <1>1, Invariance, PTL

(* No request leaves the pooled session inside a transaction.              *)
THEOREM IdleSessionAutocommitsHolds == Spec => []IdleSessionAutocommits
<1>1. IInv => IdleSessionAutocommits
  BY DEF IInv, TypeOK, TransactionInv, IdleSessionAutocommits
<1>2. QED
  BY <1>1, Invariance, PTL

(* With three rounds or more, as in the code, a request that found the     *)
(* server up and undisturbed is served, whatever the state of the pool.    *)
THEOREM FreshRequestServedHolds ==
  ASSUME MaxRecnt >= 3
  PROVE  Spec => []FreshRequestServed
<1>1. Init => FreshInv
  BY DEF Init, FreshInv
<1>2. IInv /\ FreshInv /\ [Next]_vars => FreshInv'
  <2> SUFFICES ASSUME IInv, FreshInv, [Next]_vars, Undisturbed'
               PROVE  FreshInv'
    BY DEF FreshInv
  <2> USE DEF IInv, TypeOK, FreshInv, Undisturbed, connVars, cmdVars, reqVars
  <2>1. CASE NewConnect
    BY <2>1 DEF NewConnect, EnterMysqlCmd, Return, TransactionInv
  <2>2. CASE Execute
    BY <2>2 DEF Execute, RoundEnds, TransactionInv
  <2>3. CASE Reject
    BY <2>3 DEF Reject, TransactionInv
  <2>4. CASE Deadlock
    BY <2>4 DEF Deadlock, TransactionInv
  <2>5. CASE Lost
    BY <2>5 DEF Lost, LostWith, TransactionInv
  <2>6. CASE GoneAway
    BY <2>6 DEF GoneAway, RoundEnds, TransactionInv
  <2>7. CASE SkipRound
    BY <2>7 DEF SkipRound, TransactionInv
  <2>8. CASE AffairsBegin
    BY <2>8 DEF AffairsBegin, TransactionInv
  <2>9. CASE AffairsExecute
    BY <2>9 DEF AffairsExecute, TransactionInv
  <2>10. CASE AffairsAbort
    BY <2>10, Zenon DEF AffairsAbort, RoundEnds, TransactionInv
  <2>11. CASE AffairsCommit
    BY <2>11 DEF AffairsCommit, TransactionInv
  <2>12. CASE AffairsCommitFails
    BY <2>12 DEF AffairsCommitFails, TransactionInv
  <2>13. CASE AffairsRestore
    BY <2>13 DEF AffairsRestore, RoundEnds, TransactionInv
  <2>14. CASE FlushPool
    BY <2>14 DEF FlushPool, TransactionInv
  <2>15. CASE Tally
    BY <2>15 DEF Tally, EnterMysqlCmd, Return, TransactionInv, AffairsInv
  <2>16. CASE Handler
    BY <2>16 DEF Handler, Cmd, EnterMysqlCmd, TransactionInv
  <2>17. CASE ServerDown
    BY <2>17 DEF ServerDown, Disconnect, TransactionInv
  <2>18. CASE ServerUp
    BY <2>18 DEF ServerUp, TransactionInv
  <2>19. CASE SessionDropped
    BY <2>19 DEF SessionDropped, Disconnect, TransactionInv
  <2>20. CASE UNCHANGED vars
    BY <2>20 DEF vars
  <2>21. QED
    BY <2>1, <2>2, <2>3, <2>4, <2>5, <2>6, <2>7, <2>8, <2>9, <2>10, <2>11, <2>12, <2>13, <2>14, <2>15, <2>16, <2>17, <2>18, <2>19, <2>20 DEF Next, Worker, Server
<1>3. FreshInv => FreshRequestServed
  BY DEF FreshInv, Undisturbed, FreshRequestServed
<1>4. QED
  BY <1>1, <1>2, <1>3, Invariance, PTL DEF Spec
=============================================================================
