----------------------------- MODULE RedisPool -----------------------------
(***************************************************************************)
(* One nginx worker's redis pool (open/linkup/redis_pool_api.lua) over the *)
(* client of open/lib/redis.lua: every request is a coroutine that may be  *)
(* suspended when it connects, sends or receives.  A command is tried for  *)
(* MAX_RECNT rounds, each on a connection taken from nginx's keepalive     *)
(* pool or opened anew.  The servers, the network and nginx's cosockets    *)
(* are external.                                                           *)
(***************************************************************************)
EXTENDS Integers, Sequences, FiniteSets

CONSTANTS
  Coroutines, \* requests in progress at the same time
  Conns,      \* connections
  Configured, \* the pools of link.lua: Configured[name] is a set of addresses
  Added,      \* the pools a zookeeper callback adds: Added[name] is an address
  Batches,    \* what callers ask for: sequences of kinds of commands
  MAX_RECNT,  \* rounds of a command
  KeepAlive,  \* connections nginx keeps for an address
  MaxCalls,   \* bound: requests that are made
  MaxFaults,  \* bound: connections lost, timeouts, refusals
  None        \* Lua's nil

Kinds == {"status", "bulk", "list"}  \* of commands, by what they are answered

ASSUME BatchesAssumption == Batches \subseteq Seq(Kinds) \ {<< >>}
ASSUME RoundsAssumption == MAX_RECNT \in Nat \ {0}
ASSUME ConnsAssumption == IsFiniteSet(Conns)
ASSUME BoundsAssumption == MaxCalls \in Nat /\ MaxFaults \in Nat
ASSUME NoneAssumption == None \notin Conns /\ None # << >>

Positions == UNION {DOMAIN cmds : cmds \in Batches}
Names == DOMAIN Configured \union DOMAIN Added
Addrs == (UNION {Configured[n] : n \in DOMAIN Configured}) \union {Added[n] : n \in DOMAIN Added}

ASSUME AddrsAssumption == Addrs # {}

VARIABLES
  pools,   \* OWN_REDIS_POOLS: the members of each pool, {} when it is not there
  queues,  \* OWN_SKTCT_POOLS: the Queue of each address, None when there is none
  conns,    \* the connections
  req,     \* the requests in progress
  calls,   \* requests made so far
  runs,    \* history: how often each command took effect
  faults   \* faults so far

redisVars == <<pools, queues, conns, req, calls, runs, faults>>

(* A connection is held by a request ("used") or by nginx ("idle"), or the *)
(* client has closed it; up is whether the server still has it; inbox,     *)
(* outbox and wire are the commands the server has yet to read, the parts  *)
(* of replies it has yet to send and those that have arrived.              *)
Closed(c) == [c EXCEPT !.client = "closed", !.up = @ /\ c.inbox # << >>,
                       !.outbox = << >>, !.wire = << >>]
FreeConns == {c \in Conns : conns[c].client = "closed" /\ conns[c].inbox = << >>}
Idle(a) == {c \in Conns : conns[c].client = "idle" /\ conns[c].addr = a}

(* Connections to a that the server has left and the client has not closed.*)
Left(a) == {c \in Conns : conns[c].addr = a /\ conns[c].client # "closed" /\ ~conns[c].up}

NoRequest == [pc |-> "idle", id |-> 0, cmds |-> << >>, memb |-> None, index |-> 0,
              sock |-> None, results |-> << >>, answer |-> "none", quiet |-> TRUE,
              stale |-> 0]

(* init: every configured member gets its Queue.                           *)
RedisInit ==
  /\ pools = [n \in Names |-> IF n \in DOMAIN Configured THEN Configured[n] ELSE {}]
  /\ queues = [a \in Addrs |->
                 IF \E n \in DOMAIN Configured : a \in Configured[n] THEN << >> ELSE None]
  /\ conns = [c \in Conns |-> [addr |-> CHOOSE a \in Addrs : TRUE, client |-> "closed",
                              up |-> FALSE, inbox |-> << >>, outbox |-> << >>,
                              wire |-> << >>]]
  /\ req = [r \in Coroutines |-> NoRequest]
  /\ calls = 0
  /\ runs = [n \in 1 .. MaxCalls |-> [i \in Positions |-> 0]]
  /\ faults = 0
-----------------------------------------------------------------------------
(* A round begins: queue:pull(), and a new connection when it gives none.  *)
(* An address without a Queue is an index of nil, which fails the request. *)
Round(r, q) ==
  LET queue == queues[q.memb]
  IN CASE queue = None ->
            /\ req' = [req EXCEPT ![r] = [q EXCEPT !.pc = "idle", !.answer = "failed"]]
            /\ UNCHANGED queues
       [] queue = << >> ->
            /\ req' = [req EXCEPT ![r] = [q EXCEPT !.pc = "connect"]]
            /\ UNCHANGED queues
       [] OTHER ->
            /\ req' = [req EXCEPT ![r] = [q EXCEPT !.pc = "send", !.sock = Head(queue)]]
            /\ queues' = [queues EXCEPT ![q.memb] = Tail(queue)]

(* just_cmd, hash_cmd or only_cmd: a pool without a member answers at once.*)
Call(r, name) ==
  /\ req[r].pc = "idle"
  /\ calls < MaxCalls
  /\ calls' = calls + 1
  /\ IF pools[name] = {}
     THEN /\ req' = [req EXCEPT ![r] = [NoRequest EXCEPT !.id = calls', !.answer = "unknown"]]
          /\ UNCHANGED queues
     ELSE \E memb \in pools[name], cmds \in Batches :
            Round(r, [NoRequest EXCEPT
                        !.id = calls', !.cmds = cmds, !.memb = memb,
                        !.stale = Cardinality(Left(memb))])
  /\ UNCHANGED <<pools, conns, runs, faults>>

(* The first command without a result is the one that is being run.        *)
Current(q) == Len(q.results) + 1

(* Mutant: the count of rounds is compared before it is increased.         *)
RoundFailsLate(r, q) ==
  /\ conns' = IF q.sock = None THEN conns ELSE [conns EXCEPT ![q.sock] = Closed(@)]
  /\ IF q.index >= MAX_RECNT
     THEN /\ req' = [req EXCEPT ![r] = [q EXCEPT !.pc = "idle", !.sock = None,
                                                 !.index = @ + 1, !.answer = "failed"]]
          /\ UNCHANGED queues
     ELSE Round(r, [q EXCEPT !.sock = None, !.index = @ + 1])

(* Mutant: the connection goes back to the Queue instead of being closed.  *)
RoundFailsKeeps(r, q) ==
  LET back == IF q.sock = None THEN queues[q.memb] ELSE Append(queues[q.memb], q.sock)
      last == q.index + 1 >= MAX_RECNT
  IN /\ UNCHANGED conns
     /\ queues' = [queues EXCEPT ![q.memb] = IF last \/ back = << >> THEN back ELSE Tail(back)]
     /\ req' = [req EXCEPT ![r] =
          [q EXCEPT !.index = @ + 1,
                    !.pc = IF last THEN "idle" ELSE IF back = << >> THEN "connect" ELSE "send",
                    !.sock = IF last \/ back = << >> THEN None ELSE Head(back),
                    !.answer = IF last THEN "failed" ELSE @]]

(* A round fails: its connection, if it had one, is closed; the last round *)
(* raises the error that entry_cmd's pcall answers.                        *)
RoundFails(r, q) ==
  /\ conns' = IF q.sock = None THEN conns ELSE [conns EXCEPT ![q.sock] = Closed(@)]
  /\ IF q.index + 1 >= MAX_RECNT
     THEN /\ req' = [req EXCEPT ![r] = [q EXCEPT !.pc = "idle", !.sock = None,
                                                 !.index = @ + 1, !.answer = "failed"]]
          /\ UNCHANGED queues
     ELSE Round(r, [q EXCEPT !.sock = None, !.index = @ + 1])

(* setkeepalive: nginx refuses a connection whose receive failed or that   *)
(* has unread data, and closes another one when it holds too many.         *)
SetKeepAlive(cs, k, failed) ==
  LET a == cs[k].addr
      others == {c \in Conns : cs[c].client = "idle" /\ cs[c].addr = a}
  IN IF failed \/ cs[k].wire # << >> THEN {[cs EXCEPT ![k] = Closed(@)]}
     ELSE IF Cardinality(others) < KeepAlive THEN {[cs EXCEPT ![k].client = "idle"]}
     ELSE {[cs EXCEPT ![k].client = "idle", ![c] = Closed(@)] : c \in others}

(* A round succeeds with this result: the connection goes to nginx, and    *)
(* the next command of the batch starts its rounds.                        *)
RoundSucceeds(r, q, cs, result, failed) ==
  LET next == [q EXCEPT !.results = Append(@, result), !.sock = None, !.index = 0]
  IN /\ conns' \in SetKeepAlive(cs, q.sock, failed)
     /\ IF Current(next) > Len(q.cmds)
        THEN /\ req' = [req EXCEPT ![r] = [next EXCEPT !.pc = "idle", !.answer = "ok"]]
             /\ UNCHANGED queues
        ELSE Round(r, next)
-----------------------------------------------------------------------------
(* new_connect and redis.connect: nginx gives an idle connection to the    *)
(* address when it has one.                                                *)
Connect(r) ==
  LET q == req[r]
      With(c) == req' = [req EXCEPT ![r] = [q EXCEPT !.pc = "send", !.sock = c]]
  IN /\ q.pc = "connect"
     /\ IF Idle(q.memb) # {}
        THEN \E c \in Idle(q.memb) : conns' = [conns EXCEPT ![c].client = "used"] /\ With(c)
        ELSE \E c \in FreeConns :
               /\ conns' = [conns EXCEPT ![c] = [@ EXCEPT !.addr = q.memb, !.up = TRUE,
                                                        !.client = "used"]]
               /\ With(c)
     /\ UNCHANGED <<pools, queues, calls, runs, faults>>

(* A fault disturbs the requests in progress.                              *)
Disturbed == [r \in Coroutines |-> [req[r] EXCEPT !.quiet = FALSE]]
Fault == faults < MaxFaults /\ faults' = faults + 1

(* The name does not resolve, or the connection is refused or times out.   *)
ConnectFails(r) ==
  /\ req[r].pc = "connect"
  /\ Idle(req[r].memb) = {}
  /\ Fault
  /\ RoundFails(r, Disturbed[r])
  /\ UNCHANGED <<pools, calls, runs>>

(* network.write: on a connection the server has left it may still succeed.*)
Send(r) ==
  LET q == req[r]
      cmd == [id |-> q.id, i |-> Current(q), kind |-> q.cmds[Current(q)]]
  IN /\ q.pc = "send"
     /\ IF conns[q.sock].up
        THEN conns' = [conns EXCEPT ![q.sock].inbox = Append(@, cmd)]
        ELSE UNCHANGED conns
     /\ req' = [req EXCEPT ![r].pc = "line"]
     /\ UNCHANGED <<pools, queues, calls, runs, faults>>

SendFails(r) ==
  /\ req[r].pc = "send"
  /\ ~conns[req[r].sock].up
  /\ RoundFails(r, req[r])
  /\ UNCHANGED <<pools, calls, runs, faults>>

(* What response.read makes of a line: a status or an integer is the       *)
(* reply; an error is raised; "$" announces the bytes of a bulk, "*" the   *)
(* replies of a list, here one bulk; bytes that are no reply are refused.  *)
ReadLine(r) ==
  LET q == req[r]
      part == Head(conns[q.sock].wire)
      read == [conns EXCEPT ![q.sock].wire = Tail(@)]
  IN /\ q.pc = "line"
     /\ conns[q.sock].wire # << >>
     /\ CASE part.kind = "status" -> RoundSucceeds(r, q, read, part, FALSE)
          [] part.kind \in {"error", "bytes"} -> RoundFails(r, q)
          [] part.kind = "bulk" ->
               /\ conns' = read
               /\ req' = [req EXCEPT ![r].pc = "bytes"]
               /\ UNCHANGED queues
          [] part.kind = "list" -> conns' = read /\ UNCHANGED <<req, queues>>
     /\ UNCHANGED <<pools, calls, runs, faults>>

(* nextchunk:sub(1, -3).                                                   *)
ReadBytes(r) ==
  LET q == req[r]
  IN /\ q.pc = "bytes"
     /\ conns[q.sock].wire # << >>
     /\ RoundSucceeds(r, q, [conns EXCEPT ![q.sock].wire = Tail(@)],
                      Head(conns[q.sock].wire), FALSE)
     /\ UNCHANGED <<pools, calls, runs, faults>>

(* Nothing has arrived, and the connection is lost or the receive times    *)
(* out: q is the request to go on with.                                    *)
ReceiveFails(r, q) ==
  /\ conns[q.sock].wire = << >>
  /\ \/ /\ ~conns[q.sock].up
        /\ q = req[r]
        /\ UNCHANGED faults
     \/ /\ conns[q.sock].up
        /\ Fault
        /\ q = Disturbed[r]

(* network.read returns the text of the error: as a line it is no reply.   *)
ReadLineFails(r) ==
  /\ req[r].pc = "line"
  /\ \E q \in {req[r], Disturbed[r]} : ReceiveFails(r, q) /\ RoundFails(r, q)
  /\ UNCHANGED <<pools, calls, runs>>

Garbled == [id |-> 0, i |-> 0, kind |-> "garbled"]

(* As the bytes of a bulk it is taken for them, less its last two letters. *)
ReadBytesFails(r) ==
  /\ req[r].pc = "bytes"
  /\ \E q \in {req[r], Disturbed[r]} :
       ReceiveFails(r, q) /\ RoundSucceeds(r, q, conns, Garbled, TRUE)
  /\ UNCHANGED <<pools, calls, runs>>

(* The results of a batch are in a table with weak values: a list among    *)
(* them that nothing else refers to goes with the next collection.         *)
Collected == [id |-> 0, i |-> 0, kind |-> "collected"]

Collect(r, i) ==
  LET q == req[r]
  IN /\ Len(q.cmds) > 1
     /\ i \in DOMAIN q.results
     /\ i < Len(q.results) \/ q.pc = "idle"
     /\ q.cmds[i] = "list"
     /\ req' = [req EXCEPT ![r].results[i] = Collected]
     /\ UNCHANGED <<pools, queues, conns, calls, runs, faults>>
-----------------------------------------------------------------------------
(* Mutant: a member that was deleted takes its Queue along.                *)
DelFromPoolAndQueue(name) ==
  /\ pools[name] # {}
  /\ pools' = [pools EXCEPT ![name] = {}]
  /\ queues' = [a \in Addrs |-> IF a \in pools[name] THEN None ELSE queues[a]]
  /\ UNCHANGED <<conns, req, calls, runs, faults>>

DelFromPool(name) ==
  /\ pools[name] # {}
  /\ pools' = [pools EXCEPT ![name] = {}]
  /\ UNCHANGED <<queues, conns, req, calls, runs, faults>>

AddToPool(name) ==
  /\ name \in DOMAIN Added
  /\ pools[name] = {}
  /\ pools' = [pools EXCEPT ![name] = {Added[name]}]
  /\ UNCHANGED <<queues, conns, req, calls, runs, faults>>
-----------------------------------------------------------------------------
(* What the server sends for a command, part by part.                      *)
Parts(cmd) ==
  LET Part(kind) == [id |-> cmd.id, i |-> cmd.i, kind |-> kind]
  IN CASE cmd.kind = "status" -> <<Part("status")>>
       [] cmd.kind = "bulk" -> <<Part("bulk"), Part("bytes")>>
       [] cmd.kind = "list" -> <<Part("list"), Part("bulk"), Part("bytes")>>

(* The server runs a command, also one whose sender has closed.            *)
Serve(c) ==
  /\ conns[c].up
  /\ conns[c].inbox # << >>
  /\ LET cmd == Head(conns[c].inbox)
         read == [conns[c] EXCEPT !.inbox = Tail(@)]
         Reply(parts) ==
           conns' = [conns EXCEPT ![c] = IF @.client = "closed" THEN Closed(read)
                                       ELSE [read EXCEPT !.outbox = @ \o parts]]
     IN \/ /\ Reply(Parts(cmd))
           /\ runs' = [runs EXCEPT ![cmd.id][cmd.i] = @ + 1]
           /\ UNCHANGED <<req, faults>>
        \/ /\ Reply(<<[id |-> cmd.id, i |-> cmd.i, kind |-> "error"]>>)
           /\ Fault
           /\ req' = Disturbed
           /\ UNCHANGED runs
  /\ UNCHANGED <<pools, queues, calls>>

Deliver(c) ==
  /\ conns[c].up
  /\ conns[c].outbox # << >>
  /\ conns' = [conns EXCEPT ![c].wire = Append(@, Head(conns[c].outbox)),
                          ![c].outbox = Tail(@)]
  /\ UNCHANGED <<pools, queues, req, calls, runs, faults>>

(* The servers' end of some connections goes: one is reset, or the server  *)
(* restarts.                                                               *)
Drop(cs) ==
  /\ Fault
  /\ conns' = [c \in Conns |-> IF c \in cs THEN [conns[c] EXCEPT !.up = FALSE,
                                                  !.inbox = << >>, !.outbox = << >>]
                              ELSE conns[c]]
  /\ req' = Disturbed
  /\ UNCHANGED <<pools, queues, calls, runs>>

(* nginx closes an idle connection that becomes readable.                  *)
Reap(c) ==
  /\ conns[c].client = "idle"
  /\ ~conns[c].up \/ conns[c].wire # << >>
  /\ conns' = [conns EXCEPT ![c] = Closed(@)]
  /\ UNCHANGED <<pools, queues, req, calls, runs, faults>>

Advance(r) ==
  \/ Connect(r) \/ ConnectFails(r)
  \/ Send(r) \/ SendFails(r)
  \/ ReadLine(r) \/ ReadLineFails(r)
  \/ ReadBytes(r) \/ ReadBytesFails(r)

RedisNext ==
  \/ \E r \in Coroutines :
       \/ \E name \in Names : Call(r, name)
       \/ Advance(r)
       \/ \E i \in Positions : Collect(r, i)
  \/ \E name \in Names : DelFromPool(name) \/ AddToPool(name)
  \/ \E c \in Conns : Serve(c) \/ Deliver(c) \/ Reap(c)
  \/ \E cs \in SUBSET {c \in Conns : conns[c].up} \ {{}} : Drop(cs)

RedisSpec == RedisInit /\ [][RedisNext]_redisVars
-----------------------------------------------------------------------------
Answered(r) == req[r].pc = "idle" /\ req[r].answer = "ok"

(* No request is given another one's reply: whatever was lost, timed out   *)
(* or arrived late on a connection that was used again, each result is the *)
(* reply to its own command, or the remains of an error or of a collected  *)
(* list of a batch.                                                        *)
ReplyIsOwn ==
  \A r \in Coroutines : \A i \in DOMAIN req[r].results :
    LET q == req[r]
        result == q.results[i]
    IN \/ result.id = q.id /\ result.i = i
       \/ result = Garbled /\ q.cmds[i] # "status"
       \/ result = Collected /\ q.cmds[i] = "list" /\ Len(q.cmds) > 1

(* A command takes effect at most once in each of its MAX_RECNT rounds,    *)
(* also when a server gets to it after its sender has given up, and an     *)
(* answered one took effect.                                               *)
RunsMatchAnswer ==
  /\ \A n \in DOMAIN runs : \A i \in DOMAIN runs[n] : runs[n][i] <= MAX_RECNT
  /\ \A r \in Coroutines : \A i \in DOMAIN req[r].results : runs[req[r].id][i] > 0

(* The second round makes up for one connection that nginx kept and the    *)
(* server had left: a request to a configured member that began with at    *)
(* most one such connection, and that no fault disturbed, is served.       *)
OneStaleIsAbsorbed ==
  \A r \in Coroutines :
    LET q == req[r]
    IN q.answer = "failed" /\ q.quiet =>
         q.stale > 1 \/ ~(\E n \in DOMAIN Configured : q.memb \in Configured[n])

(* network.read ends in an error 'connection error' when a receive fails:  *)
(* what is answered as the bytes of a bulk are the bytes of a bulk.        *)
ReplyIsTrue ==
  \A r \in Coroutines : \A i \in DOMAIN req[r].results : req[r].results[i] # Garbled
=============================================================================
