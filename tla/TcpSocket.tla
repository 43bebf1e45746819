----------------------------- MODULE TcpSocket -----------------------------
(***************************************************************************)
(* The TCP objects of luasocket and their descriptors (tcp.c, inet.c and   *)
(* the calls of usocket.c below them), in one Lua state: create, bind,     *)
(* listen, accept, connect through the addresses of a name, close, and the *)
(* collector.  Names are resolved to addresses of two families; the        *)
(* resolver, the kernel and the peers are external.                        *)
(***************************************************************************)
EXTENDS Integers, Sequences, FiniteSets

CONSTANTS
  Objs,      \* userdata
  Fds,       \* descriptors
  Invalid,   \* SOCKET_INVALID
  Lists      \* what a name may be resolved to: sequences of families, empty if
             \* it is not resolved

Families == {"inet", "inet6"}

ASSUME InvalidAssumption == Invalid \notin Objs \union Fds
ASSUME ListsAssumption == Lists \subseteq Seq(Families)

VARIABLES
  obj,   \* t_tcp: class, family, sock, and whether timeout is zero
  held,  \* the objects that Lua code holds
  fd,    \* the open descriptors: their family and state
  op,    \* the call in progress
  lost   \* history: descriptors whose object was freed without a close

tcpVars == <<obj, held, fd, op, lost>>

NoObj == [class |-> "free", family |-> "unspec", sock |-> Invalid, zero |-> FALSE]
Closed == [family |-> "unspec", state |-> "closed"]
NoOp == [do |-> "idle", o |-> Invalid, fresh |-> FALSE, list |-> << >>,
         current |-> "unspec"]

TcpInit ==
  /\ obj = [o \in Objs |-> NoObj]
  /\ held = {}
  /\ fd = [f \in Fds |-> Closed]
  /\ op = NoOp
  /\ lost = {}

Idle == op = NoOp
Free(f) == fd[f].state = "closed"

(* socket_destroy                                                          *)
Destroyed(sock) == [f \in Fds |-> IF f = sock THEN Closed ELSE fd[f]]

Fits(list, family) == \A i \in 1 .. Len(list) : family \in {"unspec", list[i]}
-----------------------------------------------------------------------------
(* tcp, tcp4 and tcp6: only a given family makes a descriptor at once; an  *)
(* object whose descriptor cannot be made is not handed out.               *)
TcpCreate(o, family) ==
  /\ Idle /\ obj[o] = NoObj
  /\ \/ /\ family = "unspec"
        /\ obj' = [obj EXCEPT ![o] = [NoObj EXCEPT !.class = "master"]]
        /\ held' = held \cup {o}
        /\ UNCHANGED fd
     \/ /\ family # "unspec"
        /\ \E f \in Fds :
             /\ Free(f)
             /\ fd' = [fd EXCEPT ![f] = [family |-> family, state |-> "fresh"]]
             /\ obj' = [obj EXCEPT ![o] = [class |-> "master", family |-> family,
                                           sock |-> f, zero |-> FALSE]]
        /\ held' = held \cup {o}
     \/ /\ family # "unspec"
        /\ obj' = [obj EXCEPT ![o] = [NoObj EXCEPT !.class = "master", !.family = family]]
        /\ UNCHANGED <<held, fd>>
  /\ UNCHANGED <<op, lost>>

(* settimeout                                                              *)
TcpTimeout(o, zero) ==
  /\ Idle /\ o \in held
  /\ obj' = [obj EXCEPT ![o].zero = zero]
  /\ UNCHANGED <<held, fd, op, lost>>

(* bind and connect resolve the name within the object's family, and start *)
(* on its addresses.                                                       *)
TcpBind(o) ==
  /\ Idle /\ o \in held /\ obj[o].class = "master"
  /\ \E list \in Lists :
       /\ Fits(list, obj[o].family)
       /\ op' = [do |-> "bind", o |-> o, fresh |-> FALSE, list |-> list,
                 current |-> obj[o].family]
  /\ UNCHANGED <<obj, held, fd, lost>>

TcpConnect(o) ==
  /\ Idle /\ o \in held
  /\ \E list \in Lists :
       /\ Fits(list, obj[o].family)
       /\ op' = [do |-> "connect", o |-> o, fresh |-> FALSE, list |-> list,
                 current |-> obj[o].family]
  /\ UNCHANGED <<obj, held, fd, lost>>

(* socket.connect: a new object without a class, bound first when a local  *)
(* address is given.  The family it is asked for goes into the hints of    *)
(* that bind; the hints of the connect take the object's.                  *)
SocketConnect(o, local, family) ==
  /\ Idle /\ obj[o] = NoObj
  /\ obj' = [obj EXCEPT ![o] = [NoObj EXCEPT !.class = "none"]]
  /\ \E list \in Lists :
       /\ local => Fits(list, family)
       /\ op' = [do |-> IF local THEN "bind" ELSE "connect", o |-> o, fresh |-> TRUE,
                 list |-> list, current |-> "unspec"]
  /\ UNCHANGED <<held, fd, lost>>

Target == op.list[1]
Sock == obj[op.o].sock

(* Mutant: the descriptor of the other family is not closed.               *)
NewSocketKeepsOld ==
  /\ op.list # << >>
  /\ op.current # Target \/ Sock = Invalid
  /\ \/ \E f \in Fds :
          /\ Free(f)
          /\ fd' = [fd EXCEPT ![f] = [family |-> Target, state |-> "fresh"]]
          /\ obj' = [obj EXCEPT ![op.o].sock = f]
          /\ op' = [op EXCEPT !.current = Target]
     \/ /\ UNCHANGED fd
        /\ obj' = [obj EXCEPT ![op.o].sock = Invalid]
        /\ op' = [op EXCEPT !.list = Tail(@)]
  /\ UNCHANGED <<held, lost>>

(* An address of another family, or no descriptor yet: the old one is      *)
(* closed and one of that family made.  One that cannot be made passes the *)
(* address over.                                                           *)
NewSocket ==
  /\ op.list # << >>
  /\ op.current # Target \/ Sock = Invalid
  /\ \/ \E f \in Fds :
          /\ Destroyed(Sock)[f] = Closed
          /\ fd' = [Destroyed(Sock) EXCEPT ![f] = [family |-> Target, state |-> "fresh"]]
          /\ obj' = [obj EXCEPT ![op.o].sock = f]
          /\ op' = [op EXCEPT !.current = Target]
     \/ /\ fd' = Destroyed(Sock)
        /\ obj' = [obj EXCEPT ![op.o].sock = Invalid]
        /\ op' = [op EXCEPT !.list = Tail(@)]
  /\ UNCHANGED <<held, lost>>

Trying(what) == op.do = what /\ op.list # << >> /\ op.current = Target /\ Sock # Invalid

(* The end of inet_trybind.  socket.connect goes on to connect, within the *)
(* family it is bound to, or gives up and leaves the object as it is.      *)
BindEnds(bound) ==
  /\ IF ~(op.fresh /\ bound) THEN op' = NoOp
     ELSE \E list \in Lists :
            /\ Fits(list, op.current)
            /\ op' = [op EXCEPT !.do = "connect", !.list = list]
  /\ UNCHANGED <<held, lost>>

(* socket_bind: a descriptor that is bound already is refused.             *)
TryBind ==
  /\ Trying("bind")
  /\ \/ /\ fd[Sock].state = "fresh"
        /\ fd' = [fd EXCEPT ![Sock].state = "bound"]
        /\ obj' = [obj EXCEPT ![op.o].family = op.current]
        /\ BindEnds(TRUE)
     \/ /\ op' = [op EXCEPT !.list = Tail(@)]
        /\ UNCHANGED <<obj, held, fd, lost>>

BindFails ==
  /\ op.do = "bind" /\ op.list = << >>
  /\ BindEnds(FALSE)
  /\ UNCHANGED <<obj, fd>>

(* The end of inet_tryconnect.  An object of connect is a client from now  *)
(* on, connected or not; socket.connect hands out a connected one only and *)
(* closes the others.                                                      *)
ConnectEnds(connected, states, family) ==
  /\ op' = NoOp
  /\ IF op.fresh /\ ~connected
     THEN /\ fd' = [f \in Fds |-> IF f = Sock THEN Closed ELSE states[f]]
          /\ obj' = [obj EXCEPT ![op.o].sock = Invalid, ![op.o].family = family]
     ELSE /\ fd' = states
          /\ obj' = [obj EXCEPT ![op.o].class = "client", ![op.o].family = family]
  /\ held' = IF connected THEN held \cup {op.o} ELSE held
  /\ UNCHANGED lost

(* socket_connect of the first address answers success: at once, after the *)
(* wait, or since an earlier attempt has got through meanwhile.            *)
TryConnect ==
  /\ Trying("connect")
  /\ fd[Sock].state \in {"fresh", "bound", "connecting"}
  /\ ConnectEnds(TRUE, [fd EXCEPT ![Sock].state = "connected"], op.current)

(* It answers an error: refused, timed out and still connecting, or not    *)
(* possible in the descriptor's state.  With a timeout of zero that ends   *)
(* the call; otherwise the next address is tried on the same descriptor.   *)
ConnectError ==
  /\ Trying("connect")
  /\ \E state \in CASE fd[Sock].state \in {"fresh", "bound"} -> {fd[Sock].state, "connecting"}
                    [] fd[Sock].state = "connecting" -> {"connecting", "bound"}
                    [] OTHER -> {fd[Sock].state} :
       LET states == [fd EXCEPT ![Sock].state = state]
       IN IF obj[op.o].zero THEN ConnectEnds(FALSE, states, op.current)
          ELSE /\ fd' = states
               /\ op' = [op EXCEPT !.list = Tail(@)]
               /\ UNCHANGED <<obj, held, lost>>

ConnectGivesUp ==
  /\ op.do = "connect" /\ op.list = << >>
  /\ ConnectEnds(FALSE, fd, obj[op.o].family)
-----------------------------------------------------------------------------
(* listen, on a descriptor that it is possible on.                         *)
TcpListen(o) ==
  /\ Idle /\ o \in held /\ obj[o].class = "master" /\ obj[o].sock # Invalid
  /\ fd[obj[o].sock].state \in {"fresh", "bound"}
  /\ fd' = [fd EXCEPT ![obj[o].sock].state = "listening"]
  /\ obj' = [obj EXCEPT ![o].class = "server"]
  /\ UNCHANGED <<held, op, lost>>

(* accept: a client object of the server's family.                         *)
TcpAccept(o, client) ==
  /\ Idle /\ o \in held /\ obj[o].class = "server" /\ obj[o].sock # Invalid
  /\ fd[obj[o].sock].state = "listening"
  /\ obj[client] = NoObj
  /\ \E f \in Fds :
       /\ Free(f)
       /\ fd' = [fd EXCEPT ![f] = [family |-> fd[obj[o].sock].family, state |-> "connected"]]
       /\ obj' = [obj EXCEPT ![client] = [class |-> "client", family |-> obj[o].family,
                                          sock |-> f, zero |-> FALSE]]
  /\ held' = held \cup {client}
  /\ UNCHANGED <<op, lost>>

(* close, as often as Lua code likes.                                      *)
TcpClose(o) ==
  /\ Idle /\ o \in held
  /\ fd' = Destroyed(obj[o].sock)
  /\ obj' = [obj EXCEPT ![o].sock = Invalid]
  /\ UNCHANGED <<held, op, lost>>

TcpDrop(o) ==
  /\ Idle /\ o \in held
  /\ held' = held \ {o}
  /\ UNCHANGED <<obj, fd, op, lost>>

(* The collector: an object with a class is closed (its __gc is close).    *)
TcpGc(o) ==
  /\ obj[o] # NoObj /\ o \notin held /\ op.o # o
  /\ obj' = [obj EXCEPT ![o] = NoObj]
  /\ IF obj[o].class = "none"
     THEN lost' = lost \cup ({obj[o].sock} \ {Invalid}) /\ UNCHANGED fd
     ELSE fd' = Destroyed(obj[o].sock) /\ UNCHANGED lost
  /\ UNCHANGED <<held, op>>

(* The kernel ends a connection attempt that nobody waits for.             *)
Settles(f) ==
  /\ fd[f].state = "connecting"
  /\ fd' = [fd EXCEPT ![f].state = "connected"]
  /\ UNCHANGED <<obj, held, op, lost>>

TcpNext ==
  \/ \E o \in Objs :
       \/ \E family \in Families \cup {"unspec"} : TcpCreate(o, family)
       \/ \E zero \in BOOLEAN : TcpTimeout(o, zero)
       \/ \E local \in BOOLEAN, family \in Families \cup {"unspec"} :
            SocketConnect(o, local, family)
       \/ TcpBind(o) \/ TcpConnect(o) \/ TcpListen(o)
       \/ \E client \in Objs : TcpAccept(o, client)
       \/ TcpClose(o) \/ TcpDrop(o) \/ TcpGc(o)
  \/ NewSocket \/ TryBind \/ BindFails \/ TryConnect \/ ConnectError \/ ConnectGivesUp
  \/ \E f \in Fds : Settles(f)
-----------------------------------------------------------------------------
(* Every open descriptor belongs to exactly one object, through failed     *)
(* attempts, addresses of two families, and closes and collections in any  *)
(* order; an object never holds a descriptor that it has closed, and the   *)
(* family it goes by is its descriptor's.  The one way to lose a descriptor*)
(* is a socket.connect whose bind fails: it was never bound.               *)
TcpOwns ==
  /\ \A f \in Fds : fd[f].state # "closed" =>
       Cardinality({o \in Objs : obj[o].sock = f}) = IF f \in lost THEN 0 ELSE 1
  /\ \A f \in lost : fd[f].state = "fresh"
  /\ \A o \in Objs : Idle /\ obj[o].sock # Invalid =>
       /\ fd[obj[o].sock].state # "closed"
       /\ obj[o].family \in {"unspec", fd[obj[o].sock].family}
=============================================================================
