----------------------------- MODULE UdpSocket -----------------------------
(***************************************************************************)
(* The UDP objects of luasocket and their descriptors (udp.c, inet.c), in  *)
(* one Lua state.  An object without a family has no descriptor before it  *)
(* is bound, connected to a peer or used to send.  The resolver and the    *)
(* kernel are external.                                                    *)
(***************************************************************************)
EXTENDS Integers, Sequences, FiniteSets

CONSTANTS
  Objs,      \* userdata
  Fds,       \* descriptors
  Invalid,   \* SOCKET_INVALID
  Lists      \* what a name may be resolved to: sequences of families

Families == {"inet", "inet6"}

VARIABLES
  obj,   \* t_udp: class, family, sock, and whether timeout is zero
  held,  \* the objects that Lua code holds
  fd,    \* the open descriptors: their family, and whether they have a peer
  op     \* the call in progress

vars == <<obj, held, fd, op>>

NoObj == [class |-> "free", family |-> "unspec", sock |-> Invalid, zero |-> FALSE]
Closed == [family |-> "unspec", state |-> "closed"]
NoOp == [do |-> "idle", o |-> Invalid, list |-> << >>, current |-> "unspec"]

Init ==
  /\ obj = [o \in Objs |-> NoObj]
  /\ held = {}
  /\ fd = [f \in Fds |-> Closed]
  /\ op = NoOp

Idle == op = NoOp

(* socket_destroy                                                          *)
Destroyed(sock) == [f \in Fds |-> IF f = sock THEN Closed ELSE fd[f]]

(* inet_trycreate for object o, after its old descriptor is closed.        *)
TryCreate(o, family, object) ==
  \E f \in Fds :
    /\ Destroyed(obj[o].sock)[f] = Closed
    /\ fd' = [Destroyed(obj[o].sock) EXCEPT ![f] = [family |-> family, state |-> "open"]]
    /\ obj' = [obj EXCEPT ![o] = [object EXCEPT !.sock = f]]
-----------------------------------------------------------------------------
(* udp, udp4 and udp6: an object whose descriptor cannot be made is not    *)
(* handed out.                                                             *)
Create(o, family) ==
  LET object == [NoObj EXCEPT !.class = "unconnected", !.family = family]
  IN /\ Idle /\ obj[o] = NoObj
     /\ \/ /\ family = "unspec"
           /\ obj' = [obj EXCEPT ![o] = object]
           /\ held' = held \union {o}
           /\ UNCHANGED fd
        \/ /\ family # "unspec"
           /\ TryCreate(o, family, object)
           /\ held' = held \union {o}
        \/ /\ family # "unspec"
           /\ obj' = [obj EXCEPT ![o] = object]
           /\ UNCHANGED <<held, fd>>
     /\ UNCHANGED op

SetTimeout(o, zero) ==
  /\ Idle /\ o \in held
  /\ obj' = [obj EXCEPT ![o].zero = zero]
  /\ UNCHANGED <<held, fd, op>>

(* sendto: the first one of an object without family and descriptor makes  *)
(* the descriptor; any other changes nothing here.                         *)
SendTo(o, family) ==
  /\ Idle /\ o \in held /\ obj[o].class = "unconnected"
  /\ obj[o].family = "unspec" /\ obj[o].sock = Invalid
  /\ TryCreate(o, family, [obj[o] EXCEPT !.family = family])
  /\ UNCHANGED <<held, op>>

(* setsockname and setpeername resolve the name within the object's family.*)
Resolve(o, what) ==
  /\ Idle /\ o \in held
  /\ what = "bind" => obj[o].class = "unconnected"
  /\ \E list \in Lists :
       /\ \A i \in 1 .. Len(list) : obj[o].family \in {"unspec", list[i]}
       /\ op' = [do |-> what, o |-> o, list |-> list, current |-> obj[o].family]
  /\ UNCHANGED <<obj, held, fd>>

Target == op.list[1]
Sock == obj[op.o].sock

(* An address of another family, or no descriptor yet.                     *)
NewSocket ==
  /\ op.list # << >>
  /\ op.current # Target \/ Sock = Invalid
  /\ \/ /\ TryCreate(op.o, Target, obj[op.o])
        /\ op' = [op EXCEPT !.current = Target]
     \/ /\ fd' = Destroyed(Sock)
        /\ obj' = [obj EXCEPT ![op.o].sock = Invalid]
        /\ op' = [op EXCEPT !.list = Tail(@)]
  /\ UNCHANGED held

Trying == op.list # << >> /\ op.current = Target /\ Sock # Invalid

(* bind(2) or connect(2) succeeds; a connect sets the object's class.      *)
TrySucceeds ==
  /\ Trying
  /\ IF op.do = "bind"
     THEN /\ obj' = [obj EXCEPT ![op.o].family = op.current]
          /\ UNCHANGED fd
     ELSE /\ obj' = [obj EXCEPT ![op.o].family = op.current, ![op.o].class = "connected"]
          /\ fd' = [fd EXCEPT ![Sock].state = "peer"]
  /\ op' = NoOp
  /\ UNCHANGED held

(* It fails: the next address, but not for a connect that may not wait.    *)
TryFails ==
  /\ Trying
  /\ IF op.do = "connect" /\ obj[op.o].zero
     THEN /\ obj' = [obj EXCEPT ![op.o].family = op.current]
          /\ op' = NoOp
     ELSE /\ op' = [op EXCEPT !.list = Tail(@)]
          /\ UNCHANGED obj
  /\ UNCHANGED <<held, fd>>

GivesUp ==
  /\ op.do # "idle" /\ op.list = << >>
  /\ op' = NoOp
  /\ UNCHANGED <<obj, held, fd>>

(* setpeername("*"): the peer is taken away when the family is known.  The *)
(* code ignores an error of it and sets the class all the same; connect    *)
(* with AF_UNSPEC, on a descriptor that is a datagram socket, has none on  *)
(* Linux, so that none is modelled.                                        *)
Disconnect(o) ==
  /\ Idle /\ o \in held
  /\ obj' = [obj EXCEPT ![o].class = "unconnected"]
  /\ fd' = IF obj[o].sock # Invalid /\ obj[o].family # "unspec"
           THEN [fd EXCEPT ![obj[o].sock].state = "open"] ELSE fd
  /\ UNCHANGED <<held, op>>

(* close, as often as Lua code likes.                                      *)
Close(o) ==
  /\ Idle /\ o \in held
  /\ fd' = Destroyed(obj[o].sock)
  /\ obj' = [obj EXCEPT ![o].sock = Invalid]
  /\ UNCHANGED <<held, op>>

Drop(o) ==
  /\ Idle /\ o \in held
  /\ held' = held \ {o}
  /\ UNCHANGED <<obj, fd, op>>

(* The collector; __gc is close.                                           *)
Gc(o) ==
  /\ obj[o] # NoObj /\ o \notin held
  /\ fd' = Destroyed(obj[o].sock)
  /\ obj' = [obj EXCEPT ![o] = NoObj]
  /\ UNCHANGED <<held, op>>

Next ==
  \/ \E o \in Objs :
       \/ \E family \in Families \union {"unspec"} : Create(o, family)
       \/ \E zero \in BOOLEAN : SetTimeout(o, zero)
       \/ \E family \in Families : SendTo(o, family)
       \/ Resolve(o, "bind") \/ Resolve(o, "connect")
       \/ Disconnect(o) \/ Close(o) \/ Drop(o) \/ Gc(o)
  \/ NewSocket \/ TrySucceeds \/ TryFails \/ GivesUp
-----------------------------------------------------------------------------
(* Every open descriptor belongs to exactly one object, whose family is    *)
(* that of the descriptor or not settled, through re-made descriptors,     *)
(* failed binds and connects, and closes and collections in any order; and *)
(* an object that offers sendto has no peer.                               *)
UdpOwns ==
  /\ \A f \in Fds : fd[f].state # "closed" =>
       Cardinality({o \in Objs : obj[o].sock = f}) = 1
  /\ \A o \in Objs : obj[o].sock # Invalid =>
       /\ fd[obj[o].sock].state # "closed"
       /\ obj[o].class = "unconnected" => fd[obj[o].sock].state = "open"
       /\ Idle => obj[o].family \in {"unspec", fd[obj[o].sock].family}
=============================================================================
