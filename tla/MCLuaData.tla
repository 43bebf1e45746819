----------------------------- MODULE MCLuaData -----------------------------
(* Model-checking instance of the libraries that keep or carry data: the   *)
(* queue and the hash ring a redis pool is made of, the socket buffer, the *)
(* request of http_request, and the codecs.  They share nothing, so a      *)
(* behaviour runs one of them.                                             *)
EXTENDS RingQueue, ConHash, BufferedStream, HttpAsk, Filters

VARIABLES
  library,  \* the library this behaviour runs
  way       \* a stream is used in one direction in a behaviour

(* The ring: four names with two replicas each, two of which collide; one  *)
(* name is set twice.                                                      *)
MCNodes == {<<"a", 1>>, <<"a", 2>>, <<"b", 1>>, <<"c", 1>>, <<"d", 1>>}
MCHashOf ==
  [a |-> <<4, 10>>, b |-> <<8, 4>>, c |-> <<2, 9>>, d |-> <<6, 12>>]
MCObjects == {1, 4, 5, 7, 9, 11, 13}
MCFreed == -1

MCForever == -1
MCTimeouts == {-1, 0, 1, 2}

(* Heads with and without a length, with no blank before it, with two      *)
(* spellings or in one the code knows least; bodies in which the name      *)
(* occurs, too.  A head of five bytes is longer than the first buffer.     *)
MCLength(spelling, name, number, v) ==
  [spelling |-> spelling, name |-> name, line |-> name + 1, number |-> number, value |-> v]

MCFields ==
  {{}} \union
  {{MCLength(3, 1, 2, v)} : v \in {-5, 2, 7}} \union
  {{MCLength(3, 1, 5, 2)}, {MCLength(1, 1, 2, 2)}, {MCLength(1, 5, 6, 1)},
   {MCLength(3, 1, 2, 2), MCLength(1, 5, 6, 1)}, {MCLength(1, 1, 2, 2), MCLength(4, 5, 6, 1)},
   {MCLength(4, 1, 2, 1), MCLength(3, 2, 3, 2)}}
MCAnswers ==
  [head : {0, 3, 5}, body : {0, 2, 7}, fields : MCFields]
MCStray == {-9, 0, 2}

(* For each pipe the bytes that its codec treats differently.              *)
MCAlphabet == [p \in {"base64", "quoted", "eol", "dot", "url"} |->
  CASE p = "base64" -> {0, 65, 255}
    [] p = "quoted" -> {13, 10, 32, 61, 65, 200}
    [] p = "eol" -> {13, 10, 65}
    [] p = "dot" -> {13, 10, 46, 65}
    [] p = "url" -> {0, 32, 37, 65, 200}]
MCMarkers == {CRLF, QuotedCRLF}

SomeAnswer == [head |-> 3, body |-> 2, fields |-> {}]

(* A library that is not run starts in one state.                          *)
MCInit ==
  /\ library \in {"queue", "conhash", "stream", "ask", "filters"}
  /\ way \in {"in", "out"} /\ (library # "stream" => way = "in")
  /\ Init /\ ConHashInit /\ StreamInit /\ AskInit /\ FiltersInit
  /\ library # "stream" => tm = [block |-> MCForever, total |-> MCForever]
  /\ library # "ask" => addrs = 1 /\ rule /\ limit = 0 /\ answer = SomeAnswer
  /\ library # "filters" => pipe = "url" /\ length = 4 /\ marker = CRLF

(* A stream that is read takes no bytes out, and one that is written none  *)
(* in.                                                                     *)
StreamOneWay ==
  /\ StreamNext
  /\ \/ way = "in" /\ UNCHANGED <<room, peerGot>> /\ call'.do # "send"
     \/ way = "out" /\ UNCHANGED stream /\ call'.do # "receive"

queueVars == vars

MCNext ==
  /\ \/ library = "queue" /\ Next
        /\ UNCHANGED <<ringVars, streamVars, askVars, filterVars>>
     \/ library = "conhash" /\ ConHashNext
        /\ UNCHANGED <<queueVars, streamVars, askVars, filterVars>>
     \/ library = "stream" /\ StreamOneWay
        /\ UNCHANGED <<queueVars, ringVars, askVars, filterVars>>
     \/ library = "ask" /\ AskNext
        /\ UNCHANGED <<queueVars, ringVars, streamVars, filterVars>>
     \/ library = "filters" /\ FiltersNext
        /\ UNCHANGED <<queueVars, ringVars, streamVars, askVars>>
  /\ UNCHANGED <<library, way>>

MCSpec ==
  MCInit /\ [][MCNext]_<<queueVars, ringVars, streamVars, askVars, filterVars, library, way>>
=============================================================================
