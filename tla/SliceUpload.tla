---------------------------- MODULE SliceUpload ----------------------------
(***************************************************************************)
(* Uploading a file in slices: fsystem_manager/api/api_opt_slice_push.lua  *)
(* and api_opt_slice_complete.lua, run by several nginx workers, and the   *)
(* client that calls them for one upload.                                  *)
(*                                                                         *)
(* A push writes slice i to the part file <UUID>_part_<i>.  A complete     *)
(* opens the destination (which truncates it), and for each i appends part *)
(* i and removes it; a missing part ends it, with the earlier parts        *)
(* already gone.  The client pushes slices, several at a time, until each  *)
(* was answered SUCCESS, and then completes.  It gives up waiting after a  *)
(* timeout, and then sends again what is not known to be done.  Requests   *)
(* rejected for their token, arguments or path change nothing and are left *)
(* out.                                                                    *)
(***************************************************************************)
EXTENDS Naturals

CONSTANTS
  Workers,    \* nginx worker processes
  N,          \* slices of the file (totalChunks)
  MaxFaults   \* bound: crashes, timeouts and failing file operations

ASSUME SliceAssumption == N \in Nat \ {0} /\ MaxFaults \in Nat

Chunks == 1..N

VARIABLES
  part,       \* part file of each slice: "none", "partial" or "full"
  dst,        \* slice i in the destination file: likewise
  pc,         \* where each worker is
  arg,        \* the slice it pushes, or appends
  tail,       \* how much of the slice it appended last was read
  linked,     \* workers whose open part file has not been removed
  waits,      \* workers whose answer the client waits for
  acked,      \* slices whose push was answered SUCCESS: "yes" or "no"
  done,       \* whether the complete was answered SUCCESS
  faults,     \* faults so far
  spoiled     \* history: "yes" once a request overlapped another on the same
              \* part or destination, or a write failed

workVars == <<pc, arg, tail, linked>>
clientVars == <<waits, acked, done>>
vars == <<part, dst, pc, arg, tail, linked, waits, acked, done, faults, spoiled>>

PushSteps == {"push_open", "push_write"}
CompleteSteps == {"open", "append", "remove", "close"}

Pushing(w) == pc[w] \in PushSteps
Completing(w) == pc[w] \in CompleteSteps

TypeOK ==
  /\ part \in [Chunks -> {"none", "partial", "full"}]
  /\ dst \in [Chunks -> {"none", "partial", "full"}]
  /\ pc \in [Workers -> PushSteps \union CompleteSteps \union {"idle"}]
  /\ arg \in [Workers -> Chunks]
  /\ tail \in [Workers -> {"partial", "full"}]
  /\ linked \in SUBSET Workers
  /\ waits \in SUBSET Workers
  /\ acked \in [Chunks -> {"no", "yes"}]
  /\ done \in {"no", "yes"}
  /\ faults \in 0..MaxFaults
  /\ spoiled \in {"no", "yes"}

NoneAcked == [c \in Chunks |-> "no"]

Init ==
  /\ part = [c \in Chunks |-> "none"]
  /\ dst = [c \in Chunks |-> "none"]
  /\ pc = [w \in Workers |-> "idle"]
  /\ arg = [w \in Workers |-> 1]
  /\ tail = [w \in Workers |-> "full"]
  /\ linked = {} /\ waits = {}
  /\ acked = NoneAcked
  /\ done = "no"
  /\ faults = 0
  /\ spoiled = "no"

-----------------------------------------------------------------------------
(* The client.                                                             *)

SpoiledIf(conflict) == spoiled' = IF conflict THEN "yes" ELSE spoiled

SendPush(w, c) ==
  /\ pc[w] = "idle" /\ done = "no" /\ acked[c] = "no"
  /\ \A x \in waits : Pushing(x) /\ arg[x] # c
  /\ pc' = [pc EXCEPT ![w] = "push_open"]
  /\ arg' = [arg EXCEPT ![w] = c]
  /\ waits' = waits \union {w}
  /\ SpoiledIf(\E x \in Workers : Completing(x) \/ (Pushing(x) /\ arg[x] = c))
  /\ UNCHANGED <<part, dst, tail, linked, acked, done, faults>>

SendComplete(w) ==
  /\ pc[w] = "idle" /\ done = "no" /\ waits = {}
  /\ \A c \in Chunks : acked[c] = "yes"
  /\ pc' = [pc EXCEPT ![w] = "open"]
  /\ arg' = [arg EXCEPT ![w] = 1]
  /\ waits' = {w}
  /\ SpoiledIf(\E x \in Workers : pc[x] # "idle")
  /\ UNCHANGED <<part, dst, tail, linked, acked, done, faults>>

(* The client learns nothing of a request: a complete it sends again, or   *)
(* it starts over.                                                         *)
Unanswered(w) ==
  /\ waits' = waits \ {w}
  /\ IF w \in waits /\ Completing(w) THEN acked' \in {acked, NoneAcked} ELSE UNCHANGED acked
  /\ UNCHANGED done

(* The client gives up waiting; the request goes on.                       *)
Timeout(w) ==
  /\ w \in waits /\ faults < MaxFaults
  /\ faults' = faults + 1
  /\ Unanswered(w)
  /\ UNCHANGED <<part, dst, workVars, spoiled>>

-----------------------------------------------------------------------------
(* The workers.                                                            *)

Goto(w, step) ==
  /\ pc' = [pc EXCEPT ![w] = step]
  /\ UNCHANGED clientVars

(* The answer reaches the client if it still waits.  After an error of a   *)
(* complete, such as MSG_ERROR_PATH_NOT_EXISTS, it pushes all slices anew. *)
Answer(w, code) ==
  /\ pc' = [pc EXCEPT ![w] = "idle"]
  /\ waits' = waits \ {w}
  /\ IF w \in waits /\ Pushing(w) /\ code = "SUCCESS"
       THEN acked' = [acked EXCEPT ![arg[w]] = "yes"]
       ELSE IF w \in waits /\ Completing(w) /\ code # "SUCCESS"
              THEN acked' = NoneAcked ELSE UNCHANGED acked
  /\ done' = IF w \in waits /\ Completing(w) /\ code = "SUCCESS" THEN "yes" ELSE done

(* A file operation fails.                                                 *)
Fails == faults < MaxFaults /\ faults' = faults + 1

(* io.open "wb": creates or truncates the part file.                       *)
PushOpen(w) ==
  /\ pc[w] = "push_open"
  /\ \/ /\ part' = [part EXCEPT ![arg[w]] = "partial"]
        /\ linked' = linked \union {w}
        /\ Goto(w, "push_write")
        /\ UNCHANGED faults
     \/ Fails /\ Answer(w, "SYSTEM") /\ UNCHANGED <<part, linked>>
  /\ UNCHANGED <<dst, arg, tail, spoiled>>

(* write and close; their results are not looked at.  The file may have    *)
(* been removed meanwhile.                                                 *)
PushWrite(w) ==
  /\ pc[w] = "push_write"
  /\ \/ /\ part' = (IF w \in linked THEN [part EXCEPT ![arg[w]] = "full"] ELSE part)
        /\ UNCHANGED <<faults, spoiled>>
     \/ Fails /\ spoiled' = "yes" /\ UNCHANGED part
  /\ linked' = linked \ {w}
  /\ Answer(w, "SUCCESS")
  /\ UNCHANGED <<dst, arg, tail>>

(* io.open "wb" truncates the destination before any part is looked for.   *)
CompleteOpen(w) ==
  /\ pc[w] = "open"
  /\ \/ /\ dst' = [c \in Chunks |-> "none"]
        /\ Goto(w, "append")
        /\ UNCHANGED faults
     \/ Fails /\ Answer(w, "PATH_INVALID") /\ UNCHANGED dst
  /\ UNCHANGED <<part, arg, tail, linked, spoiled>>

(* The end of a slice leaves the buffer with the next write, or with the   *)
(* close.                                                                  *)
Flushed(w, c) ==
  IF c \in Chunks THEN [dst EXCEPT ![c] = IF @ = "none" THEN "partial" ELSE tail[w]] ELSE dst

(* Mutant of CompleteAppend: a missing part is skipped.                    *)
CompleteAppendSkips(w) ==
  LET c == arg[w]
  IN
  /\ pc[w] = "append"
  /\ dst' = [Flushed(w, c - 1) EXCEPT ![c] = IF part[c] = "none" THEN @ ELSE "partial"]
  /\ tail' = [tail EXCEPT ![w] = IF part[c] = "none" THEN @ ELSE part[c]]
  /\ Goto(w, "remove")
  /\ UNCHANGED <<part, arg, linked, faults, spoiled>>

(* A part that cannot be opened ends the request; one that can is read and *)
(* written.                                                                *)
CompleteAppend(w) ==
  LET c == arg[w]
      flushed == Flushed(w, c - 1)
  IN
  /\ pc[w] = "append"
  /\ \/ /\ part[c] = "none"
        /\ dst' = flushed
        /\ Answer(w, "PATH_NOT_EXISTS")
        /\ UNCHANGED <<tail, faults, spoiled>>
     \/ /\ part[c] # "none"
        /\ dst' = [flushed EXCEPT ![c] = "partial"]
        /\ Goto(w, "remove")
        /\ \/ tail' = [tail EXCEPT ![w] = part[c]] /\ UNCHANGED <<faults, spoiled>>
           \/ tail' = [tail EXCEPT ![w] = "partial"] /\ Fails /\ spoiled' = "yes"
  /\ UNCHANGED <<part, arg, linked>>

(* Mutant of CompleteRemove: the next part is removed.                     *)
CompleteRemoveNext(w) ==
  LET c == arg[w]
  IN
  /\ pc[w] = "remove"
  /\ part' = [d \in Chunks |-> IF d = c + 1 THEN "none" ELSE part[d]]
  /\ IF c < N THEN Goto(w, "append") /\ arg' = [arg EXCEPT ![w] = c + 1]
              ELSE Goto(w, "close") /\ UNCHANGED arg
  /\ UNCHANGED <<dst, tail, linked, faults, spoiled>>

(* os.remove of the part.                                                  *)
CompleteRemove(w) ==
  LET c == arg[w]
  IN
  /\ pc[w] = "remove"
  /\ part' = [part EXCEPT ![c] = "none"]
  /\ linked' = {x \in linked : arg[x] # c}
  /\ IF c < N THEN Goto(w, "append") /\ arg' = [arg EXCEPT ![w] = c + 1]
              ELSE Goto(w, "close") /\ UNCHANGED arg
  /\ UNCHANGED <<dst, tail, faults, spoiled>>

(* Mutant of CompleteClose: it takes the close for failed.                 *)
CompleteCloseMisjudged(w) ==
  /\ pc[w] = "close"
  /\ dst' = Flushed(w, N)
  /\ Answer(w, "SYSTEM")
  /\ UNCHANGED <<part, arg, tail, linked, faults, spoiled>>

(* The last slice is flushed; the request is answered.                     *)
CompleteClose(w) ==
  /\ pc[w] = "close"
  /\ dst' = Flushed(w, N)
  /\ Answer(w, "SUCCESS")
  /\ UNCHANGED <<part, arg, tail, linked, faults, spoiled>>

(* A worker is killed; what its buffer holds is lost.                      *)
Crash(w) ==
  /\ pc[w] # "idle" /\ faults < MaxFaults
  /\ faults' = faults + 1
  /\ pc' = [pc EXCEPT ![w] = "idle"]
  /\ linked' = linked \ {w}
  /\ Unanswered(w)
  /\ UNCHANGED <<part, dst, arg, tail, spoiled>>

Step(w) ==
  \/ PushOpen(w) \/ PushWrite(w)
  \/ CompleteOpen(w) \/ CompleteAppend(w) \/ CompleteRemove(w) \/ CompleteClose(w)

Send(w) == SendComplete(w) \/ \E c \in Chunks : SendPush(w, c)

Next ==
  \/ \E w \in Workers : Step(w) \/ Send(w) \/ Timeout(w) \/ Crash(w)
  \/ done = "yes" /\ UNCHANGED vars

(* A worker goes on with its request; the client goes on sending.          *)
Fairness ==
  /\ \A w \in Workers : WF_vars(Step(w))
  /\ WF_vars(\E w \in Workers : Send(w))

Spec == Init /\ [][Next]_vars /\ Fairness

-----------------------------------------------------------------------------
(* Properties.  They are about uploads no request of which overlapped      *)
(* another on the same part or destination and whose writes did not fail:  *)
(* the code detects neither.                                               *)

(* When the client is told that the upload is complete, the file holds     *)
(* every slice whole, whatever crashes, timeouts and retries came before.  *)
CompletedIsWhole ==
  done = "yes" /\ spoiled = "no" => \A c \in Chunks : dst[c] = "full"

Missing(w) == pc[w] = "append" /\ part[arg[w]] = "none" /\ pc'[w] = "idle"

(* A client that keeps to the protocol is told of a missing part only      *)
(* after a fault: an interrupted complete has removed it.                  *)
MissingOnlyAfterFault ==
  [][\A w \in Workers : w \in waits /\ Missing(w) /\ spoiled = "no" => faults' > 0]_vars

(* A client that keeps trying is told in the end that its upload is        *)
(* complete: pushing every slice anew always gets it out of what an        *)
(* interrupted complete left behind.                                       *)
Uploaded == <>(done = "yes")

(* The strengthening that makes CompletedIsWhole inductive.                *)

(* Who completes runs alone; two pushes are of different slices.           *)
NoConflict ==
  spoiled = "no" =>
    \A w, x \in Workers :
      w # x /\ pc[w] # "idle" /\ pc[x] # "idle" =>
        Pushing(w) /\ Pushing(x) /\ arg[w] # arg[x]

(* A push whose slice is acknowledged already, or that runs while the      *)
(* client waits for a complete, does not exist.                            *)
AckedIsSettled ==
  spoiled = "no" =>
    /\ \A w \in Workers : Pushing(w) => acked[arg[w]] = "no"
    /\ \A c \in Chunks : acked[c] = "yes" => part[c] # "partial"
    /\ \A w \in Workers : pc[w] = "push_write" => w \in linked

(* A complete at slice c has appended all earlier ones; the last of them   *)
(* is whole once the buffer is flushed.                                    *)
CompleteInv ==
  spoiled = "no" =>
    \A w \in Workers :
      Completing(w) =>
        /\ pc[w] # "close" => \A c \in Chunks : part[c] # "partial"
        /\ pc[w] = "open" => arg[w] = 1
        /\ pc[w] = "append" =>
             /\ \A c \in Chunks : c < arg[w] - 1 => dst[c] = "full"
             /\ arg[w] > 1 => dst[arg[w] - 1] = "partial" /\ tail[w] = "full"
        /\ pc[w] \in {"remove", "close"} =>
             /\ \A c \in Chunks : c < arg[w] => dst[c] = "full"
             /\ dst[arg[w]] = "partial" /\ tail[w] = "full"
        /\ pc[w] = "close" => arg[w] = N

WholeInv == spoiled = "no" /\ done = "yes" =>
  /\ \A c \in Chunks : dst[c] = "full"
  /\ \A w \in Workers : pc[w] = "idle"

IInv == TypeOK /\ NoConflict /\ AckedIsSettled /\ CompleteInv /\ WholeInv

(* What api_opt_slice_push.lua logs before it answers SUCCESS, "Upload one *)
(* slice complete!": the slice is in its part file.                        *)
PushedIsStored ==
  [][\A w \in Workers :
       /\ pc[w] = "push_write" /\ pc'[w] = "idle" /\ w \in waits /\ acked'[arg[w]] = "yes"
       /\ spoiled = "no"
       => part'[arg[w]] = "full"]_vars
=============================================================================
