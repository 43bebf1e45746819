-------------------------- MODULE MCAccountManager --------------------------
(* Model-checking instance of what is kept for accounts: the users, the    *)
(* administrator, and the files of a user.  The first two are in different *)
(* tables and the files are on the pool, so a behaviour serves requests    *)
(* for one of the three.                                                   *)
EXTENDS AccountManager, AdminAuth, FileTransfer, TLC

VARIABLE serves  \* what requests there are in this behaviour

MCRanges == {[first |-> 0, last |-> 0], [first |-> 1, last |-> 5]}
MCTexts == {<<"x">>, <<"y">>, <<"y", "z">>}

(* Files: pushes and pulls of one name, or renames between two as well.    *)
FileScopes ==
  [of : {"files"}, names : {{n} : n \in Names}, texts : {{<<"x">>, <<"y", "z">>}},
   ranges : {MCRanges \union {Whole, Other}}, errors : {2}]
  \union
  [of : {"files"}, names : {Names}, texts : {{<<"x">>, <<"y">>}},
   ranges : {{Whole}}, errors : {1}]

MCInit ==
  /\ serves \in {[of |-> "users"], [of |-> "administrator"]} \union FileScopes
  /\ Init /\ AdminInit /\ TransferInit
  /\ serves.of # "users" => diskList = {} /\ attached = {} /\ pw \in [Workers -> Refused]

InScope ==
  /\ errors' <= serves.errors
  /\ \A h \in Servers : Serves(h)' =>
       /\ {job'[h].name, job'[h].to} \subseteq serves.names \union {NoFile}
       /\ job'[h].text \in serves.texts \union {<<>>}
       /\ job'[h].range \in serves.ranges

MCNext ==
  /\ \/ serves.of = "users" /\ Next /\ UNCHANGED <<adminVars, transferVars>>
     \/ serves.of = "administrator" /\ AdminNext /\ UNCHANGED <<vars, transferVars>>
     \/ serves.of = "files" /\ TransferNext /\ InScope /\ UNCHANGED <<vars, adminVars>>
  /\ UNCHANGED serves

MCSpec == MCInit /\ [][MCNext]_<<vars, adminVars, transferVars, serves>>

(* The disks are alike, and so are the names, and the secrets but the      *)
(* first one.  One behaviour has to do with one of the three, so that they *)
(* can be swapped together.                                                *)
Swaps(pair) == {f \in Permutations(pair) : \A x \in pair : f[x] # x}
Symmetry ==
  Permutations(Workers) \union
  {f @@ g @@ h : f \in Swaps(Disks), g \in Swaps(Names), h \in Swaps(Secrets \ {Default})}
=============================================================================
