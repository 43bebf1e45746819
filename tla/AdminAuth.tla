----------------------------- MODULE AdminAuth -----------------------------
(***************************************************************************)
(* The administrator: account_manager/api/api_admin_login.lua and          *)
(* api_admin_modify.lua, the tokens of AM_utils.lua and the signing key    *)
(* that deploy/init.lua sets, run by several nginx workers.                *)
(*                                                                         *)
(* The administrator is the row of sys_info whose id is 1.  There is none  *)
(* before the first login, which inserts it with the default secret; ids   *)
(* are counted by AUTO_INCREMENT, which does not take back the id of a     *)
(* statement that fails.  The key is in a dictionary that the workers      *)
(* share, and every worker sets it again when it starts.  Requests without *)
(* a secret change nothing and are left out.                               *)
(***************************************************************************)
EXTENDS Naturals

CONSTANTS
  Processes,  \* nginx worker processes
  Secrets,    \* what clients send
  Default,    \* the secret of the first login
  Absent,     \* no row, no token
  Lifetime,   \* of a token
  MaxClock    \* bound: the last moment

ASSUME DefaultAssumption == Default \in Secrets /\ Absent \notin Secrets
ASSUME ClockAssumption == Lifetime \in Nat /\ MaxClock \in Nat

VARIABLES
  secret,     \* the secret in row 1 of sys_info, or Absent
  fresh,      \* no id of sys_info has been used
  key,        \* am-secret in the shared dictionary: when it was set
  clock,      \* os.time()
  tokens,     \* the tokens that were given out
  act,        \* what each worker is doing, see Acts
  told,       \* what it answered in this step, if it answered
  promised,   \* history: the secrets that may be in force, as far as clients
              \* can tell from the answers
  heard       \* history: for a login, what was promised since it began; for a
              \* change, the secrets of the changes it overlapped

adminVars == <<secret, fresh, key, clock, tokens, act, told, promised, heard>>
storeVars == <<secret, fresh>>
timeVars == <<key, clock>>

Moments == 0 .. MaxClock
Tokens == [key : Moments, exp : 0 .. MaxClock + Lifetime]
LoginSteps == {"look_up", "first"}
ModifySteps == {"compare", "update", "updated", "unchanged"}
Acts == [at : LoginSteps \union ModifySteps \union {"idle"},
         secret : Secrets, token : Tokens \union {Absent}]
Idle == [at |-> "idle", secret |-> Default, token |-> Absent]
Told == {"none", "SUCCESS", "SECRET", "SECRET_SAME", "SYSTEM"}
Silence == [p \in Processes |-> "none"]

LogsIn(p) == act[p].at \in LoginSteps
Modifies(p) == act[p].at \in ModifySteps

AdminTypeOK ==
  /\ secret \in Secrets \union {Absent}
  /\ fresh \in BOOLEAN
  /\ key \in Moments /\ clock \in Moments
  /\ tokens \subseteq Tokens
  /\ act \in [Processes -> Acts]
  /\ \A p \in Processes : LogsIn(p) => act[p].token \in Tokens
  /\ told \in [Processes -> Told]
  /\ promised \subseteq Secrets
  /\ heard \in [Processes -> SUBSET Secrets]

AdminInit ==
  /\ secret = Absent /\ fresh = TRUE
  /\ key = 0 /\ clock = 0
  /\ tokens = {}
  /\ act = [p \in Processes |-> Idle]
  /\ told = Silence
  /\ promised = {Default}
  /\ heard = [p \in Processes |-> {}]
-----------------------------------------------------------------------------
(* admin_sign, and admin_verify.                                           *)
Signed == [key |-> key, exp |-> clock + Lifetime]
Verified(token) == token.key = key /\ clock <= token.exp

GoOn(p, step) ==
  /\ act' = [act EXCEPT ![p].at = step]
  /\ told' = Silence
  /\ UNCHANGED <<tokens, promised, heard>>

Tell(p, code) ==
  /\ act' = [act EXCEPT ![p] = Idle]
  /\ told' = [Silence EXCEPT ![p] = code]
  /\ heard' = [heard EXCEPT ![p] = {}]

Refuse(p, code) == Tell(p, code) /\ UNCHANGED <<tokens, promised>>

GiveToken(p) ==
  /\ Tell(p, "SUCCESS")
  /\ tokens' = tokens \union {act[p].token}
  /\ UNCHANGED promised

(* adminLogin: the token is signed before the secret is looked at.         *)
LoginBegin(p, s) ==
  /\ act[p].at = "idle"
  /\ act' = [act EXCEPT ![p] = [at |-> "look_up", secret |-> s, token |-> Signed]]
  /\ told' = Silence
  /\ heard' = [heard EXCEPT ![p] = promised]
  /\ UNCHANGED <<storeVars, timeVars, tokens, promised>>

LoginLookUp(p) ==
  /\ act[p].at = "look_up"
  /\ \/ Refuse(p, "SYSTEM")
     \/ /\ secret = Absent
        /\ IF act[p].secret = Default THEN GoOn(p, "first") ELSE Refuse(p, "SECRET")
     \/ /\ secret # Absent
        /\ IF act[p].secret = secret THEN GiveToken(p) ELSE Refuse(p, "SECRET")
  /\ UNCHANGED <<storeVars, timeVars>>

(* Mutant: the row is written as row 1, over one that is there.            *)
LoginFirstReplaces(p) ==
  /\ act[p].at = "first"
  /\ secret' = Default /\ fresh' = FALSE
  /\ GiveToken(p)
  /\ UNCHANGED timeVars

(* INSERT: row 1 if no id was used before.  It may be refused, with its id *)
(* used or not, it may be reported as failed after it took effect, and a   *)
(* round that lost its connection is run again (module MysqlPool).         *)
LoginFirst(p) ==
  /\ act[p].at = "first"
  /\ \/ /\ fresh' = FALSE
        /\ secret' \in {secret} \union {IF fresh THEN Default ELSE secret}
        /\ GiveToken(p) \/ Refuse(p, "SYSTEM") \/ GoOn(p, "first")
     \/ UNCHANGED storeVars /\ Refuse(p, "SYSTEM")
  /\ UNCHANGED timeVars

(* adminModify, with a token that is verified.                             *)
ModifyBegin(p, s) ==
  /\ act[p].at = "idle"
  /\ \E token \in tokens : Verified(token)
  /\ act' = [act EXCEPT ![p] = [at |-> "compare", secret |-> s, token |-> Absent]]
  /\ told' = Silence
  /\ promised' = promised \union {s}
  /\ heard' = [q \in Processes |->
       CASE q = p -> {act[r].secret : r \in {r \in Processes : Modifies(r)}}
         [] LogsIn(q) \/ Modifies(q) -> heard[q] \union {s}
         [] OTHER -> heard[q]]
  /\ UNCHANGED <<storeVars, timeVars, tokens>>

ModifyCompare(p) ==
  /\ act[p].at = "compare"
  /\ \/ Refuse(p, "SYSTEM")
     \/ secret = Absent /\ Refuse(p, "SYSTEM")
     \/ secret = act[p].secret /\ Refuse(p, "SECRET_SAME")
     \/ secret \notin {Absent, act[p].secret} /\ GoOn(p, "update")
  /\ UNCHANGED <<storeVars, timeVars>>

(* UPDATE ... WHERE id=1: mysqld counts the rows that are changed by it.   *)
(* A round that lost its connection is run again.                          *)
ModifyUpdate(p) ==
  /\ act[p].at = "update"
  /\ \/ /\ secret' = IF secret = Absent THEN Absent ELSE act[p].secret
        /\ \/ GoOn(p, IF secret' # secret THEN "updated" ELSE "unchanged")
           \/ Refuse(p, "SYSTEM") \/ GoOn(p, "update")
     \/ UNCHANGED secret /\ Refuse(p, "SYSTEM")
  /\ UNCHANGED <<fresh, timeVars>>

(* The answer, which comes when other workers may have gone on.            *)
ModifyAnswer(p) ==
  /\ \/ /\ act[p].at = "updated"
        /\ Tell(p, "SUCCESS")
        /\ promised' = promised \intersect ({act[p].secret} \union heard[p])
     \/ act[p].at = "unchanged" /\ Tell(p, "SYSTEM") /\ UNCHANGED promised
  /\ UNCHANGED <<storeVars, timeVars, tokens>>

(* A worker is killed, or told to reload: another starts in its place and  *)
(* sets the key.                                                           *)
Start(p) ==
  /\ key' = clock
  /\ act' = [act EXCEPT ![p] = Idle]
  /\ told' = Silence
  /\ heard' = [heard EXCEPT ![p] = {}]
  /\ UNCHANGED <<storeVars, clock, tokens, promised>>

Tick ==
  /\ clock < MaxClock
  /\ clock' = clock + 1
  /\ told' = Silence
  /\ UNCHANGED <<storeVars, key, tokens, act, promised, heard>>

AdminNext ==
  \/ \E p \in Processes, s \in Secrets : LoginBegin(p, s) \/ ModifyBegin(p, s)
  \/ \E p \in Processes : LoginLookUp(p) \/ LoginFirst(p)
  \/ \E p \in Processes : ModifyCompare(p) \/ ModifyUpdate(p) \/ ModifyAnswer(p)
  \/ \E p \in Processes : Start(p)
  \/ Tick

AdminSpec == AdminInit /\ [][AdminNext]_adminVars
-----------------------------------------------------------------------------
(* Who logs in knows the secret in force.  As far as the answers tell: an  *)
(* answered change puts out of force every secret but its own and those of *)
(* the changes it overlapped, and a login that begins later and presents   *)
(* another one is refused -- also when it races a first login, whose       *)
(* INSERT may come after the change.                                       *)
LoginIsCurrent ==
  [][\A p \in Processes :
       LogsIn(p) /\ told'[p] = "SUCCESS" => act[p].secret \in heard[p]]_adminVars
=============================================================================
