---------------------------- MODULE MCRedisPool ----------------------------
(* Model-checking instance of RedisPool: a pool of one member, which may   *)
(* be taken away and put back at another address while requests run.       *)
EXTENDS RedisPool, TLC

MCConfigured == [own |-> {"h1"}]
MCAdded == [own |-> "h2"]
MCBatches == {<<"bulk">>, <<"list", "status">>}
Symmetric == Permutations(Coroutines) \union Permutations(Conns)
=============================================================================
