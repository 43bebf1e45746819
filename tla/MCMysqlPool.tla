---------------------------- MODULE MCMysqlPool ----------------------------
(* Model-checking instance of MysqlPool.                                   *)
EXTENDS MysqlPool
============================================================================
