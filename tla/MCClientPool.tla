---------------------------- MODULE MCClientPool ----------------------------
(* An instance of ClientPool with its circuit breaker for TLC.             *)
EXTENDS BotCircuit

CONSTANTS b1, b2

MCBots == <<b1, b2>>
=============================================================================
