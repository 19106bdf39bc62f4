-------------------------- MODULE MCClientLifecycle --------------------------
(* ClientLifecycle for TLC, with the sessions numbered as connectTunnel    *)
(* makes them.                                                             *)
EXTENDS ClientLifecycle

SessionNumbers == 1..MaxSessions
=============================================================================
