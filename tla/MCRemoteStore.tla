---------------------------- MODULE MCRemoteStore ----------------------------
(* A small instance of RemoteStore: two listens, so that one can go while the other stays, a
   backoff whose base takes three steps to its maximum, and two tokens that are overtaken. *)
EXTENDS RemoteStore

CONSTANTS a, b

MCTargets == {a, b}
===============================================================================
