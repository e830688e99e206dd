---------------------------- MODULE MCThreadPool ----------------------------
(* Instance of ThreadPool for TLC: the third request can find the queue full. *)
EXTENDS ThreadPool
=============================================================================
