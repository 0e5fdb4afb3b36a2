---------------------------- MODULE MCThreadPool ----------------------------
(* ThreadPool on small instances. *)
EXTENDS ThreadPoolInv
=============================================================================
