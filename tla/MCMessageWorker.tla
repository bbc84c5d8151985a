-------------------------- MODULE MCMessageWorker --------------------------
(* MessageWorker on small instances. *)
EXTENDS MessageWorker, TLC

\* The messages are interchangeable.  Used for safety only.
MsgSymmetry == Permutations(Msgs)
=============================================================================
