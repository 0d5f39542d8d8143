------------------------------ MODULE MCMailbox -------------------------------
(* An instance of Mailbox for TLC.  The open calls of a client are alike.    *)
EXTENDS Mailbox, TLC

AlikeCalls == Permutations(Calls)
=============================================================================
