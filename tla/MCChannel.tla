------------------------------ MODULE MCChannel ------------------------------
(***************************************************************************)
(* Instances of Channel for TLC: three threads, each of which may send and    *)
(* receive in any order.                                                    *)
(***************************************************************************)
EXTENDS Channel

CONSTANTS t1, t2, t3

MCThreads == {t1, t2, t3}

=============================================================================
