------------------------------ MODULE MCHealth ------------------------------
(***************************************************************************)
(* Instances of Health: every token of the instance with every address.    *)
(***************************************************************************)
EXTENDS Health

CONSTANTS t1, t2, a1

MCInitial == Token \X Addr

\* 300 s are three rounds of 120 s; 100 s plus Maxwait(n) are two at first.
MCRounds == [n \in 0..MaxFail |-> 2]
=============================================================================
