----------------------------- MODULE MCKepIndex -----------------------------
(***************************************************************************)
(* Two messages whose hashes begin with the same bytes and share a slot of *)
(* the path cache: both arrive under tag 0, and one under tag 3 too, which *)
(* the unsigned second tag of a delivery allows.                           *)
(***************************************************************************)
EXTENDS KepIndex

CONSTANTS h1, h2, p0, s0

MCArrives == {<<0, h1>>, <<0, h2>>, <<3, h2>>}
MCPrefixOf == [h \in Hash |-> p0]
MCSlotOf == [h \in Hash |-> s0]
=============================================================================
