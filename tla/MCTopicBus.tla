----------------------------- MODULE MCTopicBus -----------------------------
(***************************************************************************)
(* Model checking of the topic bus.                                        *)
(***************************************************************************)
EXTENDS TopicBus, TLC

\* The slots of a registry are alike.
Slots == Permutations(Refs)
=============================================================================
