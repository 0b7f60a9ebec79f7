---------------------------- MODULE MCCollector ----------------------------
(* One Talker and one Listener, as in collector.yml.template. *)
EXTENDS Collector

CONSTANTS talker, listener

MCTalkers == {talker}
MCListeners == {listener}
=============================================================================
