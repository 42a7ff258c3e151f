----------------------- MODULE MCSequencerSubscriber -----------------------
(* Instances of SequencerSubscriber for TLC. *)
EXTENDS SequencerSubscriber
=============================================================================
