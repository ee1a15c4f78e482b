------------------------------- MODULE MCPlayback ------------------------------
(***************************************************************************)
(* Playback for TLC: one call of subscribe_all and one of another method.  *)
(***************************************************************************)
EXTENDS Playback

\* A command, and reads in both namespaces, of which one decodes any body.
MCTried == {PlaybackControls, GetPlaybackStatus, GetMetadata}
===============================================================================
