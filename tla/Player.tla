-------------------------------- MODULE Player --------------------------------
(***************************************************************************)
(* What hy_stream_ctrl.c promises the server of its live views (281-294,   *)
(* 328-346): a player of one stream, that is stopped before another starts *)
(* and shows the channel it was started for.                               *)
(***************************************************************************)
EXTENDS Sequences

CONSTANT Channels  \* the channels there are to watch

VARIABLE playing   \* the channel that is published, or nothing

PInit == playing = <<>>

\* hy_simple_stream_start_realplay: the channel asked for is published, and only
\* when no other is.
Play(c) == playing = <<>> /\ playing' = <<c>>

\* hy_simple_stream_stop_realplay, or the end of the stream itself.
Stop == playing # <<>> /\ playing' = <<>>

PNext == (\E c \in Channels : Play(c)) \/ Stop

PSpec == PInit /\ [][PNext]_playing
=============================================================================
