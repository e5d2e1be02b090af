------------------------ MODULE MC_SubtitleLifecycle ------------------------
(* Two stream types, so that one type can replace another; the .cfg files pick
   the source, the setters and what the source announces. *)
EXTENDS SubtitleLifecycle

CONSTANTS dvb, ttx   \* the stream types

=============================================================================
