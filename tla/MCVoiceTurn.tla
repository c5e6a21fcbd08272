----------------------------- MODULE MCVoiceTurn -----------------------------
(* The instance of VoiceTurn that TLC explores: one goroutine that speaks,   *)
(* and one connection of the speaker.                                         *)
EXTENDS VoiceTurn

MCCallers    == {Voice}
MCLinkFaults == {"write", "close", "duplicate"}

=============================================================================
