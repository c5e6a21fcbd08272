-------------------------- MODULE MCSessionHistory --------------------------
(* Small instances of SessionHistory: the one key of the program. *)
EXTENDS SessionHistory

CONSTANT MainVoiceHistoryKey

MCKeys == {MainVoiceHistoryKey}

=============================================================================
