---------------------------- MODULE MCMemoryFile ----------------------------
(* Small instances of MemoryFile: the one key of the program. *)
EXTENDS MemoryFile

CONSTANT MainVoiceHistoryKey

MCKeys == {MainVoiceHistoryKey}

=============================================================================
