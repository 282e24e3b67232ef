----------------------------- MODULE MCEmulator ------------------------------
(* Three typed keys, which is a command with its argument, or a key for the *)
(* guest and a command behind it.                                           *)
EXTENDS Emulator

MCPreloaded == {<<>>, <<"y", "nl">>}

MCLivePreloaded == {<<>>, <<"c", "nl">>}
==============================================================================
