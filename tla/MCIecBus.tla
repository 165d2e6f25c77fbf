------------------------------ MODULE MCIecBus ------------------------------
(* IecBus with bytes of three bits: the five bytes that mean something under *)
(* ATN, a command of two bytes, an answer of two bytes and buffers *)
(* that are too small and large enough for it.                             *)
EXTENDS IecBus

F == FALSE
T == TRUE
MCListen == <<F, F, T>>
MCTalk == <<F, T, F>>
MCUnlisten == <<F, T, T>>
MCUntalk == <<T, F, F>>
MCSecond == <<T, F, T>>
MCDollar == <<T, T, F>>
MCCommands == {<<<<T, F, T>>, <<F, F, T>>>>}
MCMessage == <<<<T, F, F>>, <<F, T, T>>>>
MCRooms == {1, 2, 3}
==============================================================================
