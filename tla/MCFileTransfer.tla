--------------------------- MODULE MCFileTransfer --------------------------
(* Three files.  The first read can hold the name, the first chunk and a   *)
(* part of what follows: the last chunk of the second file, the second one *)
(* of the third.                                                           *)
EXTENDS FileTransfer

MCFiles == {<<1, 1>>, <<1, 4, 3>>, <<1, 4, 4, 1>>}

MCAddresses == <<32512, 1, 32512, 1>>

MCPorts == <<50000, 6666>>

MCNumbers == <<65535, 65280, 255, 1>>
=============================================================================
