---------------------------- MODULE MCLobTransfer ----------------------------
(* LOBs of up to four units, read in chunks of 0 to 9 bytes.               *)
EXTENDS LobTransfer
=============================================================================
