------------------------- MODULE MCConnectionSetup -------------------------
(* Connections over enough handles, with three builder configurations.   *)
EXTENDS ConnectionSetup

MCOptionSets ==
    { {},
      {"loginTimeout", "packetSize", "heartbeat", "isolation"},
      {"badPacket"} }
=============================================================================
