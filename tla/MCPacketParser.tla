--------------------------- MODULE MCPacketParser ---------------------------
(* PacketParser on short packets: every size that a packet, a subpacket and  *)
(* a number can have relative to the buffers.                                *)
EXTENDS PacketParser
=============================================================================
