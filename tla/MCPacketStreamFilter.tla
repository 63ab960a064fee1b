------------------------ MODULE MCPacketStreamFilter ------------------------
\* Both ends, with and without TLS.
EXTENDS PacketStreamFilter
=============================================================================
