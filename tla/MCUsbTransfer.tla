---------------------------- MODULE MCUsbTransfer ----------------------------
\* Small instances of UsbTransfer: a packet is a few headers long, a
\* block two packets.
EXTENDS UsbTransfer

MCFileSizes  == 1..(3 * BlockSize + 1)
MCFullBlocks == {BlockSize}
\* A game card image may start with a key area, here of one packet.
MCFirstChunks == {MaxPacketSize, BlockSize}
=============================================================================
