---------------------------- MODULE MCUsbSession ----------------------------
\* Small instances of UsbSession.
EXTENDS UsbSession

\* Timeouts only when the host does not serve the transfer.
MCNoStalls == {}

\* A file of one chunk; an NSP with an empty entry in front of it.
MCLayouts == {<<1>>, <<0, 1>>}

\* An empty file, and one of two chunks.
MCLiveLayouts == {<<0>>, <<2>>}
=============================================================================
