--------------------------- MODULE MCPeerAdmission ---------------------------
(* Two torrents, one of which fetches its metadata.                          *)
EXTENDS PeerAdmission

CONSTANTS content, magnet

Both == {content, magnet}
Fetching == {magnet}
Settings == {1, 2}
=============================================================================
