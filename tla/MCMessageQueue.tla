--------------------------- MODULE MCMessageQueue ---------------------------
(***************************************************************************)
(* Instances of MessageQueue for TLC.                                      *)
(***************************************************************************)
EXTENDS MessageQueue

CONSTANTS peer, us, x, y

\* two messages to one account, and the synced copy of one of them
MCMessage == {<<peer, x>>, <<us, x>>, <<peer, y>>}

\* the original has a callback, its synced copy to our own devices has none
MCWithCallback == {<<peer, x>>}
=============================================================================
