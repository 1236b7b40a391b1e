--------------------------- MODULE MCStoreBuffer ----------------------------
(* Instances of the store buffer for TLC: two addresses, so that a search    *)
(* can hit and miss, and two payloads, so that an older store to the same    *)
(* word can be told from a younger one.                                      *)
EXTENDS StoreBuffer

CONSTANTS p, q

MCAddr    == {4, 8}
MCPayload == {p, q}
=============================================================================
