---------------------------- MODULE MCPrefixCache ----------------------------
(***************************************************************************)
(* An instance of PrefixCacheClients for TLC: token sequences of which     *)
(* some begin others, in a cache that holds fewer entries than there are   *)
(* sequences.                                                              *)
(***************************************************************************)
EXTENDS PrefixCacheClients

SomeTokens == {<<1>>, <<1, 2>>, <<1, 2, 3>>, <<2>>}
=============================================================================
