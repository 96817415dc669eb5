--------------------------- MODULE MCMessageCodec ---------------------------
(***************************************************************************)
(* TLC instance of MessageCodec: bytes of two values, so two length bytes  *)
(* say 0 to 3, and messages of every such length.                          *)
(***************************************************************************)
EXTENDS MessageCodec

MCMessage == {<<>>, <<0>>, <<1>>, <<1, 0>>, <<0, 1>>, <<1, 1, 0>>, <<0, 1, 1>>}
=============================================================================
