----------------------------- MODULE MCKeyCodec -----------------------------
(***************************************************************************)
(* Instances of KeyCodec over the bytes 0 .. 4, with 2 for '!'.            *)
(***************************************************************************)
EXTENDS KeyCodec

MCParts == UNION {[1 .. n -> {0, 1, 2, 4}] : n \in 0 .. 2}
\* k.t and k.tu
MCTable == << <<3>>, <<1>> >>
MCOthers == {MCTable, << <<3>>, <<1, 3>> >>}
=============================================================================
