--------------------------- MODULE MCStreamTracker ---------------------------
(***************************************************************************)
(* Stream "a": two running totals, then a terminal chunk with history.     *)
(* Stream "b": the first event of a message, a chunk whose second usage    *)
(* object is incomplete, and a bare terminal chunk; its host gives no      *)
(* indexes.  One chunk has no stream.                                      *)
(***************************************************************************)
EXTENDS StreamTracker

Object(tokens, fields) == [tokens |-> tokens, fields |-> fields, message |-> FALSE]
Start == [tokens |-> 3, fields |-> 4, message |-> TRUE]
Chunk(s, p, i, size, terminal, usages, history) ==
  [stream |-> s, position |-> p, index |-> i, identity |-> "client", size |-> size,
   terminal |-> terminal, usages |-> usages, history |-> history]

MCChunks ==
  {Chunk("a", 1, 1, 1, FALSE, <<Object(1, 2)>>, FALSE),
   Chunk("a", 2, 2, 2, FALSE, <<Object(2, 2)>>, FALSE),
   Chunk("a", 3, 3, 0, TRUE, <<>>, TRUE),
   Chunk("b", 1, 0, 2, FALSE, <<Start>>, FALSE),
   Chunk("b", 2, 0, 2, FALSE, <<Object(3, 2), Object(1, 1)>>, FALSE),
   Chunk("b", 3, 0, 1, TRUE, <<>>, FALSE),
   Chunk(None, 1, 1, 1, FALSE, <<Object(1, 1)>>, FALSE)}
=============================================================================
