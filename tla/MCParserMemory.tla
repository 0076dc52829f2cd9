-------------------------- MODULE MCParserMemory --------------------------
(* The streams of MCFrameParser for ParserMemory. *)
EXTENDS MCFrameParser, ParserMemory
=============================================================================
