-------------------------- MODULE MC_PipedHttpStream --------------------------
(***************************************************************************)
(* An instance of PipedHttpStream for TLC: a message without a body, a      *)
(* chunked one whose size line may come in two pieces, and one with a       *)
(* length; the last message but one closes.                                 *)
(***************************************************************************)
EXTENDS PipedHttpStream
Of(what, len) == [what |-> what, len |-> len]
Plain == <<Of("line", 0), Of("blank", 0)>>
InChunks == <<Of("blank", Chunked), Of("part", 0), Of("size", 3), Of("data", 0), Of("data", 0),
              Of("data", 0), Of("crlf", 0), Of("zero", 0), Of("end", 0)>>
WithLength == <<Of("blank", 2), Of("body", 0), Of("body", 0)>>
MCStream == Plain \o WithLength \o InChunks \o Plain
MCEnd == [m \in 0..4 |-> CASE m = 0 -> 0 [] m = 1 -> 2 [] m = 2 -> 5 [] m = 3 -> 14 [] m = 4 -> 16]
MCClosing == {6}
=============================================================================
