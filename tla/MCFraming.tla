----------------------------- MODULE MCFraming ------------------------------
(* Bytes are bits and a header has two of them: an empty frame, frames up to *)
(* the limit whose bytes look like headers, and one beyond the limit.        *)
EXTENDS Framing

MCPayloads == {<<>>, <<1>>, <<0, 1>>, <<1, 0, 1>>}
=============================================================================
