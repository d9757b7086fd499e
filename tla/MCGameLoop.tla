----------------------------- MODULE MCGameLoop -----------------------------
(* Small instance of GameLoop for TLC: the server sends, nobody writes.    *)
EXTENDS GameLoop

MCInbound == [id : {"delim"} \union PlainIds, buf : Buffers]

=============================================================================
