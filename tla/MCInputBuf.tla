----------------------------- MODULE MCInputBuf -----------------------------
(* InputBuf on a small instance.                                             *)
EXTENDS InputBuf

\* A plain byte, an escaped ESC, the end of a message, and a block that holds
\* the codes of ESC and of the end of a message, with its size in two groups.
Symbols == {<<1>>, <<3, 0>>, <<3, 1>>, <<3, 3, 130, 0, 3, 1>>}
Texts(n) == {FlattenSeq(seq) : seq \in [1..n -> Symbols]}

\* The closing message of a peer: EOS, an error number, EOM.
Closing == <<3, 2, 0, 3, 1>>

\* Blocks whose size is one group, two groups that both count (129 bytes, of
\* which the peer sends ten before it ends the connection), or 0.
Block == <<3, 3, 2, 3, 1, 3, 1>>
WideBlock == <<3, 3, 129, 1, 3, 1, 3, 1, 3, 1, 3, 1, 3, 1>>
BlockStreams == {Block, WideBlock, <<3, 3, 0, 1, 3, 3, 128, 0, 3, 1>> \o Block}

\* Texts, cut off anywhere by the end of the connection; a message that is
\* longer than the buffer; the same, given up by a peer that fails and closes
\* in the middle of it; messages followed by the closing message; and an
\* invalid escape sequence.
LongStream == <<1, 2, 0, 1, 2, 0, 2, 3, 1, 0, 3, 1>>
EndStreams ==
    { LongStream, <<1, 2, 0, 1, 2, 0, 1, 2>> \o Closing, Closing, <<1, 3, 1>> \o Closing,
      <<1, 3, 1, 3, 0, 2, 3, 1>> \o Closing, <<0, 3, 1, 3, 5>> }
TheStreams == EndStreams \cup BlockStreams \cup UNION {Texts(n) : n \in 2..3}
=============================================================================
