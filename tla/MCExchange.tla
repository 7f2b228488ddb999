----------------------------- MODULE MCExchange -----------------------------
(***************************************************************************)
(* Small instances of Exchange for TLC.                                    *)
(***************************************************************************)
EXTENDS Exchange

\* A chain that begins with the default model and repeats its first fallback.
MCChain == <<"haiku", "gpt", "gpt">>

MCTools == << [name |-> "fs_list", cache |-> NoCache],
              [name |-> "fs_read", cache |-> NoCache] >>

\* Nothing, a blank text, a text, texts around an image; with calls or without;
\* an id that comes twice in one reply, and from one reply to another.
MCShapes ==
  { [content |-> <<>>,                          calls |-> <<>>],
    [content |-> <<"blank">>,                   calls |-> <<>>],
    [content |-> <<"words">>,                   calls |-> <<>>],
    [content |-> <<>>,                          calls |-> <<"c1">>],
    [content |-> <<"words">>,                   calls |-> <<"c2", "c2">>],
    [content |-> <<"words", "image", "words">>, calls |-> <<"c1", "c2">>] }
=============================================================================
