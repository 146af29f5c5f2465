------------------------- MODULE MCSubscribeRequest -------------------------
(* Bounds: names of at most three tokens that put each separator at the    *)
(* beginning, in the middle and at the end, and one that makes a piece     *)
(* with a closing bracket before the opening one; at most MaxKeys keys.    *)
EXTENDS SubscribeRequest

CONSTANT MaxKeys

MCWord == {"x", "*"}

Names ==
  {<< >>, <<"x">>, <<"*">>}
    \cup {<<"x", c, "x">> : c \in Separator}
    \cup {<<c, "x">> : c \in Separator} \cup {<<"x", c>> : c \in Separator}
    \cup {<<"x", "]", "/", "x", "]", "*", "[", "x", "=", "x">>}

Keys == [key_policy : Names, key_rule : Names]

MCRequests ==
  [keys : [{1} -> Keys] \cup {<< >>}, encoding : Encodings]
    \cup [keys : [1 .. MaxKeys -> [key_policy : Names, key_rule : {<<"x">>, << >>}]],
          encoding : {"PROTO"}]

=============================================================================
