---------------------------- MODULE MCReadBuffer ----------------------------
\* RamStart, and with it ReadBuffer, for three files: a meminfo of three lines, one
\* that ends in a number that fills the last piece, and an empty one.
EXTENDS RamStart, TLC

CONSTANTS stat, number, empty

MCContent ==
  (stat :> <<"other", "digit", "space", "digit", "digit", "newline", "other", "newline",
             "other", "space", "digit", "newline">>)
    @@ (number :> <<"space", "digit", "digit", "digit">>)
    @@ (empty :> <<>>)

MCLayout == <<"free", "other", "cached">>
=============================================================================
