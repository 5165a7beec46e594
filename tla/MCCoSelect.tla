----------------------------- MODULE MCCoSelect -----------------------------
(* TLC instance of Chan and CoSelect: writers of one buffered channel, and  *)
(* a close.                                                                 *)
EXTENDS CoSelect, TLC

CONSTANTS rd, wr, b

MCMax == b :> 1
MCCases == [c \in {} |-> <<>>]
WriteAndClose == {{<<wr, "Write", b>>, <<rd, "Read", b>>, <<rd, "Close", b>>}}
=============================================================================
