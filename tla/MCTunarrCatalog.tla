--------------------------- MODULE MCTunarrCatalog ---------------------------
(* Lists of none to three of Tunarr's channels. *)
EXTENDS TunarrCatalog

CONSTANTS c1, c2, c3

ch(c, n) == [id |-> c, number |-> n]

\* Numbers shared by two channels, missing, equal to the proxy's own (7 is
\* ChannelStart), and 3, which is c3's alone.
MixedLists ==
    {<<ch(c1, 1), ch(c2, 1), ch(c3, 3)>>,
     <<ch(c3, 3), ch(c2, NoNumber), ch(c1, 7)>>, <<>>}
=============================================================================
