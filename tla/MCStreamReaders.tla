--------------------------- MODULE MCStreamReaders ---------------------------
(***************************************************************************)
(* StreamReaders for TLC, with bytes of four bits (Low = 4).               *)
(***************************************************************************)
EXTENDS StreamReaders

\* Both sides of each limit of the varints (4, 64, 2^14, 2^30), and a number
\* of more than 62 "bits".
MCNumbers == {3, 4, 63, 64, 16383, 16384, 1073741823, 1073741824 + 5}
MCStrings == {<<>>, <<1, 7, 15, 0, 2>>}
MCAddresses ==
    { Address(V4, <<9, 8, 7, 6>>, <<1, 2>>),
      Address(V6, [i \in 1..16 |-> 15 - (i % 3)], <<3, 4>>),
      Address(DOMAIN_NAME, <<7, 6, 5>>, <<1, 1>>),
      Address(DOMAIN_NAME, <<1, 6, 5, 7>>, <<1, 2>>),
      Address(DOMAIN_NAME, <<5, 6, 5, 7, 6>>, <<1, 2>>) }
MCUser == <<6, 1>>
MCPass == <<2>>
MCLogins == {<<MCUser, MCPass>>, <<<<6>>, <<1, 2>>>>, <<MCUser, <<>>>>}
=============================================================================
