------------------------ MODULE MCExchangePipeline ------------------------
(***************************************************************************)
(* Small instances of ExchangePipeline for TLC.                            *)
(***************************************************************************)
EXTENDS ExchangePipeline, TLC

CONSTANTS h1, h2, d1, m1, m2

TwoHttp == {h1, h2}
OneHttp == {h1}
OneUdp == {d1}
None == {}

OneCaller == {m1}
TwoCallers == {m1, m2}

\* Any two exchanges fill the queue by count; every exchange weighs one byte.
OneByte == [i \in Ids |-> 1]
\* h1 completes first.
Times == [i \in Ids |-> IF i = h1 THEN 1 ELSE IF i = h2 THEN 2 ELSE 3]

One == {1}
OneOrTwo == {1, 2}
Cutoff == {2}
============================================================================
