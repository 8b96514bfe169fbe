----------------------------- MODULE MCWebServer -----------------------------
(* Instances of WebServer for TLC. *)
EXTENDS WebServer, TLC

CONSTANTS c1, c2

Req(toks, slash, http, read, verb, found) ==
    [toks |-> toks, slash |-> slash, http |-> http, read |-> read,
     verb |-> verb, found |-> found, readable |-> found]

GetFound   == Req(3, TRUE, TRUE, TRUE, "GET", TRUE)
GetDir     == [GetFound EXCEPT !.readable = FALSE]
HeadFound  == Req(3, TRUE, TRUE, TRUE, "HEAD", TRUE)
TooLong    == Req(3, TRUE, TRUE, FALSE, "GET", TRUE)
NoVersion  == Req(2, TRUE, FALSE, TRUE, "GET", TRUE)

TwoClients   == {c1, c2}
ClientSymmetry == Permutations(Clients)

MixedRequests == {HeadFound, TooLong}
PlainRequests == {GetFound, GetDir, NoVersion}
GetAndBad     == {GetFound, TooLong}

AllFaults  == FaultKinds
NoFaults   == {}
=============================================================================
