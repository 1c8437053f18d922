------------------------------- MODULE MCHttp -------------------------------
(***************************************************************************)
(* Small instances of Http for TLC.                                        *)
(***************************************************************************)
EXTENDS Http

CONSTANT unset

AllWords  == {"https", "ip", "login", "81", "a", "b", ""}
OneNumber == [w \in AllWords |-> IF w = "81" THEN 81 ELSE 0]
OurAddress == <<"https", ":", "/", "/", "ip">>

(* A login, and a request with a body that uses the same header. *)
LoginRequest ==
  <<<<"method", "GET">>, <<"url", "/">>, <<"url", "login">>, <<"version", "1.1">>,
    <<"field", "f">>, <<"value", "v">>, <<"blank", "">>>>
PostRequest ==
  <<<<"method", "POST">>, <<"url", "/">>, <<"url", "b">>, <<"version", "1.1">>,
    <<"field", "f">>, <<"value", "w">>, <<"field", "g">>, <<"value", "w">>,
    <<"more", "">>, <<"chunk", "x">>, <<"chunk", "y">>, <<"last", "">>>>
QueryRequest ==
  <<<<"method", "GET">>, <<"url", "/">>, <<"url", "a">>, <<"url", "?">>, <<"url", "b">>,
    <<"version", "1.1">>, <<"blank", "">>>>

Pieces(s) == {SubSeq(s, i, j) : i \in 1..Len(s), j \in 0..Len(s)}

(* All that one read may bring of two requests in a row, and something     *)
(* that is no request, alone or behind one.                                *)
AllChunks ==
  Pieces(LoginRequest \o PostRequest) \cup Pieces(PostRequest \o QueryRequest)
    \cup {<<<<"junk", "">>>>, LoginRequest \o <<<<"junk", "">>>>}

AllParts ==
  [protocol : {<<"https">>}, host : {<<"ip">>, <<"a">>}, port : {<<>>, <<"81">>},
   path : {<<>>, <<"/">>, <<"/", "login">>},
   params : {<<>>, <<<<<<"a">>, <<"b">>>>>>, <<<<<<"a">>, <<>>>>, <<<<"b">>, <<"a", "=", "a">>>>>>,
             <<<<<<"a">>, <<"a">>>>, <<<<"a">>, <<"b">>>>>>}]

BrokenUrls ==
  {<<>>, <<"a", "/", "b">>, <<"a", ":", "/", "/">>, <<":", "/", "/", "/">>,
   <<"a", ":", "/", "/", "b", "/", "?", "a">>, <<"a", ":", "/", "/", "b", "/", "?", "a", "=", "b", "&">>,
   <<"a", ":", "/", "/", "b", ":", "/", "?", "a", "=", "&", "b", "&", "b">>}
=============================================================================
