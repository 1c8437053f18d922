-------------------------------- MODULE Http --------------------------------
(***************************************************************************)
(* An object of the class CHttpParser (HttpParser.cpp), which wraps the    *)
(* library http_parser, an object of UrlParser, and the decision           *)
(* CEdoyunPlayerServer::HttpParser makes with a new one of each for every  *)
(* piece of data a client sends.  Copies of a CHttpParser are left out:    *)
(* the program makes none.                                                 *)
(*                                                                         *)
(* What is fed to a parser is a sequence of tokens <<kind, value>> as the  *)
(* library tells them apart.  A URL may be cut anywhere between two calls. *)
(* A body comes in the chunks of a chunked encoding.  Requests keep the    *)
(* connection alive.                                                       *)
(*                                                                         *)
(* A definition marked "mutant" is a plausible mistake in the definition   *)
(* that follows it; no specification uses one.                             *)
(***************************************************************************)
EXTENDS Url, SequencesExt

CONSTANTS Chunks,   \* the pieces of data: sequences of tokens
          Parts,    \* the URLs a UrlParser is given, by their parts, and
          Broken,   \* those that nobody would write
          Address,  \* what the server puts before a path (EPlayerServer.h:186)
          MaxFed    \* bound: the pieces the parser is fed

(***************************************************************************)
(* What can be told apart in a piece of data ("junk" is no part of a       *)
(* request), and how the parts of a URL are written: the marks that end a  *)
(* part do not stand in it.                                                *)
(***************************************************************************)
Tokens ==
  ({"method"} \X {"GET", "POST"}) \cup ({"url"} \X Text)
    \cup ({"version", "field", "value", "blank", "more", "chunk", "last", "junk"} \X STRING)

WellFormed(p) ==
  /\ p.protocol \in Seq(Words)
  /\ p.host \in Seq(Words) \ {<<>>}
  /\ p.port \in {<<>>} \cup {<<w>> : w \in Words}
  /\ p.path \in Seq(Text \ {"?"}) /\ (p.path # <<>> => Head(p.path) = "/")
  /\ p.params \in Seq(Seq(Text \ {"=", "&"}) \X Seq(Text \ {"&"}))
  /\ p.path = <<>> => \A i \in DOMAIN WrittenQuery(p.params) : WrittenQuery(p.params)[i] # "/"

ASSUME MaxFedAssumption  == MaxFed \in Nat
ASSUME ChunksAssumption  == \A data \in Chunks : data \in Seq(Tokens)
ASSUME AddressAssumption == Address \in Seq(Text)
ASSUME PartsAssumption   == \A p \in Parts : WellFormed(p)

Urls == {Written(p) : p \in Parts} \cup Broken

VARIABLES
  subject, \* what the program exercises: "http", "serve" or "url"
  parser,  \* the CHttpParser object
  size,    \* what its last call of Parser returned
  fed,     \* what it has taken of each piece it was fed
  answer,  \* what the server made of the last piece of data, or "none"
  link,    \* the UrlParser object
  isSet,   \* did its URL come by SetUrl?
  code     \* what its Parser returned, or Unset

parserVars == <<parser, size, fed>>
linkVars   == <<link, isSet, code>>
vars == <<subject, parserVars, answer, linkVars>>

-----------------------------------------------------------------------------
(* The library: the kinds of token it takes and what it then waits for.    *)
Moves ==
  {<<"start", "method", "target">>, <<"target", "url", "url">>, <<"url", "url", "url">>,
   <<"url", "version", "fields">>, <<"fields", "field", "value">>,
   <<"value", "value", "fields">>, <<"fields", "blank", "start">>,
   <<"fields", "more", "body">>, <<"body", "chunk", "body">>, <<"body", "last", "start">>}

Fits(o, t) == \E m \in Moves : m[1] = o.phase /\ m[2] = t[1]
Moved(o, t) ==
  [o EXCEPT !.phase = (CHOOSE m \in Moves : m[1] = o.phase /\ m[2] = t[1])[3],
            !.taken = o.taken + 1]

(***************************************************************************)
(* The callbacks.  OnUrl and OnBody store the piece they are given; a      *)
(* piece of the URL is all that one call holds of it.  OnHeaderValue adds  *)
(* to m_HeaderValues, which nothing empties.                               *)
(***************************************************************************)
OnMessageBegin(o, v) == [o EXCEPT !.method = v, !.span = <<>>]

(* mutant: a piece is added to m_url *)
OnUrlAdds(o, v) == [o EXCEPT !.url = Append(o.url, v)]

OnUrl(o, v) ==
  LET span == Append(o.span, v) IN [o EXCEPT !.span = span, !.url = span]

OnHeaderField(o, v) == [o EXCEPT !.lastField = v]
OnHeaderValue(o, v) ==
  [o EXCEPT !.headers = [f \in DOMAIN o.headers \cup {o.lastField} |->
                           IF f = o.lastField THEN v ELSE o.headers[f]]]
OnBody(o, v) == [o EXCEPT !.body = v]
OnMessageComplete(o) == [o EXCEPT !.complete = TRUE]

Callback(o, t) ==
  CASE t[1] = "method" -> OnMessageBegin(o, t[2])
    [] t[1] = "url"    -> OnUrl(o, t[2])
    [] t[1] = "field"  -> OnHeaderField(o, t[2])
    [] t[1] = "value"  -> OnHeaderValue(o, t[2])
    [] t[1] = "chunk"  -> OnBody(o, t[2])
    [] t[1] \in {"blank", "last"} -> OnMessageComplete(o)
    [] OTHER           -> o

(* http_parser_execute: nothing is taken after an error. *)
Begun(o) == [o EXCEPT !.taken = 0, !.span = <<>>]
Take(o, t) ==
  IF o.errno # "ok" THEN o
  ELSE IF Fits(o, t) THEN Callback(Moved(o, t), t) ELSE [o EXCEPT !.errno = "bad"]

Run(o, data) ==
  LET run[n \in 0..Len(data)] ==
        IF n = 0 THEN Begun(o) ELSE Take(run[n - 1], data[n])
  IN  run
Execute(o, data) == Run(o, data)[Len(data)]

-----------------------------------------------------------------------------
(* CHttpParser. *)
CHttpParser ==
  [phase |-> "start", errno |-> "ok", taken |-> 0, span |-> <<>>, method |-> "GET",
   url |-> <<>>, headers |-> <<>>, lastField |-> "", body |-> "", complete |-> FALSE]

StillComplete(o) == o                      \* mutant: m_complete is not reset
Reset(o) == [o EXCEPT !.complete = FALSE]

NotRefused(o) == o                         \* mutant: http_errno is not set
Refused(o)    == [o EXCEPT !.errno = "0x7F"]

Parsed(o, data) ==
  LET e == Execute(Reset(o), data)
  IN  IF e.complete THEN [object |-> e, size |-> e.taken]
      ELSE [object |-> Refused(e), size |-> 0]

(***************************************************************************)
(* CEdoyunPlayerServer::HttpParser: a new parser for every piece of data.  *)
(* "login" stands for what follows the comparison of the path.             *)
(***************************************************************************)
IsLogin(uri) == uri = <<"login">>

Answer(data) ==
  LET p == Parsed(CHttpParser, data)
      l == Parser(UrlParser(Address \o p.object.url))
  IN  IF p.size = 0 \/ p.object.errno # "ok" THEN "-1"
      ELSE IF p.object.method # "GET" THEN "-7"
      ELSE IF l.code # 0 THEN "-2"
      ELSE IF IsLogin(l.object.uri) THEN "login" ELSE "-7"

-----------------------------------------------------------------------------
Init ==
  /\ subject \in {"http", "serve", "url"}
  /\ parser = CHttpParser /\ size = 0 /\ fed = <<>>
  /\ answer = "none"
  /\ link = UrlParser(<<>>) /\ isSet = FALSE /\ code = Unset

Feed(data) ==
  /\ subject = "http" /\ Len(fed) < MaxFed
  /\ parser' = Parsed(parser, data).object
  /\ size' = Parsed(parser, data).size
  /\ fed' = Append(fed, SubSeq(data, 1, parser'.taken))
  /\ UNCHANGED <<subject, answer, linkVars>>

Serve(data) ==
  /\ subject = "serve" /\ answer' = Answer(data)
  /\ UNCHANGED <<subject, parserVars, linkVars>>

NewLink(url) ==
  /\ subject = "url" /\ link' = UrlParser(url) /\ isSet' = FALSE /\ code' = Unset
  /\ UNCHANGED <<subject, parserVars, answer>>

SetLink(url) ==
  /\ subject = "url" /\ link' = SetUrl(link, url) /\ isSet' = TRUE /\ code' = Unset
  /\ UNCHANGED <<subject, parserVars, answer>>

ParseLink ==
  /\ subject = "url"
  /\ link' = Parser(link).object /\ code' = Parser(link).code
  /\ UNCHANGED <<subject, parserVars, answer, isSet>>

Next ==
  \/ \E data \in Chunks : Feed(data) \/ Serve(data)
  \/ \E url \in Urls : NewLink(url) \/ SetLink(url)
  \/ ParseLink

Spec == Init /\ [][Next]_vars

-----------------------------------------------------------------------------
(***************************************************************************)
(* Type correctness.                                                       *)
(***************************************************************************)
TypeOK ==
  /\ parser.errno \in {"ok", "bad", "0x7F"} /\ parser.complete \in BOOLEAN
  /\ parser.phase \in {m[1] : m \in Moves} /\ parser.method \in {"GET", "POST"}
  /\ size \in Nat /\ Len(fed) <= MaxFed
  /\ answer \in {"none", "-1", "-2", "-7", "login"}
  /\ link.url \in Urls \cup {<<>>} /\ link.port \in Int \cup {Unset}
  /\ isSet \in BOOLEAN
  /\ code \in {Unset, 0, -1, -2, -3, -4, -5}

(***************************************************************************)
(* Parser reports a size only if a request was completed in this very      *)
(* call, whatever the calls before have completed or refused               *)
(* (HttpParser.cpp:50-60).                                                 *)
(***************************************************************************)
SizeMeansComplete ==
  size # 0 => \E i \in DOMAIN Last(fed) : Last(fed)[i][1] \in {"blank", "last"}

(***************************************************************************)
(* Url() is what the last call that saw any of a URL saw of the last one   *)
(* (HttpParser.cpp:107-111): the URL of the request that was completed,    *)
(* when one call brought this request and nothing else; but a next URL     *)
(* that has begun takes its place, and of one that was cut between two     *)
(* calls the last piece is left.                                           *)
(***************************************************************************)
Seen(read) == {i \in DOMAIN read : read[i][1] = "url"}

LastUrl(read) ==
  LET end   == Max(Seen(read))
      begin == Max({i \in 1..end : i - 1 \notin Seen(read)})
  IN  [i \in 1..(end + 1 - begin) |-> read[begin + i - 1][2]]

UrlIsLastSeen ==
  \A i \in DOMAIN fed :
    Seen(fed[i]) # {} /\ (\A j \in DOMAIN fed : j > i => Seen(fed[j]) = {})
      => parser.url = LastUrl(fed[i])

(***************************************************************************)
(* A call of Parser that returns 0 is the last that does anything: a       *)
(* request that comes in two pieces is refused, and so is everything after *)
(* it (HttpParser.cpp:55-58; http_test, main.cpp:146-158).                 *)
(***************************************************************************)
RefusalIsFinal ==
  [][fed # <<>> /\ size = 0 =>
       /\ size' = 0
       /\ \A f \in {"method", "url", "headers", "body"} : parser'[f] = parser[f]]_parserVars

(***************************************************************************)
(* A URL with a path is taken apart into the parts it was written from,    *)
(* whatever URL the object held before.  Of a URL without a path the host  *)
(* is all that is left, the port and the query included, and no value is   *)
(* found.  A port that is not found is 80 after SetUrl, and was never set  *)
(* if the URL came by the constructor (HttpParser.cpp:148-223), though     *)
(* HttpParser.h:59 says that 80 is what Port returns by default.           *)
(***************************************************************************)
Default == IF isSet THEN 80 ELSE Unset

UrlComesApart ==
  \A p \in Parts :
    link.url = Written(p) /\ code # Unset =>
      /\ code = 0
      /\ IF p.path # <<>> THEN Describes(link, p, Default)
         ELSE /\ link.values = <<>> /\ link.port = Default
              /\ link.host = After(link.url, Len(p.protocol) + 3)
=============================================================================
