-------------------------------- MODULE Url --------------------------------
(***************************************************************************)
(* The class UrlParser of HttpParser.h: an object that is given a URL by   *)
(* its constructor or by SetUrl and takes it apart in Parser.              *)
(*                                                                         *)
(* A URL is a sequence of words and of the marks the parser looks for; no  *)
(* two words stand side by side.                                           *)
(*                                                                         *)
(* A definition marked "mutant" is a plausible mistake in the definition   *)
(* that follows it; no specification uses one.                             *)
(***************************************************************************)
EXTENDS Integers, Sequences, FiniteSetsExt

CONSTANTS Words,  \* the words of a URL
          Number, \* [Words -> Int], what atoi makes of a word
          Unset   \* the port of an object before anything is stored there

Marks == {":", "/", "?", "&", "="}
Text  == Words \cup Marks

ASSUME WordsAssumption  == Words \cap Marks = {}
ASSUME NumberAssumption == Number \in [Words -> Int] /\ Unset \notin Int

(* strchr: where mark is first found at or after from, or 0. *)
FirstOf(s, mark, from) ==
  LET found == {i \in from..Len(s) : s[i] = mark}
  IN  IF found = {} THEN 0 ELSE Min(found)

(* strstr for "://". *)
SchemeEnd(s) ==
  LET found == {i \in 1..(Len(s) - 2) : SubSeq(s, i, i + 2) = <<":", "/", "/">>}
  IN  IF found = {} THEN 0 ELSE Min(found)

UpTo(s, i)  == SubSeq(s, 1, i - 1)
After(s, i) == SubSeq(s, i + 1, Len(s))

Atoi(s) == IF s # <<>> /\ Head(s) \in Words THEN Number[Head(s)] ELSE 0

-----------------------------------------------------------------------------
(* The constructor stores the URL only. *)
UrlParser(url) ==
  [url |-> url, protocol |-> <<>>, host |-> <<>>, uri |-> <<>>,
   port |-> Unset, values |-> <<>>]

SetUrl(o, url) ==                    \* m_uri is not cleared
  [o EXCEPT !.url = url, !.protocol = <<>>, !.host = <<>>, !.port = 80, !.values = <<>>]

(***************************************************************************)
(* The loop over the pairs of a query.  A pair begins where the query does *)
(* or behind an "&".  The loop stores pair after pair, the last value of a *)
(* name wins, and stops at the first pair without "=".                     *)
(***************************************************************************)
Starts(query) == {1} \cup {i + 1 : i \in {j \in 1..Len(query) : query[j] = "&"}}

Pair(query, a) ==
  LET cut == FirstOf(query, "&", a)
  IN  SubSeq(query, a, IF cut = 0 THEN Len(query) ELSE cut - 1)

LastEqual(pair) == Max({i \in 1..Len(pair) : pair[i] = "="})  \* mutant of the next
EqualOf(pair)   == FirstOf(pair, "=", 1)

Stops(query) == {a \in Starts(query) : FirstOf(Pair(query, a), "=", 1) = 0}
Put(query)   == {a \in Starts(query) : \A b \in Stops(query) : a < b}

Name(query, a)  == UpTo(Pair(query, a), EqualOf(Pair(query, a)))
Value(query, a) == After(Pair(query, a), EqualOf(Pair(query, a)))

Stored(values, query) ==
  LET names     == {Name(query, a) : a \in Put(query)}
      LastOf(n) == Max({a \in Put(query) : Name(query, a) = n})
  IN  [n \in names \cup DOMAIN values |->
         IF n \in names THEN Value(query, LastOf(n)) ELSE values[n]]

QueryCodeByPair(query) ==            \* mutant: the pair gives the code
  IF Stops(query) = {} THEN 0 ELSE -4 - Min(Stops(query))
QueryCode(query) ==
  CASE Stops(query) = {} -> 0
    [] Stops(query) # {} /\ FirstOf(query, "&", Min(Stops(query))) = 0 -> -4
    [] OTHER -> -5

(***************************************************************************)
(* Parser: a code and the object it leaves.  Where the URL has no "/" the  *)
(* host takes all that is left of it, the port and the query included.     *)
(***************************************************************************)
Result(code, o) == [code |-> code, object |-> o]

WithHost(o, authority) ==
  LET colon == FirstOf(authority, ":", 1)
  IN  IF colon = 0 THEN [o EXCEPT !.host = authority]
      ELSE [o EXCEPT !.host = UpTo(authority, colon), !.port = Atoi(After(authority, colon))]

ParsePath(o, path) ==
  LET mark  == FirstOf(path, "?", 1)
      query == After(path, mark)
  IN  IF mark = 0 THEN Result(0, [o EXCEPT !.uri = path])
      ELSE Result(QueryCode(query),
                  [o EXCEPT !.uri = UpTo(path, mark), !.values = Stored(o.values, query)])

ParseHost(o, rest) ==
  LET slash == FirstOf(rest, "/", 1)
  IN  CASE slash = 0 /\ rest = <<>> -> Result(-2, o)
        [] slash = 0 /\ rest # <<>> -> Result(0, [o EXCEPT !.host = rest])
        [] slash = 1                -> Result(-3, o)
        [] OTHER -> ParsePath(WithHost(o, UpTo(rest, slash)), SubSeq(rest, slash, Len(rest)))

Parser(o) ==
  LET scheme == SchemeEnd(o.url)
  IN  IF scheme = 0 THEN Result(-1, o)
      ELSE ParseHost([o EXCEPT !.protocol = UpTo(o.url, scheme)], After(o.url, scheme + 2))

-----------------------------------------------------------------------------
(***************************************************************************)
(* The reference: how a URL is written from its parts, and the object that *)
(* stands for them.  A port that is not given is <<>>, and default is what *)
(* the object has in place of one.                                         *)
(***************************************************************************)
WrittenUpTo(params) ==
  LET upTo[n \in 0..Len(params)] ==
        IF n = 0 THEN <<>>
        ELSE upTo[n - 1] \o (IF n = 1 THEN <<"?">> ELSE <<"&">>)
               \o params[n][1] \o <<"=">> \o params[n][2]
  IN  upTo
WrittenQuery(params) == WrittenUpTo(params)[Len(params)]

Written(parts) ==
  parts.protocol \o <<":", "/", "/">> \o parts.host
    \o (IF parts.port = <<>> THEN <<>> ELSE <<":">> \o parts.port)
    \o parts.path \o WrittenQuery(parts.params)

Describes(o, parts, default) ==
  /\ o.protocol = parts.protocol /\ o.host = parts.host /\ o.uri = parts.path
  /\ o.port = IF parts.port = <<>> THEN default ELSE Number[Head(parts.port)]
  /\ DOMAIN o.values = {parts.params[i][1] : i \in DOMAIN parts.params}
  /\ \A i \in DOMAIN parts.params :
       \/ o.values[parts.params[i][1]] = parts.params[i][2]
       \/ \E j \in DOMAIN parts.params : j > i /\ parts.params[j][1] = parts.params[i][1]
=============================================================================
