----------------------------- MODULE HttpProofs -----------------------------
(***************************************************************************)
(* What holds of CHttpParser and UrlParser for data and URLs of any        *)
(* length.                                                                 *)
(***************************************************************************)
EXTENDS Http, TLAPS, SequenceTheorems, WellFoundedInduction

-----------------------------------------------------------------------------
(* Numbers. *)

(***************************************************************************)
(* Induction over the natural numbers, as a property of a set: the least   *)
(* number outside the set has a predecessor, which is in it.               *)
(***************************************************************************)
LEMMA SetInduction ==
  ASSUME NEW S, 0 \in S, \A n \in Nat : n \in S => n + 1 \in S
  PROVE  \A n \in Nat : n \in S
  <1> SUFFICES ASSUME Nat \ S # {} PROVE FALSE
    OBVIOUS
  <1>1. PICK x \in Nat \ S : \A y \in Nat \ S : ~ (<<y, x>> \in OpToRel(<, Nat))
    <2>1. Nat \ S \subseteq Nat OBVIOUS
    <2> QED BY <2>1, WFMin, NatLessThanWellFounded
  <1>2. \A y \in Nat \ S : ~ (y < x) BY <1>1 DEF OpToRel
  <1>3. x \in Nat /\ x \notin S BY <1>1
  <1>4. x # 0 /\ x - 1 \in Nat BY <1>3
  <1>5. x - 1 \in S BY <1>2, <1>4
  <1>6. (x - 1) + 1 \in S BY <1>4, <1>5
  <1> QED BY <1>3, <1>6

LEMMA MinIs ==
  ASSUME NEW S \in SUBSET Nat, S # {}
  PROVE  Min(S) \in S /\ \A y \in S : Min(S) <= y
  <1>1. PICK x \in S : \A y \in S : ~ (<<y, x>> \in OpToRel(<, Nat))
    BY WFMin, NatLessThanWellFounded
  <1>2. ASSUME NEW y \in S PROVE x <= y
    <2>1. x \in Nat /\ y \in Nat OBVIOUS
    <2>2. ~ (y < x) BY <1>1, <2>1 DEF OpToRel
    <2> QED BY <2>1, <2>2
  <1> QED BY <1>1, <1>2 DEF Min

-----------------------------------------------------------------------------
(* strchr. *)

LEMMA FirstOfIs ==
  ASSUME NEW s, Len(s) \in Nat, NEW mark, NEW from \in Nat
  PROVE  \/ FirstOf(s, mark, from) = 0 /\ \A i \in from..Len(s) : s[i] # mark
         \/ /\ FirstOf(s, mark, from) \in from..Len(s)
            /\ s[FirstOf(s, mark, from)] = mark
            /\ \A i \in from..(FirstOf(s, mark, from) - 1) : s[i] # mark
  <1> DEFINE found == {i \in from..Len(s) : s[i] = mark}
  <1>1. CASE found = {} BY <1>1 DEF FirstOf
  <1>2. CASE found # {}
    <2>1. Min(found) \in found /\ \A y \in found : Min(found) <= y
      <3>1. found \in SUBSET Nat OBVIOUS
      <3> QED BY <1>2, <3>1, MinIs
    <2>2. FirstOf(s, mark, from) = Min(found) BY <1>2 DEF FirstOf
    <2> HIDE DEF found
    <2>3. FirstOf(s, mark, from) \in from..Len(s) /\ s[FirstOf(s, mark, from)] = mark
      BY <2>1, <2>2 DEF found
    <2>4. ASSUME NEW i \in from..(FirstOf(s, mark, from) - 1) PROVE s[i] # mark
      <3>1. i \in from..Len(s) /\ ~ (Min(found) <= i) BY <2>2, <2>3
      <3> QED BY <2>1, <3>1 DEF found
    <2> QED BY <2>3, <2>4
  <1> QED BY <1>1, <1>2

(* Where a mark is known to be found first. *)
LEMMA FirstOfAt ==
  ASSUME NEW s, Len(s) \in Nat, NEW mark, NEW from \in Nat, from > 0,
         NEW k \in from..Len(s), s[k] = mark, \A i \in from..(k - 1) : s[i] # mark
  PROVE  FirstOf(s, mark, from) = k
  <1> DEFINE f == FirstOf(s, mark, from)
  <1>1. \/ f = 0 /\ \A i \in from..Len(s) : s[i] # mark
        \/ f \in from..Len(s) /\ s[f] = mark /\ \A i \in from..(f - 1) : s[i] # mark
    BY FirstOfIs
  <1> HIDE DEF f
  <1>2. f \in from..Len(s) /\ s[f] = mark /\ \A i \in from..(f - 1) : s[i] # mark BY <1>1
  <1>3. ~ (f < k) BY <1>2
  <1>4. ~ (k < f) BY <1>2
  <1>5. f = k BY <1>2, <1>3, <1>4
  <1> QED BY <1>5 DEF f

LEMMA FirstOfNone ==
  ASSUME NEW s, Len(s) \in Nat, NEW mark, NEW from \in Nat, from > 0,
         \A i \in from..Len(s) : s[i] # mark
  PROVE  FirstOf(s, mark, from) = 0
  BY FirstOfIs

-----------------------------------------------------------------------------
(* The library. *)

Phases == {m[1] : m \in Moves}
Strings == STRING \cup {""}    \* the provers do not know that "" is a string
Headers == UNION {[D -> Strings] : D \in SUBSET Strings}

Parsers ==
  [phase : Phases, errno : {"ok", "bad", "0x7F"}, taken : Nat, span : Seq(Text),
   method : {"GET", "POST"}, url : Seq(Text), headers : Headers, lastField : Strings,
   body : Strings, complete : BOOLEAN]

LEMMA TokenFacts ==
  ASSUME NEW t \in Tokens
  PROVE  /\ t[1] = "method" => t[2] \in {"GET", "POST"}
         /\ t[1] = "url" => t[2] \in Text
         /\ t[1] \notin {"method", "url"} => t[2] \in Strings
  BY DEF Tokens, Strings

LEMMA MovedIs ==
  ASSUME NEW o \in Parsers, NEW t \in Tokens, Fits(o, t)
  PROVE  /\ Moved(o, t) \in Parsers
         /\ Moved(o, t).taken = o.taken + 1 /\ Moved(o, t).complete = o.complete
         /\ Moved(o, t).errno = o.errno
  <1> DEFINE m == CHOOSE m \in Moves : m[1] = o.phase /\ m[2] = t[1]
  <1>1. m \in Moves BY DEF Fits
  <1> HIDE DEF m
  <1>2. m[3] \in Phases BY <1>1 DEF Phases, Moves
  <1>3. Moved(o, t) = [o EXCEPT !.phase = m[3], !.taken = o.taken + 1] BY DEF Moved, m
  <1>4. DOMAIN o = {"phase", "errno", "taken", "span", "method", "url", "headers", "lastField",
                    "body", "complete"}
    BY DEF Parsers
  <1>5. o.taken + 1 \in Nat BY DEF Parsers
  <1>6. Moved(o, t) \in Parsers BY <1>2, <1>3, <1>5 DEF Parsers
  <1> QED BY <1>3, <1>4, <1>6

LEMMA CallbackIs ==
  ASSUME NEW o \in Parsers, NEW t \in Tokens
  PROVE  /\ Callback(o, t) \in Parsers
         /\ Callback(o, t).taken = o.taken /\ Callback(o, t).errno = o.errno
         /\ Callback(o, t).complete = (o.complete \/ t[1] \in {"blank", "last"})
  <1> USE TokenFacts DEF Parsers
  <1>1. CASE t[1] = "method"
    <2>1. Callback(o, t) = [o EXCEPT !.method = t[2], !.span = <<>>]
      BY <1>1 DEF Callback, OnMessageBegin
    <2>2. t[2] \in {"GET", "POST"} /\ <<>> \in Seq(Text) BY <1>1
    <2> QED BY <1>1, <2>1, <2>2
  <1>2. CASE t[1] = "url"
    <2>1. Append(o.span, t[2]) \in Seq(Text) BY <1>2
    <2> QED BY <1>2, <2>1 DEF Callback, OnUrl
  <1>3. CASE t[1] = "field" BY <1>3 DEF Callback, OnHeaderField
  <1>4. CASE t[1] = "value"
    <2> DEFINE h == [f \in DOMAIN o.headers \cup {o.lastField} |->
                       IF f = o.lastField THEN t[2] ELSE o.headers[f]]
    <2>1. h \in Headers
      <3>1. PICK D \in SUBSET Strings : o.headers \in [D -> Strings] BY DEF Headers
      <3>2. h \in [D \cup {o.lastField} -> Strings] BY <1>4, <3>1
      <3>3. D \cup {o.lastField} \in SUBSET Strings BY <3>1
      <3> QED BY <3>2, <3>3 DEF Headers
    <2> QED BY <1>4, <2>1 DEF Callback, OnHeaderValue
  <1>5. CASE t[1] = "chunk" BY <1>5 DEF Callback, OnBody
  <1>6. CASE t[1] \in {"blank", "last"} BY <1>6 DEF Callback, OnMessageComplete
  <1>7. CASE t[1] \notin {"method", "url", "field", "value", "chunk", "blank", "last"}
    BY <1>7 DEF Callback
  <1> QED BY <1>1, <1>2, <1>3, <1>4, <1>5, <1>6, <1>7

LEMMA TakeIs ==
  ASSUME NEW o \in Parsers, NEW t \in Tokens
  PROVE  /\ Take(o, t) \in Parsers
         /\ o.errno # "ok" => Take(o, t) = o
         /\ Take(o, t).errno = "ok" => Take(o, t).taken = o.taken + 1
         /\ \/ Take(o, t).taken = o.taken /\ Take(o, t).complete = o.complete
            \/ /\ o.errno = "ok" /\ Take(o, t).taken = o.taken + 1
               /\ Take(o, t).complete = (o.complete \/ t[1] \in {"blank", "last"})
  <1>1. CASE o.errno # "ok" BY <1>1 DEF Take
  <1>2. CASE o.errno = "ok" /\ Fits(o, t)
    <2>1. Take(o, t) = Callback(Moved(o, t), t) BY <1>2 DEF Take
    <2> QED BY <1>2, <2>1, MovedIs, CallbackIs
  <1>3. CASE o.errno = "ok" /\ ~Fits(o, t)
    <2>1. Take(o, t) = [o EXCEPT !.errno = "bad"] BY <1>3 DEF Take
    <2> QED BY <1>3, <2>1 DEF Parsers
  <1> QED BY <1>1, <1>2, <1>3

LEMMA BegunIs ==
  ASSUME NEW o \in Parsers
  PROVE  /\ Begun(o) \in Parsers /\ Begun(o).taken = 0
         /\ \A f \in {"errno", "method", "url", "headers", "body", "complete"} : Begun(o)[f] = o[f]
  <1>1. <<>> \in Seq(Text) OBVIOUS
  <1>2. DOMAIN o = {"phase", "errno", "taken", "span", "method", "url", "headers", "lastField",
                    "body", "complete"}
    BY DEF Parsers
  <1>3. Begun(o) \in Parsers BY <1>1 DEF Begun, Parsers
  <1> QED BY <1>2, <1>3 DEF Begun

(***************************************************************************)
(* The recursive function Run exists: it does on 0..m for every m.         *)
(***************************************************************************)
RunsTo(f, o, data, m) ==
  f = [n \in 0..m |-> IF n = 0 THEN Begun(o) ELSE Take(f[n - 1], data[n])]

LEMMA RunIs ==
  ASSUME NEW o, NEW data, Len(data) \in Nat
  PROVE  RunsTo(Run(o, data), o, data, Len(data))
  <1> DEFINE S == {m \in Nat : \E f : RunsTo(f, o, data, m)}
  <1>1. 0 \in S
    <2>1. RunsTo([n \in 0..0 |-> Begun(o)], o, data, 0) BY DEF RunsTo
    <2> QED BY <2>1
  <1>2. ASSUME NEW m \in Nat, m \in S PROVE m + 1 \in S
    <2>1. PICK f : RunsTo(f, o, data, m) BY <1>2
    <2> DEFINE g == [n \in 0..(m + 1) |-> IF n = m + 1 THEN Take(f[m], data[m + 1]) ELSE f[n]]
    <2>2. g = [n \in 0..(m + 1) |-> IF n = 0 THEN Begun(o) ELSE Take(g[n - 1], data[n])]
      BY <2>1 DEF RunsTo
    <2> HIDE DEF g
    <2>3. RunsTo(g, o, data, m + 1) BY <2>2 DEF RunsTo
    <2> QED BY <1>2, <2>3
  <1> HIDE DEF S
  <1>3. Len(data) \in S BY <1>1, <1>2, SetInduction
  <1>4. \E f : RunsTo(f, o, data, Len(data)) BY <1>3 DEF S
  <1> QED BY <1>4 DEF Run, RunsTo

Ends(data, n) == \E i \in 1..n : data[i][1] \in {"blank", "last"}

(***************************************************************************)
(* What the library has done when it has seen n tokens: it has taken them  *)
(* up to the first that does not fit, and has completed a request only if  *)
(* it has taken its end.                                                   *)
(***************************************************************************)
LEMMA RunFacts ==
  ASSUME NEW o \in Parsers, o.complete = FALSE, NEW data \in Seq(Tokens), NEW n \in 0..Len(data)
  PROVE  LET e == Run(o, data)[n]
         IN  /\ e \in Parsers /\ e.taken \in 0..n
             /\ e.errno = "ok" => e.taken = n
             /\ e.complete => Ends(data, e.taken)
             /\ o.errno # "ok" => e = Begun(o)
  <1> DEFINE Good(e, k) == /\ e \in Parsers /\ e.taken \in 0..k
                           /\ e.errno = "ok" => e.taken = k
                           /\ e.complete => Ends(data, e.taken)
                           /\ o.errno # "ok" => e = Begun(o)
             S == {k \in Nat : k <= Len(data) => Good(Run(o, data)[k], k)}
  <1>1. Len(data) \in Nat OBVIOUS
  <1>2. RunsTo(Run(o, data), o, data, Len(data)) BY <1>1, RunIs
  <1>3. 0 \in S
    <2>1. Run(o, data)[0] = Begun(o) BY <1>1, <1>2 DEF RunsTo
    <2>2. Good(Begun(o), 0) BY BegunIs
    <2> QED BY <2>1, <2>2
  <1>4. ASSUME NEW k \in Nat, k \in S PROVE k + 1 \in S
    <2> SUFFICES ASSUME k + 1 <= Len(data) PROVE Good(Run(o, data)[k + 1], k + 1)
      OBVIOUS
    <2> DEFINE e == Run(o, data)[k]  t == data[k + 1]
    <2>1. Good(e, k) BY <1>1, <1>4
    <2>2. Run(o, data)[k + 1] = Take(e, t)
      <3>1. k + 1 \in 0..Len(data) /\ k + 1 # 0 /\ (k + 1) - 1 = k BY <1>1
      <3> QED BY <1>2, <3>1 DEF RunsTo
    <2>3. t \in Tokens BY <1>1
    <2> HIDE DEF e, t
    <2>4. Good(Take(e, t), k + 1)
      <3>1. Take(e, t) \in Parsers /\ Take(e, t).taken \in 0..(k + 1) BY <2>1, <2>3, TakeIs
      <3>2. Take(e, t).errno = "ok" => Take(e, t).taken = k + 1
        BY <2>1, <2>3, TakeIs
      <3>3. Take(e, t).complete => Ends(data, Take(e, t).taken)
        <4>1. CASE Take(e, t).taken = e.taken /\ Take(e, t).complete = e.complete BY <2>1, <4>1
        <4>2. CASE /\ e.errno = "ok" /\ Take(e, t).taken = e.taken + 1
                   /\ Take(e, t).complete = (e.complete \/ t[1] \in {"blank", "last"})
          <5>1. e.taken = k BY <2>1, <4>2
          <5>2. t[1] \in {"blank", "last"} => Ends(data, k + 1) BY DEF Ends, t
          <5>3. e.complete => Ends(data, k + 1) BY <2>1, <5>1 DEF Ends
          <5> QED BY <4>2, <5>1, <5>2, <5>3
        <4> QED BY <2>1, <2>3, <4>1, <4>2, TakeIs
      <3>4. o.errno # "ok" => Take(e, t) = Begun(o)
        <4>1. Begun(o).errno = o.errno BY BegunIs
        <4> QED BY <2>1, <2>3, <4>1, TakeIs
      <3> QED BY <3>1, <3>2, <3>3, <3>4
    <2> QED BY <2>2, <2>4
  <1> HIDE DEF S
  <1>5. n \in S BY <1>3, <1>4, SetInduction
  <1> QED BY <1>5 DEF S

-----------------------------------------------------------------------------
(* CHttpParser::Parser. *)

Kept == {"method", "url", "headers", "body"}

LEMMA ParsedIs ==
  ASSUME NEW o \in Parsers, NEW data \in Seq(Tokens)
  PROVE  LET r == Parsed(o, data)
         IN  /\ r.object \in Parsers /\ r.object.taken \in 0..Len(data) /\ r.size \in Nat
             /\ r.size # 0 => r.size = r.object.taken /\ Ends(data, r.size)
             /\ r.size = 0 => r.object.errno # "ok"
             /\ o.errno # "ok" => r.size = 0 /\ \A f \in Kept : r.object[f] = o[f]
  <1> DEFINE e == Execute(Reset(o), data)
  <1>1. /\ Reset(o) \in Parsers /\ Reset(o).complete = FALSE
        /\ \A f \in Kept \cup {"errno"} : Reset(o)[f] = o[f]
    BY DEF Reset, Parsers, Kept
  <1>2. Len(data) \in 0..Len(data)
    <2>1. Len(data) \in Nat OBVIOUS
    <2> QED BY <2>1
  <1>3. /\ e \in Parsers /\ e.taken \in 0..Len(data)
        /\ e.complete => Ends(data, e.taken)
        /\ Reset(o).errno # "ok" => e = Begun(Reset(o))
    BY <1>1, <1>2, RunFacts DEF Execute
  <1>4. o.errno # "ok" => ~e.complete /\ \A f \in Kept : e[f] = o[f]
    BY <1>1, <1>3, BegunIs DEF Kept
  <1> HIDE DEF e
  <1>5. CASE e.complete
    <2>1. Parsed(o, data).object = e /\ Parsed(o, data).size = e.taken
      BY <1>5 DEF Parsed, e
    <2>2. e.taken \in Nat /\ e.taken # 0 BY <1>3, <1>5 DEF Ends
    <2> QED BY <1>3, <1>4, <1>5, <2>1, <2>2
  <1>6. CASE ~e.complete
    <2>1. Parsed(o, data).object = Refused(e) /\ Parsed(o, data).size = 0
      BY <1>6 DEF Parsed, e
    <2>2. /\ Refused(e) \in Parsers /\ Refused(e).taken = e.taken /\ Refused(e).errno = "0x7F"
          /\ \A f \in Kept : Refused(e)[f] = e[f]
      BY <1>3 DEF Refused, Parsers, Kept
    <2> QED BY <1>3, <1>4, <2>1, <2>2
  <1>7. e.complete \in BOOLEAN BY <1>3 DEF Parsers
  <1> QED BY <1>5, <1>6, <1>7

-----------------------------------------------------------------------------
(* Cutting a sequence. *)

LEMMA SchemeEndIs ==
  ASSUME NEW s, Len(s) \in Nat
  PROVE  SchemeEnd(s) \in Nat
  <1> DEFINE found == {i \in 1..(Len(s) - 2) : SubSeq(s, i, i + 2) = <<":", "/", "/">>}
  <1>1. found \in SUBSET Nat OBVIOUS
  <1>2. found # {} => Min(found) \in found BY <1>1, MinIs
  <1> QED BY <1>1, <1>2 DEF SchemeEnd

(***************************************************************************)
(* A sequence that is cut where a mark is first found falls into what was  *)
(* written before the mark and behind it.                                  *)
(***************************************************************************)
LEMMA BehindConcat ==
  ASSUME NEW S, NEW a \in Seq(S), NEW b \in Seq(S)
  PROVE  SubSeq(a \o b, Len(a) + 1, Len(a \o b)) = b
  <1>1. /\ a \o b \in Seq(S) /\ Len(a \o b) = Len(a) + Len(b)
        /\ Len(a) \in Nat /\ Len(b) \in Nat
        /\ \A i \in 1..(Len(a) + Len(b)) : (a \o b)[i] = IF i <= Len(a) THEN a[i] ELSE b[i - Len(a)]
    BY ConcatProperties, LenProperties
  <1> DEFINE c == SubSeq(a \o b, Len(a) + 1, Len(a) + Len(b))
  <1>2. \A i \in (Len(a) + 1)..(Len(a) + Len(b)) : (a \o b)[i] \in S
    BY <1>1, ElementOfSeq
  <1>3. /\ c \in Seq(S)
        /\ Len(c) = IF Len(a) + 1 <= Len(a) + Len(b) THEN Len(a) + Len(b) - (Len(a) + 1) + 1 ELSE 0
        /\ \A i \in 1..(Len(a) + Len(b) - (Len(a) + 1) + 1) : c[i] = (a \o b)[Len(a) + 1 + i - 1]
    BY <1>1, <1>2, SubSeqProperties
  <1>4. Len(c) = Len(b) BY <1>1, <1>3
  <1>5. ASSUME NEW i \in 1..Len(c) PROVE c[i] = b[i]
    <2>1. i \in 1..Len(b) /\ Len(a) + 1 + i - 1 = Len(a) + i BY <1>1, <1>4
    <2>2. c[i] = (a \o b)[Len(a) + i] BY <1>1, <1>3, <2>1
    <2>3. Len(a) + i \in 1..(Len(a) + Len(b)) /\ ~(Len(a) + i <= Len(a)) /\ Len(a) + i - Len(a) = i
      BY <1>1, <2>1
    <2> QED BY <1>1, <2>2, <2>3
  <1> HIDE DEF c
  <1>6. c = b BY <1>3, <1>4, <1>5, SeqEqual
  <1> QED BY <1>1, <1>6 DEF c

LEMMA CutAt ==
  ASSUME NEW S, NEW a \in Seq(S), NEW b \in Seq(S), NEW mark \in S,
         \A i \in 1..Len(a) : a[i] # mark
  PROVE  LET s == a \o <<mark>> \o b
         IN  /\ s \in Seq(S)
             /\ FirstOf(s, mark, 1) = Len(a) + 1 /\ Len(a) + 1 # 0
             /\ UpTo(s, Len(a) + 1) = a /\ After(s, Len(a) + 1) = b
             /\ SubSeq(s, Len(a) + 1, Len(s)) = <<mark>> \o b
  <1> DEFINE m == <<mark>>  s == a \o m \o b
  <1>1. m \in Seq(S) /\ Len(m) = 1 /\ m[1] = mark OBVIOUS
  <1>2. /\ a \o m \in Seq(S) /\ m \o b \in Seq(S) /\ s \in Seq(S)
        /\ Len(a) \in Nat /\ Len(b) \in Nat /\ Len(s) \in Nat
        /\ Len(a \o m) = Len(a) + 1 /\ Len(s) = Len(a) + 1 + Len(b)
    BY <1>1, ConcatProperties, LenProperties
  <1>3. s = a \o (m \o b) BY <1>1, ConcatAssociative
  <1>4. \A i \in 1..Len(a) : s[i] = a[i]
    BY <1>1, <1>2, <1>3, ConcatProperties
  <1>5. s[Len(a) + 1] = mark
    <2>1. (a \o m)[Len(a) + 1] = mark BY <1>1, <1>2, ConcatProperties
    <2>2. Len(a) + 1 \in 1..(Len(a \o m) + Len(b)) /\ Len(a) + 1 <= Len(a \o m) BY <1>2
    <2> QED BY <1>2, <2>1, <2>2, ConcatProperties
  <1> HIDE DEF s
  <1>6. FirstOf(s, mark, 1) = Len(a) + 1
    <2>1. Len(a) + 1 \in 1..Len(s) /\ \A i \in 1..(Len(a) + 1 - 1) : s[i] # mark
      BY <1>2, <1>4
    <2>2. Len(s) \in Nat /\ 1 \in Nat /\ 1 > 0 BY <1>2
    <2> QED BY <1>5, <2>1, <2>2, FirstOfAt
  <1>7. UpTo(s, Len(a) + 1) = a
    <2> DEFINE c == SubSeq(s, 1, Len(a))
    <2>1. \A i \in 1..Len(a) : s[i] \in S BY <1>4, ElementOfSeq
    <2>2. /\ c \in Seq(S) /\ Len(c) = IF 1 <= Len(a) THEN Len(a) - 1 + 1 ELSE 0
          /\ \A i \in 1..(Len(a) - 1 + 1) : c[i] = s[1 + i - 1]
      BY <1>2, <2>1, SubSeqProperties
    <2>3. Len(c) = Len(a) BY <1>2, <2>2
    <2>4. ASSUME NEW i \in 1..Len(a) PROVE c[i] = a[i]
      <3>1. i \in 1..(Len(a) - 1 + 1) /\ 1 + i - 1 = i BY <1>2
      <3> QED BY <1>4, <2>2, <3>1
    <2> HIDE DEF c
    <2>5. c = a BY <2>2, <2>3, <2>4, SeqEqual
    <2>6. Len(a) + 1 - 1 = Len(a) BY <1>2
    <2> QED BY <2>5, <2>6 DEF UpTo, c
  <1>8. After(s, Len(a) + 1) = b
    <2>1. SubSeq((a \o m) \o b, Len(a \o m) + 1, Len((a \o m) \o b)) = b BY <1>2, BehindConcat
    <2> QED BY <1>2, <2>1 DEF After, s
  <1>9. SubSeq(s, Len(a) + 1, Len(s)) = m \o b
    <2>1. SubSeq(a \o (m \o b), Len(a) + 1, Len(a \o (m \o b))) = m \o b BY <1>2, BehindConcat
    <2> QED BY <1>3, <2>1
  <1> QED BY <1>2, <1>6, <1>7, <1>8, <1>9 DEF s

-----------------------------------------------------------------------------
(* UrlParser::Parser: what it returns and leaves alone. *)

LinkFields == {"url", "protocol", "host", "uri", "port", "values"}
Ports      == Int \cup {Unset}

LEMMA WithHostIs ==
  ASSUME NEW o, DOMAIN o = LinkFields, NEW authority
  PROVE  LET h == WithHost(o, authority)
         IN  /\ DOMAIN h = LinkFields
             /\ \A f \in LinkFields \ {"host", "port"} : h[f] = o[f]
             /\ h.port = o.port \/ h.port \in Int
  <1>1. Atoi(After(authority, FirstOf(authority, ":", 1))) \in Int
    BY NumberAssumption DEF Atoi
  <1> QED BY <1>1 DEF WithHost, LinkFields

LEMMA ParsePathIs ==
  ASSUME NEW o, DOMAIN o = LinkFields, NEW path
  PROVE  LET r == ParsePath(o, path)
         IN  /\ DOMAIN r.object = LinkFields /\ r.code \in {0, -4, -5}
             /\ \A f \in LinkFields \ {"uri", "values"} : r.object[f] = o[f]
  <1>1. QueryCode(After(path, FirstOf(path, "?", 1))) \in {0, -4, -5} BY DEF QueryCode
  <1> QED BY <1>1 DEF ParsePath, Result, LinkFields

LEMMA ParserIs ==
  ASSUME NEW o, DOMAIN o = LinkFields, o.port \in Ports
  PROVE  LET r == Parser(o)
         IN  /\ DOMAIN r.object = LinkFields /\ r.object.port \in Ports
             /\ r.object.url = o.url /\ r.code \in {0, -1, -2, -3, -4, -5}
  <1> DEFINE scheme == SchemeEnd(o.url)
             o1 == [o EXCEPT !.protocol = UpTo(o.url, scheme)]
             rest == After(o.url, scheme + 2)
             slash == FirstOf(rest, "/", 1)
             o2 == WithHost(o1, UpTo(rest, slash))
             path == SubSeq(rest, slash, Len(rest))
  <1>1. DOMAIN o1 = LinkFields /\ o1.port = o.port /\ o1.url = o.url BY DEF LinkFields
  <1> HIDE DEF o1
  <1>2. /\ DOMAIN [o1 EXCEPT !.host = rest] = LinkFields /\ [o1 EXCEPT !.host = rest].port = o.port
        /\ [o1 EXCEPT !.host = rest].url = o.url
    BY <1>1 DEF LinkFields
  <1>3. /\ DOMAIN o2 = LinkFields /\ o2.port \in Ports /\ o2.url = o.url
    BY <1>1, WithHostIs DEF LinkFields, Ports
  <1> HIDE DEF o2
  <1>4. /\ DOMAIN ParsePath(o2, path).object = LinkFields
        /\ ParsePath(o2, path).object.port \in Ports /\ ParsePath(o2, path).object.url = o.url
        /\ ParsePath(o2, path).code \in {0, -4, -5}
    BY <1>3, ParsePathIs DEF LinkFields
  <1> HIDE DEF path
  <1>5. CASE scheme = 0 BY <1>5 DEF Parser, Result
  <1>6. CASE scheme # 0
    <2>1. Parser(o) = ParseHost(o1, rest) BY <1>6 DEF Parser, o1
    <2>2. CASE slash = 0 /\ rest = <<>> BY <1>1, <2>1, <2>2 DEF ParseHost, Result
    <2>3. CASE slash = 0 /\ rest # <<>> BY <1>2, <2>1, <2>3 DEF ParseHost, Result
    <2>4. CASE slash = 1 BY <1>1, <2>1, <2>4 DEF ParseHost, Result
    <2>5. CASE slash \notin {0, 1}
      <3>1. Parser(o) = ParsePath(o2, path) BY <2>1, <2>5 DEF ParseHost, o2, path
      <3> QED BY <1>4, <3>1
    <2> QED BY <2>2, <2>3, <2>4, <2>5
  <1> QED BY <1>5, <1>6

(***************************************************************************)
(* A path begins with the slash it was found by.                           *)
(***************************************************************************)
LEMMA PathsBeginWithSlash ==
  ASSUME NEW o, DOMAIN o = LinkFields, NEW path \in Seq(Text), path # <<>>, path[1] = "/"
  PROVE  LET uri == ParsePath(o, path).object.uri IN uri # <<>> /\ uri[1] = "/"
  <1> DEFINE mark == FirstOf(path, "?", 1)
  <1>1. Len(path) \in Nat /\ Len(path) >= 1 OBVIOUS
  <1>2. CASE mark = 0 BY <1>2 DEF ParsePath, Result, LinkFields
  <1>3. CASE mark # 0
    <2>1. mark \in 1..Len(path) /\ path[mark] = "?" BY <1>1, <1>3, FirstOfIs
    <2>2. mark # 1 /\ mark - 1 >= 1 BY <1>1, <2>1
    <2>3. UpTo(path, mark) # <<>> /\ UpTo(path, mark)[1] = "/"
      <3>1. \A i \in 1..(mark - 1) : path[i] \in Text BY <1>1, <2>1, ElementOfSeq
      <3>2. /\ Len(SubSeq(path, 1, mark - 1)) = mark - 1 - 1 + 1
            /\ SubSeq(path, 1, mark - 1) \in Seq(Text)
            /\ SubSeq(path, 1, mark - 1)[1] = path[1 + 1 - 1]
        BY <2>1, <2>2, <3>1, SubSeqProperties
      <3> QED BY <2>1, <2>2, <3>2 DEF UpTo
    <2>4. ParsePath(o, path).object.uri = UpTo(path, mark)
      BY <1>3 DEF ParsePath, Result, LinkFields
    <2> QED BY <2>3, <2>4
  <1> QED BY <1>2, <1>3

LEMMA NoLogin ==
  ASSUME NEW url \in Seq(Text)
  PROVE  ~IsLogin(Parser(UrlParser(url)).object.uri)
  <1> DEFINE o == UrlParser(url)
             scheme == SchemeEnd(url)
             o1 == [o EXCEPT !.protocol = UpTo(url, scheme)]
             rest == After(url, scheme + 2)
             slash == FirstOf(rest, "/", 1)
             o2 == WithHost(o1, UpTo(rest, slash))
             path == SubSeq(rest, slash, Len(rest))
  <1>0. <<>> # <<"login">> /\ <<"login">>[1] # "/" OBVIOUS
  <1>1. DOMAIN o = LinkFields /\ o.uri = <<>> /\ o.url = url BY DEF UrlParser, LinkFields
  <1>2. DOMAIN o1 = LinkFields /\ o1.uri = <<>> BY <1>1 DEF LinkFields
  <1>3. rest \in Seq(Text) /\ Len(rest) \in Nat
    <2>1. scheme \in Nat /\ Len(url) \in Nat BY SchemeEndIs, LenProperties
    <2>2. \A i \in (scheme + 2 + 1)..Len(url) : url[i] \in Text BY <2>1, ElementOfSeq
    <2>3. rest \in Seq(Text) BY <2>1, <2>2, SubSeqProperties DEF After
    <2> QED BY <2>3, LenProperties
  <1> HIDE DEF o, o1, rest
  <1>4. CASE scheme = 0 BY <1>0, <1>1, <1>4 DEF Parser, Result, IsLogin, o
  <1>5. CASE scheme # 0
    <2>1. Parser(o) = ParseHost(o1, rest) BY <1>1, <1>5 DEF Parser, o1, rest
    <2>2. CASE slash \in {0, 1}
      <3>1. Parser(o).object.uri = <<>>
        BY <1>2, <2>1, <2>2 DEF ParseHost, Result, LinkFields
      <3> QED BY <1>0, <3>1 DEF IsLogin, o
    <2>3. CASE slash \notin {0, 1}
      <3>1. slash \in 1..Len(rest) /\ rest[slash] = "/" BY <1>3, <2>3, FirstOfIs
      <3>2. path \in Seq(Text) /\ path # <<>> /\ path[1] = "/"
        <4>1. \A i \in slash..Len(rest) : rest[i] \in Text BY <1>3, <3>1, ElementOfSeq
        <4>2. /\ path \in Seq(Text) /\ Len(path) = Len(rest) - slash + 1
              /\ path[1] = rest[slash + 1 - 1]
          BY <1>3, <3>1, <4>1, SubSeqProperties
        <4> QED BY <1>3, <3>1, <4>2
      <3>3. DOMAIN o2 = LinkFields BY <1>2, WithHostIs
      <3>4. Parser(o) = ParsePath(o2, path) BY <2>1, <2>3 DEF ParseHost
      <3> HIDE DEF o2, path
      <3>5. Parser(o).object.uri[1] = "/" BY <3>2, <3>3, <3>4, PathsBeginWithSlash
      <3> QED BY <1>0, <3>5 DEF IsLogin, o
    <2> QED BY <2>2, <2>3
  <1> QED BY <1>4, <1>5

-----------------------------------------------------------------------------
(***************************************************************************)
(* The inductive invariant but for what a URL comes apart into: Objects    *)
(* are the types, Poisoned says that a call that returned 0 left an error. *)
(***************************************************************************)
Objects ==
  /\ parser \in Parsers /\ size \in Nat
  /\ fed \in Seq(Seq(Tokens)) /\ Len(fed) <= MaxFed
  /\ answer \in {"none", "-1", "-2", "-7", "login"}
  /\ DOMAIN link = LinkFields /\ link.url \in Urls \cup {<<>>} /\ link.port \in Ports
  /\ isSet \in BOOLEAN
  /\ code \in {Unset, 0, -1, -2, -3, -4, -5}

NoLoginYet == answer # "login"
Poisoned == fed # <<>> /\ size = 0 => parser.errno # "ok"

HttpInv == Objects /\ SizeMeansComplete /\ NoLoginYet /\ Poisoned

LEMMA NewParser == CHttpParser \in Parsers
  <1>1. <<>> \in Seq(Text) /\ {} \in SUBSET Strings OBVIOUS
  <1>2. <<>> \in [{} -> Strings] OBVIOUS
  <1>3. <<>> \in Headers BY <1>1, <1>2 DEF Headers
  <1>4. "start" \in Phases BY DEF Phases, Moves
  <1>5. "ok" \in {"ok", "bad", "0x7F"} /\ "GET" \in {"GET", "POST"} /\ "" \in Strings
    BY DEF Strings
  <1> HIDE DEF Headers, Phases
  <1> QED BY <1>1, <1>3, <1>4, <1>5 DEF CHttpParser, Parsers

LEMMA NewLinkIs ==
  ASSUME NEW url
  PROVE  /\ DOMAIN UrlParser(url) = LinkFields /\ UrlParser(url).url = url
         /\ UrlParser(url).port \in Ports /\ UrlParser(url).values = <<>>
  BY DEF UrlParser, LinkFields, Ports

LEMMA SetUrlIs ==
  ASSUME NEW o, DOMAIN o = LinkFields, NEW url
  PROVE  /\ DOMAIN SetUrl(o, url) = LinkFields /\ SetUrl(o, url).url = url
         /\ SetUrl(o, url).port = 80 /\ SetUrl(o, url).values = <<>>
  BY DEF SetUrl, LinkFields

LEMMA AnswerIs ==
  ASSUME NEW data \in Seq(Tokens)
  PROVE  Answer(data) \in {"-1", "-2", "-7"}
  <1> DEFINE p == Parsed(CHttpParser, data)
             l == Parser(UrlParser(Address \o p.object.url))
  <1>1. p.object.url \in Seq(Text) BY NewParser, ParsedIs DEF Parsers
  <1> HIDE DEF p
  <1>2. Address \o p.object.url \in Seq(Text) BY <1>1, AddressAssumption, ConcatProperties
  <1>3. ~IsLogin(l.object.uri) BY <1>2, NoLogin
  <1> QED BY <1>3 DEF Answer, p

LEMMA TakenIs ==
  ASSUME NEW data \in Seq(Tokens), NEW n \in 0..Len(data)
  PROVE  LET last == SubSeq(data, 1, n)
         IN  /\ last \in Seq(Tokens) /\ Len(last) = n
             /\ \A i \in 1..n : last[i] = data[i]
  <1> DEFINE last == SubSeq(data, 1, n)
  <1>1. n \in Nat /\ \A i \in 1..n : data[i] \in Tokens BY LenProperties, ElementOfSeq
  <1>2. /\ last \in Seq(Tokens)
        /\ Len(last) = IF 1 <= n THEN n - 1 + 1 ELSE 0
        /\ \A i \in 1..(n - 1 + 1) : last[i] = data[1 + i - 1]
    BY <1>1, SubSeqProperties
  <1> QED BY <1>1, <1>2

LEMMA FeedIs ==
  ASSUME HttpInv, NEW data \in Chunks, Feed(data)
  PROVE  HttpInv' /\ (fed # <<>> /\ size = 0 =>
                        size' = 0 /\ \A f \in Kept : parser'[f] = parser[f])
  <1>1. parser \in Parsers /\ data \in Seq(Tokens)
    BY ChunksAssumption DEF HttpInv, Objects
  <1> DEFINE last == SubSeq(data, 1, parser'.taken)
  <1>2. /\ parser' \in Parsers /\ parser'.taken \in 0..Len(data) /\ size' \in Nat
        /\ size' # 0 => size' = parser'.taken /\ Ends(data, size')
        /\ size' = 0 => parser'.errno # "ok"
        /\ parser.errno # "ok" => size' = 0 /\ \A f \in Kept : parser'[f] = parser[f]
    BY <1>1, ParsedIs DEF Feed
  <1>3. fed' = Append(fed, last) /\ UNCHANGED <<answer, linkVars>> /\ Len(fed) < MaxFed BY DEF Feed
  <1>4. /\ last \in Seq(Tokens) /\ Len(last) = parser'.taken
        /\ \A i \in 1..parser'.taken : last[i] = data[i]
    BY <1>1, <1>2, TakenIs
  <1> HIDE DEF last
  <1>5. /\ fed' \in Seq(Seq(Tokens)) /\ Len(fed') = Len(fed) + 1 /\ Last(fed') = last
        /\ Len(fed) \in Nat
    BY <1>3, <1>4, AppendProperties DEF HttpInv, Objects, Last
  <1>6. Objects' BY <1>2, <1>3, <1>5, MaxFedAssumption DEF HttpInv, Objects, linkVars
  <1>7. SizeMeansComplete'
    <2> SUFFICES ASSUME size' # 0
                 PROVE  \E i \in DOMAIN last : last[i][1] \in {"blank", "last"}
      BY <1>5 DEF SizeMeansComplete
    <2>1. size' = parser'.taken /\ Ends(data, size') BY <1>2
    <2>2. PICK i \in 1..size' : data[i][1] \in {"blank", "last"} BY <2>1 DEF Ends
    <2>3. i \in DOMAIN last /\ last[i] = data[i] BY <1>4, <2>1, LenProperties
    <2> QED BY <1>4, <2>1, <2>2, <2>3
  <1> QED BY <1>2, <1>3, <1>6, <1>7 DEF HttpInv, Poisoned, NoLoginYet

LEMMA HttpStep == HttpInv /\ [Next]_vars => HttpInv'
  <1> SUFFICES ASSUME HttpInv, [Next]_vars PROVE HttpInv'
    OBVIOUS
  <1> USE DEF HttpInv, Objects, SizeMeansComplete, NoLoginYet, Poisoned
  <1>1. CASE UNCHANGED vars BY <1>1 DEF vars, parserVars, linkVars
  <1>2. ASSUME NEW data \in Chunks, Feed(data) PROVE HttpInv'
    BY <1>2, FeedIs
  <1>3. ASSUME NEW data \in Chunks, Serve(data) PROVE HttpInv'
    <2>1. Answer(data) \in {"-1", "-2", "-7"} BY ChunksAssumption, AnswerIs
    <2> QED BY <1>3, <2>1 DEF Serve, parserVars, linkVars
  <1>4. ASSUME NEW url \in Urls, NewLink(url) PROVE HttpInv'
    BY <1>4, NewLinkIs DEF NewLink, parserVars
  <1>5. ASSUME NEW url \in Urls, SetLink(url) PROVE HttpInv'
    <2>1. 80 \in Ports BY DEF Ports
    <2> QED BY <1>5, <2>1, SetUrlIs DEF SetLink, parserVars
  <1>6. CASE ParseLink
    BY <1>6, ParserIs DEF ParseLink, parserVars
  <1> QED BY <1>1, <1>2, <1>3, <1>4, <1>5, <1>6 DEF Next

(***************************************************************************)
(* Whatever the sequence of pieces and of URLs, HttpInv holds.             *)
(***************************************************************************)
THEOREM HttpInvHolds == Spec => []HttpInv
  <1>1. Init => HttpInv
    <2> SUFFICES ASSUME Init PROVE HttpInv
      OBVIOUS
    <2>1. fed \in Seq(Seq(Tokens)) /\ Len(fed) <= MaxFed
      BY EmptySeq, MaxFedAssumption DEF Init
    <2>2. DOMAIN link = LinkFields /\ link.url = <<>> /\ link.port \in Ports
      BY NewLinkIs DEF Init
    <2>4. parser \in Parsers /\ isSet \in BOOLEAN BY NewParser DEF Init
    <2>5. /\ size \in Nat /\ answer \in {"none", "-1", "-2", "-7", "login"}
          /\ code \in {Unset, 0, -1, -2, -3, -4, -5}
      BY DEF Init
    <2>3. SizeMeansComplete /\ NoLoginYet /\ Poisoned
      BY DEF Init, SizeMeansComplete, NoLoginYet, Poisoned
    <2> QED BY <2>1, <2>2, <2>3, <2>4, <2>5 DEF HttpInv, Objects
  <1> QED BY <1>1, HttpStep, PTL DEF Spec

(***************************************************************************)
(* Both parsers and the answers keep their types (HttpParser.h,            *)
(* EPlayerServer.h:177-235).                                               *)
(***************************************************************************)
THEOREM HttpTypeCorrect == Spec => []TypeOK
  <1>1. HttpInv => TypeOK BY DEF HttpInv, Objects, Parsers, Phases, Ports, TypeOK
  <1> QED BY <1>1, HttpInvHolds, PTL

(***************************************************************************)
(* A size is reported for a request that was completed in this very call,  *)
(* however the data are cut (HttpParser.cpp:50-60).                        *)
(***************************************************************************)
THEOREM SizeMeansCompleteHolds == Spec => []SizeMeansComplete
  <1>1. HttpInv => SizeMeansComplete BY DEF HttpInv
  <1> QED BY <1>1, HttpInvHolds, PTL

(***************************************************************************)
(* As the comparison is written no data of any form are answered as a      *)
(* login (EPlayerServer.h:192-194): what a UrlParser finds as the path     *)
(* begins with "/" or is empty, whatever address the server puts before    *)
(* it.  src/README.md:20 says that a GET request is a login.               *)
(***************************************************************************)
THEOREM NoDataLogIn == Spec => [](answer # "login")
  <1>1. HttpInv => answer # "login" BY DEF HttpInv, NoLoginYet
  <1> QED BY <1>1, HttpInvHolds, PTL

(***************************************************************************)
(* After a call that returned 0 every call does (HttpParser.cpp:55-58).    *)
(***************************************************************************)
THEOREM RefusalIsFinalHolds == Spec => RefusalIsFinal
  <1> DEFINE Final == fed # <<>> /\ size = 0 =>
                        /\ size' = 0
                        /\ \A f \in {"method", "url", "headers", "body"} : parser'[f] = parser[f]
  <1>1. HttpInv /\ [Next]_vars => [Final]_parserVars
    <2> SUFFICES ASSUME HttpInv, [Next]_vars PROVE Final \/ UNCHANGED parserVars
      OBVIOUS
    <2>1. ASSUME NEW data \in Chunks, Feed(data) PROVE Final BY <2>1, FeedIs DEF Kept
    <2>2. CASE UNCHANGED parserVars BY <2>2
    <2> QED BY <2>1, <2>2 DEF Next, Serve, NewLink, SetLink, ParseLink, vars
  <1> QED BY <1>1, HttpInvHolds, PTL DEF Spec, RefusalIsFinal

-----------------------------------------------------------------------------
(* A query that was written from its parameters. *)

Params == Seq(Seq(Text \ {"=", "&"}) \X Seq(Text \ {"&"}))

PairOf(params, n) == params[n][1] \o <<"=">> \o params[n][2]
Sep(n)            == IF n = 1 THEN <<"?">> ELSE <<"&">>

(* The recursive function WrittenUpTo exists. *)
WritesTo(f, params, m) ==
  f = [n \in 0..m |-> IF n = 0 THEN <<>>
                      ELSE f[n - 1] \o Sep(n) \o params[n][1] \o <<"=">> \o params[n][2]]

LEMMA WrittenUpToIs ==
  ASSUME NEW params, Len(params) \in Nat
  PROVE  WritesTo(WrittenUpTo(params), params, Len(params))
  <1> DEFINE S == {m \in Nat : \E f : WritesTo(f, params, m)}
  <1>1. 0 \in S
    <2>1. WritesTo([n \in 0..0 |-> <<>>], params, 0) BY DEF WritesTo
    <2> QED BY <2>1
  <1>2. ASSUME NEW m \in Nat, m \in S PROVE m + 1 \in S
    <2>1. PICK f : WritesTo(f, params, m) BY <1>2
    <2> DEFINE Next1(h, n) == h[n - 1] \o Sep(n) \o params[n][1] \o <<"=">> \o params[n][2]
               g == [n \in 0..(m + 1) |-> IF n = m + 1 THEN Next1(f, n) ELSE f[n]]
    <2>2. g = [n \in 0..(m + 1) |-> IF n = 0 THEN <<>> ELSE Next1(g, n)]
      BY <2>1 DEF WritesTo
    <2> HIDE DEF g
    <2>3. WritesTo(g, params, m + 1) BY <2>2 DEF WritesTo
    <2> QED BY <1>2, <2>3
  <1> HIDE DEF S
  <1>3. Len(params) \in S BY <1>1, <1>2, SetInduction
  <1>4. \E f : WritesTo(f, params, Len(params)) BY <1>3 DEF S
  <1> QED BY <1>4 DEF WrittenUpTo, WritesTo, Sep

LEMMA ParamIs ==
  ASSUME NEW params \in Params, NEW n \in 1..Len(params)
  PROVE  /\ params[n][1] \in Seq(Text) /\ params[n][2] \in Seq(Text)
         /\ \A i \in 1..Len(params[n][1]) : params[n][1][i] \notin {"=", "&"}
         /\ \A i \in 1..Len(params[n][2]) : params[n][2][i] # "&"
  <1>1. params[n] \in Seq(Text \ {"=", "&"}) \X Seq(Text \ {"&"})
    BY ElementOfSeq DEF Params
  <1>2. params[n][1] \in Seq(Text \ {"=", "&"}) /\ params[n][2] \in Seq(Text \ {"&"}) BY <1>1
  <1>3. params[n][1] \in Seq(Text) /\ params[n][2] \in Seq(Text) BY <1>2, SeqMonotonic
  <1>4. \A i \in 1..Len(params[n][1]) : params[n][1][i] \in Text \ {"=", "&"} BY <1>2, ElementOfSeq
  <1>5. \A i \in 1..Len(params[n][2]) : params[n][2][i] \in Text \ {"&"} BY <1>2, ElementOfSeq
  <1> QED BY <1>3, <1>4, <1>5

(* A pair comes apart into the name and the value. *)
LEMMA PairIs ==
  ASSUME NEW params \in Params, NEW n \in 1..Len(params)
  PROVE  LET pair == PairOf(params, n)
         IN  /\ pair \in Seq(Text) /\ Len(pair) \in Nat
             /\ \A i \in 1..Len(pair) : pair[i] # "&"
             /\ EqualOf(pair) # 0
             /\ UpTo(pair, EqualOf(pair)) = params[n][1]
             /\ After(pair, EqualOf(pair)) = params[n][2]
  <1> DEFINE a == params[n][1]  b == params[n][2]
  <1>1. /\ a \in Seq(Text) /\ b \in Seq(Text)
        /\ \A i \in 1..Len(a) : a[i] # "=" /\ a[i] # "&"
        /\ \A i \in 1..Len(b) : b[i] # "&"
    BY ParamIs
  <1>2. "=" \in Text BY DEF Text, Marks
  <1> HIDE DEF a, b
  <1> DEFINE s == a \o <<"=">> \o b
  <1>3. /\ s \in Seq(Text) /\ FirstOf(s, "=", 1) = Len(a) + 1 /\ Len(a) + 1 # 0
        /\ UpTo(s, Len(a) + 1) = a /\ After(s, Len(a) + 1) = b
    <2>1. \A i \in 1..Len(a) : a[i] # "=" BY <1>1
    <2> QED BY <1>1, <1>2, <2>1, CutAt
  <1>4. /\ Len(a) \in Nat /\ Len(b) \in Nat /\ Len(s) = Len(a) + 1 + Len(b)
        /\ \A i \in 1..Len(s) : \/ i \in 1..Len(a) /\ s[i] = a[i]
                                \/ i = Len(a) + 1 /\ s[i] = "="
                                \/ i - Len(a) - 1 \in 1..Len(b) /\ s[i] = b[i - Len(a) - 1]
    <2>1. <<"=">> \in Seq(Text) /\ Len(<<"=">>) = 1 /\ <<"=">>[1] = "=" BY <1>2
    <2> DEFINE c == a \o <<"=">>
    <2>2. /\ c \in Seq(Text) /\ Len(c) = Len(a) + 1 /\ Len(a) \in Nat /\ Len(b) \in Nat
          /\ \A i \in 1..(Len(a) + 1) : c[i] = IF i <= Len(a) THEN a[i] ELSE <<"=">>[i - Len(a)]
      BY <1>1, <2>1, ConcatProperties, LenProperties
    <2> HIDE DEF c
    <2>3. /\ Len(c \o b) = Len(c) + Len(b)
          /\ \A i \in 1..(Len(c) + Len(b)) : (c \o b)[i] = IF i <= Len(c) THEN c[i] ELSE b[i - Len(c)]
      BY <1>1, <2>2, ConcatProperties
    <2>4. s = c \o b BY DEF c
    <2> QED BY <2>1, <2>2, <2>3, <2>4
  <1> HIDE DEF s
  <1>5. \A i \in 1..Len(s) : s[i] # "&" BY <1>1, <1>4
  <1>6. s = PairOf(params, n) /\ a = params[n][1] /\ b = params[n][2] BY DEF PairOf, s, a, b
  <1>7. EqualOf(s) = Len(a) + 1 BY <1>3 DEF EqualOf
  <1>8. /\ s \in Seq(Text) /\ Len(s) \in Nat /\ \A i \in 1..Len(s) : s[i] # "&"
        /\ EqualOf(s) # 0 /\ UpTo(s, EqualOf(s)) = a /\ After(s, EqualOf(s)) = b
    BY <1>3, <1>4, <1>5, <1>7
  <1> QED BY <1>6, <1>8, Zenon

(* One more parameter. *)
LEMMA OneMore ==
  ASSUME NEW params \in Params, NEW n \in 0..(Len(params) - 1), WrittenUpTo(params)[n] \in Seq(Text)
  PROVE  LET u    == WrittenUpTo(params)[n]
             v    == WrittenUpTo(params)[n + 1]
             pair == PairOf(params, n + 1)
         IN  /\ v \in Seq(Text) /\ Len(u) \in Nat /\ Len(v) \in Nat
             /\ Len(v) = Len(u) + 1 + Len(pair)
             /\ \A i \in 1..Len(u) : v[i] = u[i]
             /\ v[Len(u) + 1] = IF n = 0 THEN "?" ELSE "&"
             /\ \A k \in 1..Len(pair) : v[Len(u) + 1 + k] = pair[k]
  <1> DEFINE u == WrittenUpTo(params)[n]  v == WrittenUpTo(params)[n + 1]
             c == u \o Sep(n + 1)
             a == params[n + 1][1]  e == <<"=">>  b == params[n + 1][2]
             pair == PairOf(params, n + 1)
  <1>1. v = c \o a \o e \o b
    <2>1. Len(params) \in Nat BY LenProperties DEF Params
    <2>2. WritesTo(WrittenUpTo(params), params, Len(params)) BY <2>1, WrittenUpToIs
    <2>3. n + 1 \in 0..Len(params) /\ n + 1 # 0 /\ (n + 1) - 1 = n BY <2>1
    <2> QED BY <2>2, <2>3 DEF WritesTo
  <1>2. a \in Seq(Text) /\ b \in Seq(Text) /\ pair = a \o e \o b /\ pair \in Seq(Text)
    <2>1. n + 1 \in 1..Len(params) BY LenProperties DEF Params
    <2> QED BY <2>1, ParamIs, PairIs DEF PairOf
  <1>3. e \in Seq(Text) /\ Sep(n + 1) \in Seq(Text) /\ Len(Sep(n + 1)) = 1
        /\ Sep(n + 1)[1] = IF n = 0 THEN "?" ELSE "&"
    <2>1. "=" \in Text /\ "?" \in Text /\ "&" \in Text BY DEF Text, Marks
    <2> QED BY <2>1 DEF Sep
  <1>4. u \in Seq(Text) OBVIOUS
  <1> HIDE DEF u, v, a, e, b, pair
  <1>5. /\ c \in Seq(Text) /\ Len(c) = Len(u) + 1 /\ Len(u) \in Nat
        /\ \A i \in 1..(Len(u) + 1) : c[i] = IF i <= Len(u) THEN u[i] ELSE Sep(n + 1)[i - Len(u)]
    <2> DEFINE t == Sep(n + 1)
    <2>1. t \in Seq(Text) /\ Len(t) = 1 BY <1>3
    <2> HIDE DEF t
    <2>2. /\ u \o t \in Seq(Text) /\ Len(u \o t) = Len(u) + Len(t) /\ Len(u) \in Nat
          /\ \A i \in 1..(Len(u) + Len(t)) : (u \o t)[i] = IF i <= Len(u) THEN u[i] ELSE t[i - Len(u)]
      BY <1>4, <2>1, ConcatProperties, LenProperties
    <2> QED BY <2>1, <2>2 DEF t
  <1> HIDE DEF c
  <1>6. v = c \o pair
    <2>0. c \in Seq(Text) /\ a \in Seq(Text) /\ e \in Seq(Text) /\ b \in Seq(Text)
      BY <1>2, <1>3, <1>5
    <2>1. c \o a \o e \o b = c \o pair
      <3>0. (c \o a) \o e = c \o (a \o e) BY <2>0, ConcatAssociative
      <3>1. a \o e \in Seq(Text) BY <2>0, ConcatProperties
      <3> DEFINE d == a \o e
      <3>2. d \in Seq(Text) BY <3>1
      <3>3. pair = d \o b BY <1>2
      <3>4. c \o a \o e = c \o d BY <3>0
      <3> HIDE DEF d
      <3>5. (c \o d) \o b = c \o (d \o b) BY <2>0, <3>2, ConcatAssociative
      <3> QED BY <3>3, <3>4, <3>5
    <2> QED BY <1>1, <1>2, <2>1
  <1>7. /\ v \in Seq(Text) /\ Len(pair) \in Nat /\ Len(v) = Len(c) + Len(pair)
        /\ \A i \in 1..(Len(c) + Len(pair)) : v[i] = IF i <= Len(c) THEN c[i] ELSE pair[i - Len(c)]
    BY <1>2, <1>5, <1>6, ConcatProperties, LenProperties
  <1>8. Len(v) \in Nat /\ Len(v) = Len(u) + 1 + Len(pair) BY <1>5, <1>7
  <1>9. \A i \in 1..Len(u) : v[i] = u[i] BY <1>5, <1>7
  <1>10. v[Len(u) + 1] = Sep(n + 1)[1] BY <1>5, <1>7
  <1>11. \A k \in 1..Len(pair) : v[Len(u) + 1 + k] = pair[k] BY <1>5, <1>7
  <1>12. /\ v \in Seq(Text) /\ Len(u) \in Nat /\ Len(v) \in Nat
         /\ Len(v) = Len(u) + 1 + Len(pair)
         /\ \A i \in 1..Len(u) : v[i] = u[i]
         /\ v[Len(u) + 1] = IF n = 0 THEN "?" ELSE "&"
         /\ \A k \in 1..Len(pair) : v[Len(u) + 1 + k] = pair[k]
    BY <1>3, <1>5, <1>7, <1>8, <1>9, <1>10, <1>11
  <1> QED BY <1>12 DEF u, v, pair

(***************************************************************************)
(* What is written for n parameters begins with what is written for fewer, *)
(* and an "&" stands in it only between two of them.                       *)
(***************************************************************************)
LEMMA UpToFacts ==
  ASSUME NEW params \in Params, NEW n \in 0..Len(params)
  PROVE  LET U == WrittenUpTo(params)
         IN  /\ U[n] \in Seq(Text) /\ Len(U[n]) \in Nat
             /\ \A m \in 0..n : /\ Len(U[m]) \in Nat /\ (m < n => Len(U[m]) < Len(U[n]))
                                /\ \A i \in 1..Len(U[m]) : U[n][i] = U[m][i]
             /\ \A i \in 1..Len(U[n]) : U[n][i] = "&" => \E m \in 2..n : i = Len(U[m - 1]) + 1
  <1> DEFINE U == WrittenUpTo(params)
             Good(k) ==
               /\ U[k] \in Seq(Text) /\ Len(U[k]) \in Nat
               /\ \A m \in 0..k : /\ Len(U[m]) \in Nat /\ (m < k => Len(U[m]) < Len(U[k]))
                                  /\ \A i \in 1..Len(U[m]) : U[k][i] = U[m][i]
               /\ \A i \in 1..Len(U[k]) : U[k][i] = "&" => \E m \in 2..k : i = Len(U[m - 1]) + 1
             S == {k \in Nat : k <= Len(params) => Good(k)}
  <1>1. Len(params) \in Nat BY LenProperties DEF Params
  <1>2. WritesTo(U, params, Len(params)) BY <1>1, WrittenUpToIs
  <1>3. 0 \in S
    <2>1. U[0] = <<>> BY <1>1, <1>2 DEF WritesTo
    <2> HIDE DEF U
    <2>2. U[0] \in Seq(Text) /\ Len(U[0]) = 0 BY <2>1
    <2>3. Good(0) BY <2>2
    <2> QED BY <2>3
  <1>4. ASSUME NEW k \in Nat, k \in S PROVE k + 1 \in S
    <2> SUFFICES ASSUME k + 1 <= Len(params) PROVE Good(k + 1)
      OBVIOUS
    <2> DEFINE u == U[k]  v == U[k + 1]  pair == PairOf(params, k + 1)
    <2>1. Good(k) BY <1>1, <1>4
    <2>2. k \in 0..(Len(params) - 1) /\ k + 1 \in 1..Len(params) /\ (k + 1) - 1 = k BY <1>1
    <2>3. /\ v \in Seq(Text) /\ Len(v) \in Nat /\ Len(v) = Len(u) + 1 + Len(pair)
          /\ \A i \in 1..Len(u) : v[i] = u[i]
          /\ v[Len(u) + 1] = IF k = 0 THEN "?" ELSE "&"
          /\ \A j \in 1..Len(pair) : v[Len(u) + 1 + j] = pair[j]
      BY <2>1, <2>2, OneMore
    <2>4. Len(pair) \in Nat /\ \A j \in 1..Len(pair) : pair[j] # "&" BY <2>2, PairIs
    <2> HIDE DEF pair, U
    <2>5. ASSUME NEW m \in 0..(k + 1)
          PROVE  /\ Len(U[m]) \in Nat /\ (m < k + 1 => Len(U[m]) < Len(v))
                 /\ \A i \in 1..Len(U[m]) : v[i] = U[m][i]
      <3>1. CASE m = k + 1 BY <2>3, <3>1
      <3>2. CASE m \in 0..k
        <4>1. /\ Len(U[m]) \in Nat /\ Len(u) \in Nat /\ (m = k \/ Len(U[m]) < Len(u))
              /\ \A i \in 1..Len(U[m]) : u[i] = U[m][i]
          BY <2>1, <3>2
        <4>2. Len(U[m]) <= Len(u) BY <4>1
        <4> QED BY <2>3, <2>4, <4>1, <4>2
      <3> QED BY <3>1, <3>2
    <2>6. ASSUME NEW i \in 1..Len(v), v[i] = "&"
          PROVE  \E m \in 2..(k + 1) : i = Len(U[m - 1]) + 1
      <3>0. Len(u) \in Nat BY <2>1
      <3>1. CASE i \in 1..Len(u) BY <2>1, <2>3, <2>6, <3>1
      <3>2. CASE i = Len(u) + 1
        <4>1. k + 1 # 1 BY <2>3, <2>6, <3>2
        <4>2. k + 1 \in 2..(k + 1) BY <4>1
        <4> QED BY <2>2, <3>2, <4>2
      <3>3. CASE i > Len(u) + 1
        <4> DEFINE L == Len(u)  j == i - L - 1
        <4>0. L \in Nat /\ i \in 1..(L + 1 + Len(pair)) BY <2>3, <3>0
        <4> HIDE DEF L
        <4>a. i > L + 1 BY <3>3 DEF L
        <4>1. L + 1 + j = i /\ j \in 1..Len(pair) BY <2>4, <4>0, <4>a
        <4> HIDE DEF j
        <4>2. v[L + 1 + j] = pair[j] BY <2>3, <4>1 DEF L
        <4> QED BY <2>4, <2>6, <4>1, <4>2
      <3> QED BY <2>3, <2>4, <3>0, <3>1, <3>2, <3>3
    <2> QED BY <2>3, <2>5, <2>6
  <1> HIDE DEF S
  <1>5. n \in S BY <1>1, <1>3, <1>4, SetInduction
  <1>6. n <= Len(params) BY <1>1
  <1> QED BY <1>5, <1>6 DEF S

(***************************************************************************)
(* The query behind the "?", and where the pair of a parameter begins.     *)
(***************************************************************************)
QueryOf(params) == After(WrittenQuery(params), 1)
At(params, n)   == Len(WrittenUpTo(params)[n - 1]) + 1

LEMMA QueryIs ==
  ASSUME NEW params \in Params, params # <<>>
  PROVE  LET W == WrittenQuery(params)
             q == QueryOf(params)
         IN  /\ W \in Seq(Text) /\ Len(W) \in Nat /\ Len(W) >= 1 /\ W[1] = "?"
             /\ q \in Seq(Text) /\ Len(q) \in Nat /\ Len(q) = Len(W) - 1
             /\ \A i \in 1..Len(q) : q[i] = W[i + 1]
  <1> DEFINE N == Len(params)  U == WrittenUpTo(params)  W == U[N]  q == After(W, 1)
  <1>1. N \in Nat /\ N # 0 BY LenProperties, EmptySeq DEF Params
  <1>2. W \in Seq(Text) /\ Len(W) \in Nat /\ \A i \in 1..Len(U[1]) : W[i] = U[1][i]
    <2>1. N \in 0..Len(params) /\ 1 \in 0..N BY <1>1
    <2> QED BY <2>1, UpToFacts
  <1>3. Len(U[1]) \in Nat /\ Len(U[1]) <= Len(W) /\ Len(U[1]) >= 1 /\ U[1][1] = "?"
    <2>1. N \in 0..Len(params) /\ 1 \in 0..N /\ 0 \in 0..N /\ 0 \in 0..(Len(params) - 1)
          /\ 0 \in 0..Len(params)
      BY <1>1
    <2>2. Len(U[1]) \in Nat /\ Len(U[1]) <= Len(W)
      <3>1. \A m \in 0..N : Len(U[m]) \in Nat /\ (m < N => Len(U[m]) < Len(U[N]))
        BY <2>1, UpToFacts
      <3>2. 1 = N \/ 1 < N BY <1>1
      <3> QED BY <1>2, <2>1, <3>1, <3>2
    <2>3. U[0] = <<>>
      <3>1. WritesTo(U, params, N) BY <1>1, WrittenUpToIs
      <3> QED BY <2>1, <3>1 DEF WritesTo
    <2>4. U[0] \in Seq(Text) BY <2>1, UpToFacts
    <2>5. U[1][Len(U[0]) + 1] = "?" /\ Len(U[1]) = Len(U[0]) + 1 + Len(PairOf(params, 1))
      <3>1. /\ U[0 + 1][Len(U[0]) + 1] = IF 0 = 0 THEN "?" ELSE "&"
            /\ Len(U[0 + 1]) = Len(U[0]) + 1 + Len(PairOf(params, 0 + 1))
        BY <2>1, <2>4, OneMore
      <3>2. 0 + 1 = 1 OBVIOUS
      <3> QED BY <3>1, <3>2, Zenon
    <2>6. Len(U[0]) = 0 BY <2>3, EmptySeq
    <2>7. Len(PairOf(params, 1)) \in Nat
      <3>1. 1 \in 1..Len(params) BY <1>1
      <3> QED BY <3>1, PairIs
    <2> QED BY <2>2, <2>5, <2>6, <2>7
  <1> HIDE DEF U, W, N
  <1>4. Len(W) >= 1 /\ W[1] = "?" BY <1>2, <1>3
  <1>5. q \in Seq(Text) /\ Len(q) = Len(W) - 1 /\ Len(q) \in Nat /\ \A i \in 1..Len(q) : q[i] = W[i + 1]
    <2>1. \A i \in (1 + 1)..Len(W) : W[i] \in Text BY <1>2, ElementOfSeq
    <2>2. /\ q \in Seq(Text) /\ Len(q) = IF 2 <= Len(W) THEN Len(W) - 2 + 1 ELSE 0
          /\ \A i \in 1..(Len(W) - 2 + 1) : q[i] = W[2 + i - 1]
      BY <1>2, <2>1, SubSeqProperties DEF After
    <2>3. Len(q) = Len(W) - 1 BY <1>2, <1>4, <2>2
    <2>4. ASSUME NEW i \in 1..Len(q) PROVE q[i] = W[i + 1]
      <3>1. i \in 1..(Len(W) - 2 + 1) /\ 2 + i - 1 = i + 1 BY <1>2, <2>3
      <3> QED BY <2>2, <3>1
    <2> QED BY <1>2, <1>4, <2>2, <2>3, <2>4
  <1>6. WrittenQuery(params) = W /\ QueryOf(params) = q BY DEF WrittenQuery, QueryOf, W, U, N
  <1> HIDE DEF q
  <1>7. /\ W \in Seq(Text) /\ Len(W) \in Nat /\ Len(W) >= 1 /\ W[1] = "?"
        /\ q \in Seq(Text) /\ Len(q) \in Nat /\ Len(q) = Len(W) - 1
        /\ \A i \in 1..Len(q) : q[i] = W[i + 1]
    BY <1>2, <1>4, <1>5
  <1> QED BY <1>6, <1>7, Zenon

(* Where the pairs stand in the query. *)
LEMMA AtIs ==
  ASSUME NEW params \in Params, NEW n \in 1..Len(params)
  PROVE  LET q    == QueryOf(params)
             a    == At(params, n)
             pair == PairOf(params, n)
         IN  /\ a \in Nat /\ a >= 1 /\ a + Len(pair) - 1 <= Len(q)
             /\ (n = 1 => a = 1)
             /\ \A k \in 1..Len(pair) : q[a + k - 1] = pair[k]
             /\ n = Len(params) => a + Len(pair) - 1 = Len(q)
             /\ n < Len(params) => /\ a + Len(pair) \in 1..Len(q) /\ q[a + Len(pair)] = "&"
                                   /\ At(params, n + 1) = a + Len(pair) + 1
             /\ \A m \in 1..(n - 1) : At(params, m) < a
  <1> DEFINE N == Len(params)  U == WrittenUpTo(params)  W == WrittenQuery(params)
             q == QueryOf(params)  pair == PairOf(params, n)
             u == U[n - 1]  v == U[n]  a == At(params, n)
  <1>0. N \in Nat /\ params # <<>> BY LenProperties, EmptySeq DEF Params
  <1>1. /\ W \in Seq(Text) /\ Len(W) \in Nat /\ Len(q) \in Nat /\ Len(q) = Len(W) - 1
        /\ \A i \in 1..Len(q) : q[i] = W[i + 1]
    BY <1>0, QueryIs
  <1>2. W = U[N] BY DEF WrittenQuery
  <1>3. n - 1 \in 0..(Len(params) - 1) /\ n - 1 \in 0..Len(params) /\ (n - 1) + 1 = n
        /\ n \in 0..Len(params) /\ N \in 0..Len(params) /\ n \in 0..N /\ n - 1 \in Nat
    BY <1>0
  <1>4. Len(pair) \in Nat BY PairIs
  <1>5. /\ Len(u) \in Nat /\ Len(v) \in Nat /\ Len(v) = Len(u) + 1 + Len(pair)
        /\ \A k \in 1..Len(pair) : v[Len(u) + 1 + k] = pair[k]
    <2>1. U[n - 1] \in Seq(Text) BY <1>3, UpToFacts
    <2>2. LET k == n - 1
          IN  /\ Len(U[k]) \in Nat /\ Len(U[k + 1]) \in Nat
              /\ Len(U[k + 1]) = Len(U[k]) + 1 + Len(PairOf(params, k + 1))
              /\ \A i \in 1..Len(PairOf(params, k + 1)) :
                   U[k + 1][Len(U[k]) + 1 + i] = PairOf(params, k + 1)[i]
      BY <1>3, <2>1, OneMore
    <2> QED BY <1>3, <2>2
  <1>a. \A m \in 0..N : /\ Len(U[m]) \in Nat /\ (m < N => Len(U[m]) < Len(W))
                        /\ \A i \in 1..Len(U[m]) : W[i] = U[m][i]
    BY <1>2, <1>3, UpToFacts
  <1>6. Len(v) <= Len(W) /\ \A i \in 1..Len(v) : W[i] = v[i]
    <2>1. n = N \/ n < N BY <1>0
    <2> QED BY <1>1, <1>2, <1>3, <1>a, <2>1
  <1>7. a = Len(u) + 1 BY DEF At
  <1>8. n = 1 => Len(u) = 0
    <2>1. WritesTo(U, params, N) BY <1>0, WrittenUpToIs
    <2>2. U[0] = <<>> BY <1>0, <2>1 DEF WritesTo
    <2> QED BY <2>2, EmptySeq
  <1>9. n < N => /\ Len(v) < Len(W) /\ W[Len(v) + 1] = "&" /\ At(params, n + 1) = Len(v) + 1
    <2> SUFFICES ASSUME n < N
                 PROVE  Len(v) < Len(W) /\ W[Len(v) + 1] = "&" /\ At(params, n + 1) = Len(v) + 1
      OBVIOUS
    <2>1. n \in 0..(Len(params) - 1) /\ n + 1 \in 0..N /\ n # 0 /\ (n + 1) - 1 = n BY <1>0
    <2>2. U[n] \in Seq(Text) BY <1>3, UpToFacts
    <2> DEFINE z == U[n + 1]
    <2>3. z[Len(v) + 1] = "&" /\ Len(z) = Len(v) + 1 + Len(PairOf(params, n + 1)) BY <2>1, <2>2, OneMore
    <2>4. Len(PairOf(params, n + 1)) \in Nat
      <3>1. n + 1 \in 1..Len(params) BY <1>0
      <3> QED BY <3>1, PairIs
    <2>5. Len(z) <= Len(W) /\ \A i \in 1..Len(z) : W[i] = z[i]
      <3>1. n + 1 = N \/ n + 1 < N BY <1>0
      <3> QED BY <1>1, <1>2, <1>a, <2>1, <3>1
    <2>6. At(params, n + 1) = Len(v) + 1 BY <2>1 DEF At
    <2> DEFINE more == Len(PairOf(params, n + 1))
    <2>b. Len(z) = Len(v) + 1 + more /\ more \in Nat BY <2>3, <2>4
    <2> HIDE DEF z, v, more
    <2>7. Len(v) + 1 \in 1..Len(z) /\ Len(v) < Len(W) BY <1>1, <1>5, <2>b, <2>5
    <2> QED BY <2>3, <2>5, <2>6, <2>7
  <1>10. ASSUME NEW m \in 1..(n - 1) PROVE At(params, m) < a
    <2>1. m - 1 \in 0..(n - 1) /\ m - 1 < n - 1 BY <1>0
    <2>2. Len(U[m - 1]) \in Nat /\ Len(U[m - 1]) < Len(u) BY <1>3, <2>1, UpToFacts
    <2> QED BY <1>5, <2>2 DEF At
  <1>11. n = N => v = W BY <1>2
  <1> HIDE DEF u, v, q, pair, W, U, a, N
  <1>12. \A k \in 1..Len(pair) : q[a + k - 1] = pair[k]
    <2> TAKE k \in 1..Len(pair)
    <2>1. a + k - 1 = Len(u) + k /\ Len(u) + k \in 1..Len(q) /\ Len(u) + k + 1 = Len(u) + 1 + k
          /\ Len(u) + 1 + k \in 1..Len(v)
      BY <1>1, <1>4, <1>5, <1>6, <1>7
    <2> QED BY <1>1, <1>5, <1>6, <2>1
  <1>13. n < N => /\ a + Len(pair) \in 1..Len(q) /\ q[a + Len(pair)] = "&"
                  /\ At(params, n + 1) = a + Len(pair) + 1
    <2> SUFFICES ASSUME n < N PROVE /\ a + Len(pair) \in 1..Len(q) /\ q[a + Len(pair)] = "&"
                                    /\ At(params, n + 1) = a + Len(pair) + 1
      OBVIOUS
    <2>1. a + Len(pair) = Len(v) /\ Len(v) \in 1..Len(q) BY <1>1, <1>4, <1>5, <1>7, <1>9
    <2> QED BY <1>1, <1>9, <2>1
  <1>14. /\ a \in Nat /\ a >= 1 /\ a + Len(pair) - 1 <= Len(q)
         /\ (n = 1 => a = 1) /\ (n = N => a + Len(pair) - 1 = Len(q))
    <2>1. a + Len(pair) - 1 = Len(v) - 1 /\ a \in Nat /\ a >= 1 BY <1>4, <1>5, <1>7
    <2>2. n = N => Len(v) = Len(W) BY <1>11
    <2> QED BY <1>1, <1>5, <1>6, <1>7, <1>8, <2>1, <2>2
  <1>15. /\ a \in Nat /\ a >= 1 /\ a + Len(pair) - 1 <= Len(q)
         /\ (n = 1 => a = 1)
         /\ \A k \in 1..Len(pair) : q[a + k - 1] = pair[k]
         /\ n = N => a + Len(pair) - 1 = Len(q)
         /\ n < N => /\ a + Len(pair) \in 1..Len(q) /\ q[a + Len(pair)] = "&"
                     /\ At(params, n + 1) = a + Len(pair) + 1
         /\ \A m \in 1..(n - 1) : At(params, m) < a
    BY <1>10, <1>12, <1>13, <1>14
  <1> QED BY <1>15 DEF q, a, pair, N

LEMMA StartsAre ==
  ASSUME NEW params \in Params, params # <<>>
  PROVE  Starts(QueryOf(params)) = {At(params, n) : n \in 1..Len(params)}
  <1> DEFINE N == Len(params)  U == WrittenUpTo(params)  q == QueryOf(params)
             begins == {At(params, n) : n \in 1..N}
  <1>1. N \in Nat /\ N # 0 BY LenProperties, EmptySeq DEF Params
  <1>2. ASSUME NEW i \in 1..Len(q), q[i] = "&" PROVE i + 1 \in begins
    <2> DEFINE W == WrittenQuery(params)
    <2>1. Len(W) \in Nat /\ Len(q) = Len(W) - 1 /\ W[i + 1] = "&" BY <1>1, <1>2, QueryIs
    <2>2. W = U[N] /\ N \in 0..Len(params) BY <1>1 DEF WrittenQuery
    <2>3. \A j \in 1..Len(U[N]) : U[N][j] = "&" => \E m \in 2..N : j = Len(U[m - 1]) + 1
      BY <2>2, UpToFacts
    <2>4. i + 1 \in 1..Len(W) BY <2>1
    <2>5. PICK m \in 2..N : i + 1 = Len(U[m - 1]) + 1 BY <2>1, <2>2, <2>3, <2>4
    <2>6. m \in 1..N /\ i + 1 = At(params, m) BY <1>1, <2>5 DEF At
    <2> QED BY <2>6
  <1>3. 1 \in begins
    <2>1. 1 \in 1..Len(params) BY <1>1
    <2>2. At(params, 1) = 1 BY <2>1, AtIs
    <2> QED BY <2>1, <2>2
  <1>4. ASSUME NEW n \in 1..N PROVE At(params, n) \in Starts(q)
    <2>1. CASE n = 1
      <3>1. At(params, n) = 1 BY <2>1, AtIs
      <3> QED BY <3>1 DEF Starts
    <2>2. CASE n # 1
      <3> DEFINE m == n - 1  c == At(params, m) + Len(PairOf(params, m))
      <3>1. m \in 1..Len(params) /\ m < Len(params) /\ m + 1 = n BY <1>1, <2>2
      <3>2. c \in 1..Len(q) /\ q[c] = "&" /\ At(params, m + 1) = c + 1 BY <3>1, AtIs
      <3>3. At(params, n) = c + 1 BY <3>1, <3>2
      <3> HIDE DEF c
      <3> QED BY <3>2, <3>3 DEF Starts
    <2> QED BY <2>1, <2>2
  <1> HIDE DEF begins, N
  <1>5. Starts(q) \subseteq begins BY <1>2, <1>3 DEF Starts
  <1>6. begins \subseteq Starts(q) BY <1>4 DEF begins
  <1> QED BY <1>5, <1>6 DEF begins, N

LEMMA PairAt ==
  ASSUME NEW params \in Params, NEW n \in 1..Len(params)
  PROVE  Pair(QueryOf(params), At(params, n)) = PairOf(params, n)
  <1> DEFINE q == QueryOf(params)  a == At(params, n)  pair == PairOf(params, n)
             cut == FirstOf(q, "&", a)
             last == a + Len(pair) - 1
             piece == SubSeq(q, a, last)
  <1>0. Len(params) \in Nat /\ params # <<>> BY LenProperties, EmptySeq DEF Params
  <1>1. pair \in Seq(Text) /\ Len(pair) \in Nat /\ \A i \in 1..Len(pair) : pair[i] # "&"
    BY PairIs
  <1>2. q \in Seq(Text) /\ Len(q) \in Nat BY <1>0, QueryIs
  <1>3. /\ a \in Nat /\ a >= 1 /\ last <= Len(q)
        /\ \A k \in 1..Len(pair) : q[a + k - 1] = pair[k]
        /\ n = Len(params) => last = Len(q)
        /\ n < Len(params) => a + Len(pair) \in 1..Len(q) /\ q[a + Len(pair)] = "&"
    BY AtIs
  <1> HIDE DEF q, a, pair
  <1>4. \A i \in a..last : q[i] # "&"
    <2> TAKE i \in a..last
    <2>1. i - a + 1 \in 1..Len(pair) /\ a + (i - a + 1) - 1 = i BY <1>1, <1>3
    <2> QED BY <1>1, <1>3, <2>1
  <1>5. Pair(q, a) = piece
    <2>1. CASE n < Len(params)
      <3>1. a + Len(pair) \in a..Len(q) /\ a > 0 /\ \A i \in a..(a + Len(pair) - 1) : q[i] # "&"
        BY <1>1, <1>3, <1>4, <2>1
      <3>2. cut = a + Len(pair) BY <1>2, <1>3, <2>1, <3>1, FirstOfAt
      <3>3. cut # 0 BY <1>1, <1>3, <3>2
      <3>4. Pair(q, a) = SubSeq(q, a, cut - 1) BY <3>3 DEF Pair
      <3>5. cut - 1 = last BY <1>1, <1>3, <3>2
      <3> HIDE DEF cut, last
      <3> QED BY <3>4, <3>5
    <2>2. CASE n = Len(params)
      <3>1. last = Len(q) /\ a > 0 BY <1>3, <2>2
      <3>2. \A i \in a..Len(q) : q[i] # "&" BY <1>4, <3>1
      <3>3. cut = 0 BY <1>2, <1>3, <3>1, <3>2, FirstOfNone
      <3>4. Pair(q, a) = SubSeq(q, a, Len(q)) BY <3>3 DEF Pair
      <3> HIDE DEF last
      <3> QED BY <3>1, <3>4
    <2> QED BY <1>0, <2>1, <2>2
  <1>6. piece = pair
    <2>1. \A i \in a..last : q[i] \in Text BY <1>1, <1>2, <1>3, ElementOfSeq
    <2>2. last \in Int BY <1>1, <1>3
    <2>3. /\ piece \in Seq(Text) /\ Len(piece) = IF a <= last THEN last - a + 1 ELSE 0
          /\ \A i \in 1..(last - a + 1) : piece[i] = q[a + i - 1]
      BY <1>3, <2>1, <2>2, SubSeqProperties
    <2>4. last - a + 1 = Len(pair) /\ Len(piece) = Len(pair) BY <1>1, <1>3, <2>3
    <2>5. \A i \in 1..Len(pair) : piece[i] = pair[i] BY <1>3, <2>3, <2>4
    <2> HIDE DEF piece
    <2> QED BY <1>1, <2>3, <2>4, <2>5, SeqEqual
  <1> QED BY <1>5, <1>6 DEF q, a, pair

(* Every pair of a written query is stored, under the name it was written for. *)
LEMMA QueryComesApart ==
  ASSUME NEW params \in Params, params # <<>>
  PROVE  LET q == QueryOf(params)
         IN  /\ QueryCode(q) = 0
             /\ Put(q) = {At(params, n) : n \in 1..Len(params)}
             /\ \A n \in 1..Len(params) : /\ Name(q, At(params, n)) = params[n][1]
                                          /\ Value(q, At(params, n)) = params[n][2]
  <1> DEFINE q == QueryOf(params)
  <1>1. Starts(q) = {At(params, n) : n \in 1..Len(params)} BY StartsAre
  <1>2. \A n \in 1..Len(params) : Pair(q, At(params, n)) = PairOf(params, n) BY PairAt
  <1>3. \A n \in 1..Len(params) :
          /\ EqualOf(PairOf(params, n)) # 0
          /\ UpTo(PairOf(params, n), EqualOf(PairOf(params, n))) = params[n][1]
          /\ After(PairOf(params, n), EqualOf(PairOf(params, n))) = params[n][2]
    BY PairIs
  <1> HIDE DEF q
  <1>4. Stops(q) = {}
    <2> SUFFICES ASSUME NEW x \in Starts(q) PROVE FirstOf(Pair(q, x), "=", 1) # 0
      BY DEF Stops
    <2>1. PICK n \in 1..Len(params) : x = At(params, n) BY <1>1
    <2> QED BY <1>2, <1>3, <2>1 DEF EqualOf
  <1>5. QueryCode(q) = 0 BY <1>4 DEF QueryCode
  <1>6. Put(q) = Starts(q) BY <1>4 DEF Put
  <1>7. \A n \in 1..Len(params) : /\ Name(q, At(params, n)) = params[n][1]
                                  /\ Value(q, At(params, n)) = params[n][2]
    BY <1>2, <1>3 DEF Name, Value
  <1>8. /\ QueryCode(q) = 0
        /\ Put(q) = {At(params, n) : n \in 1..Len(params)}
        /\ \A n \in 1..Len(params) : /\ Name(q, At(params, n)) = params[n][1]
                                     /\ Value(q, At(params, n)) = params[n][2]
    BY <1>1, <1>5, <1>6, <1>7
  <1> QED BY <1>8 DEF q

LEMMA MaxIs ==
  ASSUME NEW S \in SUBSET Nat, S # {}, NEW top \in Nat, \A y \in S : y <= top
  PROVE  Max(S) \in S /\ \A y \in S : y <= Max(S)
  <1> DEFINE D == {top - y : y \in S}
  <1>1. D \in SUBSET Nat /\ D # {}
    <2>1. \A y \in S : top - y \in Nat OBVIOUS
    <2> QED BY <2>1
  <1>2. Min(D) \in D /\ \A d \in D : Min(D) <= d BY <1>1, MinIs
  <1>3. PICK x \in S : Min(D) = top - x BY <1>2
  <1>4. ASSUME NEW y \in S PROVE y <= x
    <2>1. top - x <= top - y BY <1>2, <1>3
    <2>2. x \in Nat /\ y \in Nat OBVIOUS
    <2> QED BY <2>1, <2>2
  <1> HIDE DEF D
  <1> QED BY <1>4 DEF Max

(***************************************************************************)
(* What is stored are the names of the query, each with the value it is    *)
(* given last.                                                             *)
(***************************************************************************)
NamesOf(params) == {params[i][1] : i \in DOMAIN params}

LastWins(values, params) ==
  /\ DOMAIN values = NamesOf(params)
  /\ \A i \in DOMAIN params :
       \/ values[params[i][1]] = params[i][2]
       \/ \E j \in DOMAIN params : j > i /\ params[j][1] = params[i][1]

LEMMA StoredIs ==
  ASSUME NEW params \in Params, params # <<>>, NEW values, DOMAIN values \subseteq NamesOf(params)
  PROVE  LastWins(Stored(values, QueryOf(params)), params)
  <1> DEFINE q == QueryOf(params)  N == Len(params)
             names     == {Name(q, a) : a \in Put(q)}
             LastOf(n) == Max({a \in Put(q) : Name(q, a) = n})
             stored    == Stored(values, q)
  <1>0. N \in Nat /\ DOMAIN params = 1..N BY LenProperties DEF Params
  <1>1. /\ Put(q) = {At(params, n) : n \in 1..N}
        /\ \A n \in 1..N : Name(q, At(params, n)) = params[n][1] /\ Value(q, At(params, n)) = params[n][2]
    BY QueryComesApart
  <1>2. \A n \in 1..N : /\ At(params, n) \in Nat
                        /\ \A m \in 1..(n - 1) : At(params, m) < At(params, n)
    BY AtIs
  <1> HIDE DEF q, N
  <1>3. names = NamesOf(params) BY <1>0, <1>1 DEF NamesOf
  <1>4. stored = [n \in names |-> IF n \in names THEN Value(q, LastOf(n)) ELSE values[n]]
    <2>1. names \cup DOMAIN values = names BY <1>3
    <2> QED BY <2>1 DEF Stored
  <1> HIDE DEF names, stored, LastOf
  <1>5. DOMAIN stored = NamesOf(params) BY <1>3, <1>4
  <1>6. ASSUME NEW i \in 1..N
        PROVE  \/ stored[params[i][1]] = params[i][2]
               \/ \E j \in 1..N : j > i /\ params[j][1] = params[i][1]
    <2> DEFINE n == params[i][1]  A == {a \in Put(q) : Name(q, a) = n}
    <2>1. n \in names BY <1>0, <1>3 DEF NamesOf
    <2>2. stored[n] = Value(q, LastOf(n)) BY <1>4, <2>1
    <2>3. At(params, i) \in A BY <1>1
    <2>4. \A a \in A : a <= At(params, N)
      <3> TAKE a \in A
      <3>1. PICK m \in 1..N : a = At(params, m) BY <1>1
      <3>2. N \in 1..N BY <1>0
      <3>3. m = N \/ m \in 1..(N - 1) BY <1>0
      <3>4. At(params, N) \in Nat /\ At(params, m) \in Nat BY <1>2, <3>2
      <3>5. m \in 1..(N - 1) => At(params, m) < At(params, N) BY <1>2, <3>2
      <3> QED BY <3>1, <3>3, <3>4, <3>5
    <2>5. A \in SUBSET Nat BY <1>1, <1>2
    <2>6. At(params, N) \in Nat
      <3>1. N \in 1..N BY <1>0
      <3> QED BY <1>2, <3>1
    <2>7. Max(A) \in A /\ \A a \in A : a <= Max(A)
      <3> HIDE DEF A
      <3> QED BY <2>3, <2>4, <2>5, <2>6, MaxIs
    <2>8. LastOf(n) = Max(A) BY DEF LastOf
    <2>9. PICK j \in 1..N : LastOf(n) = At(params, j) BY <1>1, <2>7, <2>8
    <2>10. params[j][1] = n /\ stored[n] = params[j][2] BY <1>1, <2>2, <2>7, <2>8, <2>9
    <2>11. At(params, i) <= At(params, j) BY <2>3, <2>7, <2>8, <2>9
    <2>12. ~(j \in 1..(i - 1))
      <3>1. j \in 1..(i - 1) => At(params, j) < At(params, i) BY <1>2
      <3>2. At(params, i) \in Nat /\ At(params, j) \in Nat BY <1>2
      <3> QED BY <2>11, <3>1, <3>2
    <2>13. j = i \/ j > i BY <1>0, <2>12
    <2> QED BY <2>10, <2>13
  <1>7. LastWins(stored, params) BY <1>0, <1>5, <1>6 DEF LastWins
  <1> QED BY <1>7 DEF stored, q

-----------------------------------------------------------------------------
(* A URL that was written from its parts. *)

Scheme       == <<":", "/", "/">>
Authority(p) == p.host \o (IF p.port = <<>> THEN <<>> ELSE <<":">> \o p.port)

LEMMA FrontConcat ==
  ASSUME NEW S, NEW a \in Seq(S), NEW b \in Seq(S)
  PROVE  UpTo(a \o b, Len(a) + 1) = a
  <1> DEFINE s == a \o b  c == SubSeq(s, 1, Len(a))
  <1>1. /\ s \in Seq(S) /\ Len(a) \in Nat /\ Len(b) \in Nat
        /\ \A i \in 1..(Len(a) + Len(b)) : s[i] = IF i <= Len(a) THEN a[i] ELSE b[i - Len(a)]
    BY ConcatProperties, LenProperties
  <1> HIDE DEF s
  <1>2. \A i \in 1..Len(a) : s[i] = a[i] BY <1>1
  <1>3. \A i \in 1..Len(a) : s[i] \in S BY <1>2, ElementOfSeq
  <1>4. /\ c \in Seq(S) /\ Len(c) = IF 1 <= Len(a) THEN Len(a) - 1 + 1 ELSE 0
        /\ \A i \in 1..(Len(a) - 1 + 1) : c[i] = s[1 + i - 1]
    BY <1>1, <1>3, SubSeqProperties
  <1>5. Len(c) = Len(a) BY <1>1, <1>4
  <1>6. ASSUME NEW i \in 1..Len(a) PROVE c[i] = a[i]
    <2>1. i \in 1..(Len(a) - 1 + 1) /\ 1 + i - 1 = i BY <1>1
    <2> QED BY <1>2, <1>4, <2>1
  <1> HIDE DEF c
  <1>7. c = a BY <1>4, <1>5, <1>6, SeqEqual
  <1>8. Len(a) + 1 - 1 = Len(a) BY <1>1
  <1> QED BY <1>7, <1>8 DEF UpTo, c, s

(* The protocol ends at the first "://". *)
LEMMA SchemeIs ==
  ASSUME NEW a \in Seq(Words), NEW rest \in Seq(Text)
  PROVE  LET s == (a \o Scheme) \o rest
         IN  /\ s \in Seq(Text) /\ SchemeEnd(s) = Len(a) + 1 /\ Len(a) + 1 # 0
             /\ UpTo(s, Len(a) + 1) = a /\ After(s, Len(a) + 1 + 2) = rest
  <1> DEFINE t == a \o Scheme  s == t \o rest  m == Scheme \o rest  k == Len(a) + 1
             found == {i \in 1..(Len(s) - 2) : SubSeq(s, i, i + 2) = Scheme}
  <1>1. a \in Seq(Text) /\ Len(a) \in Nat /\ \A i \in 1..Len(a) : a[i] # ":"
    <2>1. Words \subseteq Text /\ \A w \in Words : w # ":" BY WordsAssumption DEF Text, Marks
    <2>2. \A i \in 1..Len(a) : a[i] \in Words BY ElementOfSeq
    <2> QED BY <2>1, <2>2, SeqMonotonic, LenProperties
  <1>2. /\ Scheme \in Seq(Text) /\ Len(Scheme) = 3
        /\ Scheme[1] = ":" /\ Scheme[2] = "/" /\ Scheme[3] = "/"
    <2>1. ":" \in Text /\ "/" \in Text BY DEF Text, Marks
    <2> QED BY <2>1 DEF Scheme
  <1>3. t \in Seq(Text) /\ Len(t) = Len(a) + 3
    <2>1. t \in Seq(Text) /\ Len(t) = Len(a) + Len(Scheme) BY <1>1, <1>2, ConcatProperties
    <2> QED BY <1>2, <2>1
  <1>4. m \in Seq(Text) /\ Len(m) = 3 + Len(rest) /\ Len(rest) \in Nat
        /\ \A i \in 1..3 : m[i] = Scheme[i]
    <2>1. /\ m \in Seq(Text) /\ Len(m) = Len(Scheme) + Len(rest) /\ Len(rest) \in Nat
          /\ \A i \in 1..(Len(Scheme) + Len(rest)) :
               m[i] = IF i <= Len(Scheme) THEN Scheme[i] ELSE rest[i - Len(Scheme)]
      BY <1>2, ConcatProperties, LenProperties
    <2> QED BY <1>2, <2>1
  <1>5. s = a \o m BY <1>1, <1>2, ConcatAssociative
  <1> HIDE DEF t, m
  <1>6. s \in Seq(Text) BY <1>3, ConcatProperties
  <1>7. /\ Len(s) = Len(a) + 3 + Len(rest)
        /\ \A i \in 1..Len(a) : s[i] = a[i]
        /\ s[Len(a) + 1] = ":" /\ s[Len(a) + 2] = "/" /\ s[Len(a) + 3] = "/"
    <2> HIDE DEF s
    <2>1. /\ Len(s) = Len(a) + Len(m)
          /\ \A i \in 1..(Len(a) + Len(m)) : s[i] = IF i <= Len(a) THEN a[i] ELSE m[i - Len(a)]
      <3>1. /\ Len(a \o m) = Len(a) + Len(m)
            /\ \A i \in 1..(Len(a) + Len(m)) :
                 (a \o m)[i] = IF i <= Len(a) THEN a[i] ELSE m[i - Len(a)]
        <4>1. a \in Seq(Text) /\ m \in Seq(Text) BY <1>1, <1>4
        <4> QED BY <4>1, ConcatProperties, Zenon
      <3> QED BY <1>5, <3>1, Zenon
    <2>2. s[Len(a) + 1] = m[1] /\ s[Len(a) + 2] = m[2] /\ s[Len(a) + 3] = m[3]
      <3>1. \A i \in 1..3 : /\ Len(a) + i \in 1..(Len(a) + Len(m))
                            /\ ~ (Len(a) + i <= Len(a)) /\ Len(a) + i - Len(a) = i
        BY <1>1, <1>4
      <3>2. \A i \in 1..3 : s[Len(a) + i] = m[i] BY <2>1, <3>1
      <3> QED BY <3>2
    <2> QED BY <1>1, <1>2, <1>4, <2>1, <2>2
  <1>8. After(s, Len(a) + 1 + 2) = rest
    <2>1. SubSeq(t \o rest, Len(t) + 1, Len(t \o rest)) = rest BY <1>3, BehindConcat
    <2>2. Len(a) + 1 + 2 = Len(t) BY <1>1, <1>3
    <2> QED BY <2>1, <2>2 DEF After
  <1>9. UpTo(s, Len(a) + 1) = a BY <1>1, <1>4, <1>5, FrontConcat
  <1> HIDE DEF s
  <1>10. k \in found
    <2> DEFINE c == SubSeq(s, k, k + 2)
    <2>1. k \in 1..(Len(s) - 2) /\ k + 1 = Len(a) + 2 /\ k + 2 = Len(a) + 3 BY <1>1, <1>4, <1>7
    <2>2. \A i \in k..(k + 2) : s[i] \in Text
      <3>1. \A i \in 1..Len(s) : s[i] \in Text BY <1>6, ElementOfSeq
      <3> QED BY <1>1, <1>4, <1>7, <3>1
    <2>3. /\ c \in Seq(Text) /\ Len(c) = IF k <= k + 2 THEN k + 2 - k + 1 ELSE 0
          /\ \A i \in 1..(k + 2 - k + 1) : c[i] = s[k + i - 1]
      BY <1>1, <2>2, SubSeqProperties
    <2>4. Len(c) = 3 /\ c[1] = s[k] /\ c[2] = s[k + 1] /\ c[3] = s[k + 2] BY <1>1, <2>3
    <2>5. \A i \in 1..3 : c[i] = Scheme[i] BY <1>2, <1>7, <2>1, <2>4
    <2> HIDE DEF c
    <2>6. c = Scheme BY <1>2, <2>3, <2>4, <2>5, SeqEqual
    <2> QED BY <2>1, <2>6 DEF c
  <1>11. ASSUME NEW i \in found PROVE k <= i
    <2> SUFFICES ASSUME i \in 1..Len(a) PROVE FALSE
      BY <1>1
    <2> DEFINE c == SubSeq(s, i, i + 2)
    <2>1. \A j \in i..(i + 2) : s[j] \in Text
      <3>1. \A j \in 1..Len(s) : s[j] \in Text BY <1>6, ElementOfSeq
      <3> QED BY <1>1, <1>4, <1>7, <3>1
    <2>2. \A j \in 1..(i + 2 - i + 1) : c[j] = s[i + j - 1] BY <1>1, <2>1, SubSeqProperties
    <2>3. c[1] = s[i] BY <1>1, <2>2
    <2>4. c[1] = ":" BY <1>2
    <2> QED BY <1>1, <1>7, <2>3, <2>4
  <1>12. found \in SUBSET Nat OBVIOUS
  <1> HIDE DEF found
  <1>13. Min(found) \in found /\ \A y \in found : Min(found) <= y BY <1>10, <1>12, MinIs
  <1>14. Min(found) = k
    <2>1. Min(found) <= k /\ k <= Min(found) /\ Min(found) \in Nat BY <1>10, <1>11, <1>12, <1>13
    <2> QED BY <1>1, <2>1
  <1>15. SchemeEnd(s) = Len(a) + 1 BY <1>10, <1>14 DEF SchemeEnd, Scheme, found
  <1>16. /\ s \in Seq(Text) /\ SchemeEnd(s) = Len(a) + 1 /\ Len(a) + 1 # 0
         /\ UpTo(s, Len(a) + 1) = a /\ After(s, Len(a) + 1 + 2) = rest
    BY <1>1, <1>6, <1>8, <1>9, <1>15
  <1> QED BY <1>16 DEF s, t

(* The parts and what is written of them are text. *)
LEMMA PartsAre ==
  ASSUME NEW p, WellFormed(p)
  PROVE  /\ p.protocol \in Seq(Words) /\ p.protocol \in Seq(Text) /\ Scheme \in Seq(Text)
         /\ p.host \in Seq(Text) /\ p.host # <<>> /\ \A i \in 1..Len(p.host) : p.host[i] \in Words
         /\ p.port = <<>> \/ \E w \in Words : p.port = <<w>>
         /\ p.path \in Seq(Text) /\ \A i \in 1..Len(p.path) : p.path[i] # "?"
         /\ p.params \in Params /\ WrittenQuery(p.params) \in Seq(Text)
         /\ p.params = <<>> => WrittenQuery(p.params) = <<>>
  <1>1. Words \subseteq Text /\ Text \ {"?"} \subseteq Text /\ ":" \in Text /\ "/" \in Text
    BY DEF Text, Marks
  <1>2. p.protocol \in Seq(Words) /\ p.protocol \in Seq(Text) /\ Scheme \in Seq(Text)
    BY <1>1, SeqMonotonic DEF WellFormed, Scheme
  <1>3. p.host \in Seq(Text) /\ p.host # <<>> /\ \A i \in 1..Len(p.host) : p.host[i] \in Words
    <2>1. p.host \in Seq(Words) /\ p.host # <<>> BY DEF WellFormed
    <2>2. p.host \in Seq(Text) BY <1>1, <2>1, SeqMonotonic
    <2>3. \A i \in 1..Len(p.host) : p.host[i] \in Words BY <2>1, ElementOfSeq
    <2> QED BY <2>1, <2>2, <2>3
  <1>4. p.port = <<>> \/ \E w \in Words : p.port = <<w>> BY DEF WellFormed
  <1>5. p.path \in Seq(Text) /\ \A i \in 1..Len(p.path) : p.path[i] # "?"
    <2>1. p.path \in Seq(Text \ {"?"}) BY DEF WellFormed
    <2>2. p.path \in Seq(Text) BY <1>1, <2>1, SeqMonotonic
    <2>3. \A i \in 1..Len(p.path) : p.path[i] \in Text \ {"?"} BY <2>1, ElementOfSeq
    <2> QED BY <2>2, <2>3
  <1>6. p.params \in Params BY DEF WellFormed, Params
  <1>7. Len(p.params) \in Nat BY <1>6, LenProperties DEF Params
  <1>8. WrittenQuery(p.params) \in Seq(Text)
    <2>1. Len(p.params) \in 0..Len(p.params) BY <1>7
    <2> QED BY <1>6, <2>1, UpToFacts DEF WrittenQuery
  <1>9. p.params = <<>> => WrittenQuery(p.params) = <<>>
    <2> SUFFICES ASSUME p.params = <<>> PROVE WrittenQuery(p.params) = <<>>
      OBVIOUS
    <2>1. Len(p.params) = 0 BY EmptySeq
    <2>2. WritesTo(WrittenUpTo(p.params), p.params, Len(p.params)) BY <1>7, WrittenUpToIs
    <2>3. WrittenUpTo(p.params)[0] = <<>> BY <2>1, <2>2 DEF WritesTo
    <2> QED BY <2>1, <2>3 DEF WrittenQuery
  <1> QED BY <1>2, <1>3, <1>4, <1>5, <1>6, <1>8, <1>9

(* The authority comes apart into the host and the port. *)
LEMMA AuthorityIs ==
  ASSUME NEW p, WellFormed(p)
  PROVE  LET auth == Authority(p)
         IN  /\ auth \in Seq(Text) /\ Len(auth) \in Nat /\ Len(auth) >= 1
             /\ \A i \in 1..Len(auth) : auth[i] # "/"
             /\ p.port = <<>> => auth = p.host /\ FirstOf(auth, ":", 1) = 0
             /\ p.port # <<>> =>
                  /\ FirstOf(auth, ":", 1) # 0 /\ UpTo(auth, FirstOf(auth, ":", 1)) = p.host
                  /\ Atoi(After(auth, FirstOf(auth, ":", 1))) = Number[Head(p.port)]
  <1> DEFINE h == p.host  auth == Authority(p)
  <1>1. /\ h \in Seq(Text) /\ h # <<>> /\ \A i \in 1..Len(h) : h[i] \in Words
        /\ p.port = <<>> \/ \E w \in Words : p.port = <<w>>
    BY PartsAre
  <1>2. \A w \in Words : w \in Text /\ w # ":" /\ w # "/" BY WordsAssumption DEF Text, Marks
  <1>3. ":" \in Text /\ <<":">> \in Seq(Text) /\ Len(<<":">>) = 1 /\ <<":">>[1] = ":"
    BY DEF Text, Marks
  <1>4. Len(h) \in Nat /\ Len(h) >= 1 BY <1>1, EmptySeq, LenProperties
  <1> HIDE DEF h
  <1>5. CASE p.port = <<>>
    <2>1. auth = h
      <3>1. h \o <<>> = h BY <1>1, ConcatEmptySeq
      <3> QED BY <1>5, <3>1 DEF Authority, h
    <2>2. \A i \in 1..Len(h) : h[i] # ":" /\ h[i] # "/" BY <1>1, <1>2
    <2>3. FirstOf(h, ":", 1) = 0 BY <1>4, <2>2, FirstOfNone
    <2> HIDE DEF auth
    <2>4. /\ auth \in Seq(Text) /\ Len(auth) \in Nat /\ Len(auth) >= 1
          /\ \A i \in 1..Len(auth) : auth[i] # "/"
          /\ auth = h /\ FirstOf(auth, ":", 1) = 0
      BY <1>1, <1>4, <2>1, <2>2, <2>3
    <2> QED BY <1>5, <2>4 DEF h, auth
  <1>6. CASE p.port # <<>>
    <2>1. PICK w \in Words : p.port = <<w>> BY <1>1, <1>6
    <2> DEFINE port == <<w>>
    <2>2. /\ port \in Seq(Text) /\ Len(port) = 1 /\ port[1] = w /\ Head(port) = w /\ port # <<>>
          /\ w # "/"
      BY <1>2
    <2>3. auth = h \o (<<":">> \o port) BY <1>6, <2>1 DEF Authority, h
    <2> HIDE DEF port
    <2>4. auth = h \o <<":">> \o port BY <1>1, <1>3, <2>2, <2>3, ConcatAssociative
    <2>5. \A i \in 1..Len(h) : h[i] # ":" BY <1>1, <1>2
    <2> HIDE DEF auth
    <2>6. /\ auth \in Seq(Text) /\ FirstOf(auth, ":", 1) = Len(h) + 1 /\ Len(h) + 1 # 0
          /\ UpTo(auth, Len(h) + 1) = h /\ After(auth, Len(h) + 1) = port
      <3>1. LET s == h \o <<":">> \o port
            IN  /\ s \in Seq(Text) /\ FirstOf(s, ":", 1) = Len(h) + 1 /\ Len(h) + 1 # 0
                /\ UpTo(s, Len(h) + 1) = h /\ After(s, Len(h) + 1) = port
        BY <1>1, <1>3, <2>2, <2>5, CutAt
      <3> QED BY <2>4, <3>1, Zenon
    <2>7. Atoi(port) = Number[w] BY <2>2 DEF Atoi
    <2>8. Len(auth) = Len(h) + 2 /\ \A i \in 1..Len(auth) : auth[i] # "/"
      <3> DEFINE c == h \o <<":">>
      <3>1. c \in Seq(Text) /\ Len(c) = Len(h) + 1 /\ \A i \in 1..(Len(h) + 1) :
              c[i] = IF i <= Len(h) THEN h[i] ELSE <<":">>[i - Len(h)]
        BY <1>1, <1>3, ConcatProperties
      <3>2. auth = c \o port BY <2>4
      <3> HIDE DEF c
      <3>3. Len(auth) = Len(c) + Len(port) /\ \A i \in 1..(Len(c) + Len(port)) :
              auth[i] = IF i <= Len(c) THEN c[i] ELSE port[i - Len(c)]
        <4>1. Len(c \o port) = Len(c) + Len(port) /\ \A i \in 1..(Len(c) + Len(port)) :
                (c \o port)[i] = IF i <= Len(c) THEN c[i] ELSE port[i - Len(c)]
          BY <2>2, <3>1, ConcatProperties
        <4> QED BY <3>2, <4>1, Zenon
      <3>4. \A i \in 1..Len(h) : h[i] # "/" BY <1>1, <1>2
      <3>5. ASSUME NEW i \in 1..Len(auth) PROVE auth[i] # "/"
        <4>1. CASE i \in 1..Len(h) BY <1>4, <2>2, <3>1, <3>3, <3>4, <4>1
        <4>2. CASE i = Len(h) + 1
          <5>1. auth[i] = c[i] /\ c[i] = <<":">>[i - Len(h)] /\ i - Len(h) = 1
            BY <1>4, <2>2, <3>1, <3>3, <4>2
          <5> QED BY <1>3, <5>1
        <4>3. CASE i = Len(h) + 2
          <5>1. auth[i] = port[1] BY <1>4, <2>2, <3>1, <3>3, <4>3
          <5> QED BY <2>2, <5>1
        <4> QED BY <1>4, <2>2, <3>1, <3>3, <4>1, <4>2, <4>3
      <3> QED BY <1>4, <2>2, <3>1, <3>3, <3>5
    <2>9. /\ auth \in Seq(Text) /\ Len(auth) \in Nat /\ Len(auth) >= 1
          /\ \A i \in 1..Len(auth) : auth[i] # "/"
          /\ FirstOf(auth, ":", 1) # 0 /\ UpTo(auth, FirstOf(auth, ":", 1)) = h
          /\ Atoi(After(auth, FirstOf(auth, ":", 1))) = Number[Head(p.port)]
      BY <1>4, <2>1, <2>2, <2>6, <2>7, <2>8 DEF port
    <2> QED BY <1>6, <2>9 DEF h, auth
  <1> QED BY <1>5, <1>6

Behind(p) == p.path \o WrittenQuery(p.params)

LEMMA WrittenIs ==
  ASSUME NEW p, WellFormed(p)
  PROVE  Written(p) = (p.protocol \o Scheme) \o (Authority(p) \o Behind(p))
  <1> DEFINE a == p.protocol \o Scheme  h == p.host  path == p.path  q == WrittenQuery(p.params)
             port == IF p.port = <<>> THEN <<>> ELSE <<":">> \o p.port
             auth == h \o port  b == path \o q
  <1>1. /\ a \in Seq(Text) /\ h \in Seq(Text) /\ path \in Seq(Text) /\ q \in Seq(Text)
    BY PartsAre, ConcatProperties
  <1>2. port \in Seq(Text)
    <2>1. p.port = <<>> \/ \E w \in Words : p.port = <<w>> BY PartsAre
    <2>2. CASE p.port = <<>> BY <2>2, EmptySeq
    <2>3. CASE p.port # <<>>
      <3>1. PICK w \in Words : p.port = <<w>> BY <2>1, <2>3
      <3>2. <<":">> \in Seq(Text) /\ <<w>> \in Seq(Text) BY DEF Text, Marks
      <3>3. <<":">> \o <<w>> \in Seq(Text) BY <3>2, ConcatProperties
      <3> QED BY <2>3, <3>1, <3>3
    <2> QED BY <2>2, <2>3
  <1>3. Written(p) = a \o h \o port \o path \o q BY DEF Written, Scheme
  <1>4. Authority(p) = auth /\ Behind(p) = b BY DEF Authority, Behind
  <1> HIDE DEF a, h, path, q, port
  <1>5. auth \in Seq(Text) /\ b \in Seq(Text) BY <1>1, <1>2, ConcatProperties
  <1>6. (a \o h) \o port = a \o auth BY <1>1, <1>2, ConcatAssociative
  <1> HIDE DEF auth
  <1>7. a \o auth \in Seq(Text) BY <1>1, <1>5, ConcatProperties
  <1> DEFINE f == a \o auth
  <1>8. (f \o path) \o q = f \o b
    <2>1. f \in Seq(Text) BY <1>7
    <2> HIDE DEF f
    <2> QED BY <1>1, <2>1, ConcatAssociative
  <1> HIDE DEF b
  <1>9. f \o b = a \o (auth \o b) BY <1>1, <1>5, ConcatAssociative
  <1>10. a \o h \o port \o path \o q = (f \o path) \o q BY <1>6
  <1> HIDE DEF f
  <1>11. Written(p) = a \o (auth \o b) BY <1>3, <1>8, <1>9, <1>10
  <1> QED BY <1>4, <1>11 DEF a

LEMMA HostComesApart ==
  ASSUME NEW o, DOMAIN o = LinkFields, NEW p, WellFormed(p)
  PROVE  LET h == WithHost(o, Authority(p))
         IN  /\ DOMAIN h = LinkFields /\ h.host = p.host
             /\ h.port = IF p.port = <<>> THEN o.port ELSE Number[Head(p.port)]
             /\ \A f \in LinkFields \ {"host", "port"} : h[f] = o[f]
  <1> DEFINE auth == Authority(p)  colon == FirstOf(auth, ":", 1)  number == Number[Head(p.port)]
             host == p.host
  <1>1. p.port = <<>> => auth = host /\ colon = 0 BY AuthorityIs
  <1>2. p.port # <<>> => colon # 0 /\ UpTo(auth, colon) = host /\ Atoi(After(auth, colon)) = number
    BY AuthorityIs
  <1>3. p.port = <<>> => WithHost(o, auth) = [o EXCEPT !.host = host]
    BY <1>1 DEF WithHost
  <1>4. p.port # <<>> => WithHost(o, auth) = [o EXCEPT !.host = host, !.port = number]
    BY <1>2 DEF WithHost
  <1> HIDE DEF auth, host, number
  <1>5. LET h == WithHost(o, auth)
        IN  /\ DOMAIN h = LinkFields /\ h.host = host
            /\ h.port = IF p.port = <<>> THEN o.port ELSE number
            /\ \A f \in LinkFields \ {"host", "port"} : h[f] = o[f]
    BY <1>3, <1>4 DEF LinkFields
  <1> QED BY <1>5 DEF auth, host, number

LEMMA AfterConcat ==
  ASSUME NEW S, NEW a \in Seq(S), NEW b \in Seq(S), Len(b) >= 1
  PROVE  After(a \o b, Len(a) + 1) = After(b, 1)
  <1> DEFINE s == a \o b  A == Len(a)  B == Len(b)
             c == SubSeq(s, A + 2, A + B)  d == SubSeq(b, 2, B)
  <1>1. /\ s \in Seq(S) /\ Len(s) = A + B /\ A \in Nat /\ B \in Nat
        /\ \A i \in 1..(A + B) : s[i] = IF i <= A THEN a[i] ELSE b[i - A]
    BY ConcatProperties, LenProperties
  <1>2. B >= 1 OBVIOUS
  <1> HIDE DEF s, A, B
  <1>3. \A i \in (A + 2)..(A + B) : s[i] \in S
    <2>1. \A i \in 1..Len(s) : s[i] \in S BY <1>1, ElementOfSeq
    <2> QED BY <1>1, <2>1
  <1>4. \A i \in 2..B : b[i] \in S
    <2>1. \A i \in 1..Len(b) : b[i] \in S BY ElementOfSeq
    <2> QED BY <1>1, <2>1 DEF B
  <1>5. /\ c \in Seq(S) /\ Len(c) = IF A + 2 <= A + B THEN A + B - (A + 2) + 1 ELSE 0
        /\ \A i \in 1..(A + B - (A + 2) + 1) : c[i] = s[A + 2 + i - 1]
    BY <1>1, <1>3, SubSeqProperties
  <1>6. /\ d \in Seq(S) /\ Len(d) = IF 2 <= B THEN B - 2 + 1 ELSE 0
        /\ \A i \in 1..(B - 2 + 1) : d[i] = b[2 + i - 1]
    BY <1>1, <1>4, SubSeqProperties
  <1>7. Len(c) = B - 1 /\ Len(d) = B - 1 BY <1>1, <1>2, <1>5, <1>6
  <1>8. ASSUME NEW i \in 1..(B - 1) PROVE c[i] = d[i]
    <2>1. i \in 1..(A + B - (A + 2) + 1) /\ i \in 1..(B - 2 + 1) BY <1>1
    <2>2. /\ A + 2 + i - 1 \in 1..(A + B) /\ ~(A + 2 + i - 1 <= A)
          /\ A + 2 + i - 1 - A = 2 + i - 1
      BY <1>1
    <2> QED BY <1>1, <1>5, <1>6, <2>1, <2>2
  <1> HIDE DEF c, d
  <1>9. c = d BY <1>5, <1>6, <1>7, <1>8, SeqEqual
  <1>10. After(s, A + 1) = c /\ After(b, 1) = d
    <2>1. A + 1 + 1 = A + 2 /\ 1 + 1 = 2 BY <1>1
    <2>2. After(b, 1) = SubSeq(b, 1 + 1, Len(b)) BY DEF After
    <2>3. After(s, A + 1) = SubSeq(s, A + 1 + 1, A + B) BY <1>1 DEF After
    <2> QED BY <2>1, <2>2, <2>3 DEF c, d, B
  <1> QED BY <1>9, <1>10 DEF s, A

LEMMA PathComesApart ==
  ASSUME NEW o, DOMAIN o = LinkFields, NEW p, WellFormed(p),
         DOMAIN o.values \subseteq NamesOf(p.params)
  PROVE  LET r == ParsePath(o, Behind(p))
         IN  /\ r.code = 0 /\ DOMAIN r.object = LinkFields /\ r.object.uri = p.path
             /\ LastWins(r.object.values, p.params)
             /\ \A f \in LinkFields \ {"uri", "values"} : r.object[f] = o[f]
  <1> DEFINE path == p.path  params == p.params  W == WrittenQuery(params)  b == Behind(p)
             mark == FirstOf(b, "?", 1)
  <1>1. /\ path \in Seq(Text) /\ W \in Seq(Text) /\ params \in Params
        /\ \A i \in 1..Len(path) : path[i] # "?"
        /\ params = <<>> => W = <<>>
    BY PartsAre
  <1>2. b = path \o W BY DEF Behind
  <1>3. Len(path) \in Nat BY <1>1, LenProperties
  <1>4. DOMAIN o.values \subseteq NamesOf(params) OBVIOUS
  <1> HIDE DEF path, params, W, b
  <1>5. CASE params = <<>>
    <2>1. b = path BY <1>1, <1>2, <1>5, ConcatEmptySeq
    <2>2. FirstOf(path, "?", 1) = 0 BY <1>1, <1>3, FirstOfNone
    <2>3. ParsePath(o, b) = Result(0, [o EXCEPT !.uri = path]) BY <2>1, <2>2 DEF ParsePath
    <2>4. DOMAIN params = {}
      <3>1. Len(params) = 0 /\ DOMAIN params = 1..Len(params) BY <1>1, <1>5, EmptySeq, LenProperties DEF Params
      <3> QED BY <3>1
    <2>5. LastWins(o.values, params) BY <1>4, <2>4 DEF LastWins, NamesOf
    <2>6. LET r == ParsePath(o, b)
          IN  /\ r.code = 0 /\ DOMAIN r.object = LinkFields /\ r.object.uri = path
              /\ r.object.values = o.values
              /\ \A f \in LinkFields \ {"uri", "values"} : r.object[f] = o[f]
      BY <2>3 DEF Result, LinkFields
    <2> QED BY <2>5, <2>6 DEF path, params, b
  <1>6. CASE params # <<>>
    <2>1. Len(W) \in Nat /\ Len(W) >= 1 /\ W[1] = "?" BY <1>1, <1>6, QueryIs DEF W
    <2>2. mark = Len(path) + 1
      <3>1. Len(b) = Len(path) + Len(W) /\ \A i \in 1..(Len(path) + Len(W)) :
              b[i] = IF i <= Len(path) THEN path[i] ELSE W[i - Len(path)]
        <4>1. Len(path \o W) = Len(path) + Len(W) /\ \A i \in 1..(Len(path) + Len(W)) :
                (path \o W)[i] = IF i <= Len(path) THEN path[i] ELSE W[i - Len(path)]
          BY <1>1, ConcatProperties
        <4> QED BY <1>2, <4>1, Zenon
      <3>2. b[Len(path) + 1] = "?" BY <1>3, <2>1, <3>1
      <3>3. \A i \in 1..(Len(path) + 1 - 1) : b[i] # "?" BY <1>1, <1>3, <2>1, <3>1
      <3>4. Len(b) \in Nat /\ Len(path) + 1 \in 1..Len(b) BY <1>3, <2>1, <3>1
      <3> QED BY <3>2, <3>3, <3>4, FirstOfAt
    <2> HIDE DEF mark
    <2>3. UpTo(b, mark) = path BY <1>1, <1>2, <2>2, FrontConcat
    <2>4. After(b, mark) = QueryOf(params) BY <1>1, <1>2, <2>1, <2>2, AfterConcat DEF QueryOf, W
    <2>5. mark # 0 BY <1>3, <2>2
    <2> DEFINE q == QueryOf(params)  values == Stored(o.values, q)
    <2>6. QueryCode(q) = 0 BY <1>1, <1>6, QueryComesApart
    <2>7. LastWins(values, params) BY <1>1, <1>4, <1>6, StoredIs
    <2> HIDE DEF q, values
    <2>8. ParsePath(o, b) = Result(0, [o EXCEPT !.uri = path, !.values = values])
      <3>1. ParsePath(o, b) = Result(QueryCode(After(b, mark)),
                                     [o EXCEPT !.uri = UpTo(b, mark), !.values = Stored(o.values, After(b, mark))])
        BY <2>5 DEF ParsePath, mark
      <3>2. After(b, mark) = q BY <2>4 DEF q
      <3> QED BY <2>3, <2>6, <3>1, <3>2 DEF values
    <2>9. LET r == ParsePath(o, b)
          IN  /\ r.code = 0 /\ DOMAIN r.object = LinkFields /\ r.object.uri = path
              /\ r.object.values = values
              /\ \A f \in LinkFields \ {"uri", "values"} : r.object[f] = o[f]
      <3> DEFINE z == [o EXCEPT !.uri = path, !.values = values]
      <3>1. /\ DOMAIN z = LinkFields /\ z.uri = path /\ z.values = values
            /\ \A f \in LinkFields \ {"uri", "values"} : z[f] = o[f]
        BY DEF LinkFields
      <3>2. ParsePath(o, b).code = 0 /\ ParsePath(o, b).object = z BY <2>8 DEF Result
      <3> HIDE DEF z
      <3> QED BY <3>1, <3>2
    <2> QED BY <2>7, <2>9 DEF path, params, b
  <1> QED BY <1>5, <1>6

(***************************************************************************)
(* Parser takes a written URL apart, in an object whose values and port    *)
(* are a new object's or those of an earlier call for the same URL.  A     *)
(* port it does not find is left as it was: d.                             *)
(***************************************************************************)
LEMMA WrittenComesApart ==
  ASSUME NEW o, DOMAIN o = LinkFields, NEW p, WellFormed(p), o.url = Written(p), NEW d,
         p.path # <<>> => /\ DOMAIN o.values \subseteq NamesOf(p.params)
                          /\ p.port = <<>> => o.port = d
  PROVE  LET r == Parser(o)
         IN  /\ r.code = 0
             /\ IF p.path # <<>> THEN Describes(r.object, p, d)
                ELSE /\ r.object.values = o.values /\ r.object.port = o.port
                     /\ r.object.host = After(o.url, Len(p.protocol) + 3)
  <1> DEFINE url == o.url  auth == Authority(p)  b == Behind(p)  rest == auth \o b
             k == Len(p.protocol) + 1
             o1 == [o EXCEPT !.protocol = p.protocol]
             path == p.path  W == WrittenQuery(p.params)
  <1>1. /\ p.protocol \in Seq(Words) /\ path \in Seq(Text) /\ W \in Seq(Text)
        /\ Len(p.protocol) \in Nat
    BY PartsAre, LenProperties
  <1>2. /\ auth \in Seq(Text) /\ Len(auth) \in Nat /\ Len(auth) >= 1
        /\ \A i \in 1..Len(auth) : auth[i] # "/"
    BY AuthorityIs
  <1>3. b = path \o W BY DEF Behind
  <1>4. b \in Seq(Text) /\ Len(b) \in Nat BY <1>1, <1>3, ConcatProperties, LenProperties
  <1>5. url = (p.protocol \o Scheme) \o rest BY WrittenIs
  <1> HIDE DEF auth, b, url, W
  <1>6. /\ rest \in Seq(Text) /\ Len(rest) = Len(auth) + Len(b)
        /\ \A i \in 1..(Len(auth) + Len(b)) :
             rest[i] = IF i <= Len(auth) THEN auth[i] ELSE b[i - Len(auth)]
    BY <1>2, <1>4, ConcatProperties
  <1>7. SchemeEnd(url) = k /\ k # 0 /\ UpTo(url, k) = p.protocol /\ After(url, k + 2) = rest
    <2>1. LET s == (p.protocol \o Scheme) \o rest
          IN  SchemeEnd(s) = k /\ k # 0 /\ UpTo(s, k) = p.protocol /\ After(s, k + 2) = rest
      <3> HIDE DEF rest
      <3> QED BY <1>1, <1>6, SchemeIs
    <2> QED BY <1>5, <2>1, Zenon
  <1>8. /\ DOMAIN o1 = LinkFields /\ o1.protocol = p.protocol
        /\ \A f \in LinkFields \ {"protocol"} : o1[f] = o[f]
    BY DEF LinkFields
  <1>9. Parser(o) = ParseHost(o1, rest)
    <2>1. url = o.url BY DEF url
    <2> HIDE DEF rest, k
    <2> QED BY <1>7, <2>1 DEF Parser
  <1> HIDE DEF o1
  <1>10. CASE path = <<>>
    <2>1. b = W BY <1>1, <1>3, <1>10, ConcatEmptySeq
    <2>2. \A i \in 1..Len(b) : b[i] # "/"
      <3>1. DOMAIN W = 1..Len(W) BY <1>1, LenProperties
      <3>2. \A i \in DOMAIN W : W[i] # "/" BY <1>10 DEF WellFormed, W
      <3> QED BY <2>1, <3>1, <3>2
    <2>3. \A i \in 1..Len(rest) : rest[i] # "/" BY <1>2, <1>4, <1>6, <2>2
    <2>4. Len(rest) \in Nat /\ Len(rest) >= 1 BY <1>2, <1>4, <1>6
    <2> HIDE DEF rest
    <2>5. FirstOf(rest, "/", 1) = 0 /\ rest # <<>> BY <2>3, <2>4, FirstOfNone, EmptySeq
    <2>6. Parser(o) = Result(0, [o1 EXCEPT !.host = rest]) BY <1>9, <2>5 DEF ParseHost
    <2>7. /\ Parser(o).code = 0 /\ Parser(o).object.values = o.values
          /\ Parser(o).object.port = o.port /\ Parser(o).object.host = rest
      BY <1>8, <2>6 DEF Result, LinkFields
    <2>8. After(o.url, Len(p.protocol) + 3) = rest
      <3>1. k + 2 = Len(p.protocol) + 3 BY <1>1
      <3> QED BY <1>7, <3>1 DEF url
    <2> QED BY <1>10, <2>7, <2>8
  <1>11. CASE path # <<>>
    <2>1. Len(path) \in Nat /\ Len(path) >= 1 BY <1>1, <1>11, EmptySeq, LenProperties
    <2>2. path[1] = "/" BY <1>1, <1>11 DEF WellFormed
    <2>3. b[1] = "/" /\ Len(b) >= 1
      <3>1. Len(path \o W) = Len(path) + Len(W) /\ Len(W) \in Nat /\ \A i \in 1..(Len(path) + Len(W)) :
              (path \o W)[i] = IF i <= Len(path) THEN path[i] ELSE W[i - Len(path)]
        BY <1>1, ConcatProperties, LenProperties
      <3>2. (path \o W)[1] = path[1] /\ Len(path \o W) >= 1 BY <2>1, <3>1
      <3> QED BY <1>3, <2>2, <3>2
    <2>4. rest[Len(auth) + 1] = "/" BY <1>2, <1>4, <1>6, <2>3
    <2>5. /\ \A i \in 1..(Len(auth) + 1 - 1) : rest[i] # "/"
          /\ Len(rest) \in Nat /\ Len(auth) + 1 \in 1..Len(rest)
      BY <1>2, <1>4, <1>6, <2>3
    <2> DEFINE slash == Len(auth) + 1
    <2>6. UpTo(rest, slash) = auth BY <1>2, <1>4, FrontConcat
    <2>7. SubSeq(rest, slash, Len(rest)) = b BY <1>2, <1>4, BehindConcat
    <2> HIDE DEF rest
    <2>8. FirstOf(rest, "/", 1) = slash BY <2>4, <2>5, FirstOfAt
    <2>9. slash # 0 /\ slash # 1 BY <1>2
    <2> HIDE DEF slash
    <2> DEFINE o2 == WithHost(o1, auth)  r == ParsePath(o2, b)
    <2>10. Parser(o) = r BY <1>9, <2>6, <2>7, <2>8, <2>9 DEF ParseHost
    <2>11. /\ DOMAIN o2 = LinkFields /\ o2.host = p.host
           /\ o2.port = IF p.port = <<>> THEN o1.port ELSE Number[Head(p.port)]
           /\ \A f \in LinkFields \ {"host", "port"} : o2[f] = o1[f]
      BY <1>8, HostComesApart DEF auth
    <2> HIDE DEF o2
    <2>12. o2.values = o.values /\ o2.protocol = p.protocol /\ o1.port = o.port
      BY <1>8, <2>11 DEF LinkFields
    <2>13. DOMAIN o2.values \subseteq NamesOf(p.params) BY <1>11, <2>12
    <2>14. /\ r.code = 0 /\ DOMAIN r.object = LinkFields /\ r.object.uri = p.path
           /\ LastWins(r.object.values, p.params)
           /\ \A f \in LinkFields \ {"uri", "values"} : r.object[f] = o2[f]
      BY <2>11, <2>13, PathComesApart DEF b
    <2> HIDE DEF r
    <2>15. /\ r.object.protocol = p.protocol /\ r.object.host = p.host
           /\ r.object.port = IF p.port = <<>> THEN d ELSE Number[Head(p.port)]
      BY <1>11, <2>11, <2>12, <2>14 DEF LinkFields
    <2>16. Describes(r.object, p, d)
      BY <2>14, <2>15 DEF Describes, LastWins, NamesOf
    <2> QED BY <1>11, <2>10, <2>14, <2>16
  <1> QED BY <1>10, <1>11

(***************************************************************************)
(* UrlComesApart is not inductive by itself: Fresh says what an object     *)
(* holds before its Parser is called.                                      *)
(***************************************************************************)
Fresh  == code = Unset => link.values = <<>> /\ link.port = Default
UrlInv == UrlComesApart /\ Fresh

LEMMA UrlStep == HttpInv /\ UrlInv /\ [Next]_vars => UrlInv'
  <1> SUFFICES ASSUME HttpInv, UrlInv, [Next]_vars PROVE UrlInv'
    OBVIOUS
  <1>1. CASE UNCHANGED linkVars BY <1>1 DEF UrlInv, UrlComesApart, Fresh, Default, linkVars
  <1>2. ASSUME NEW url \in Urls, NewLink(url) PROVE UrlInv'
    <2>1. UrlParser(url).port = Unset BY DEF UrlParser
    <2> QED BY <1>2, <2>1, NewLinkIs DEF NewLink, UrlInv, UrlComesApart, Fresh, Default
  <1>3. ASSUME NEW url \in Urls, SetLink(url) PROVE UrlInv'
    <2>1. DOMAIN link = LinkFields BY DEF HttpInv, Objects
    <2> QED BY <1>3, <2>1, SetUrlIs DEF SetLink, UrlInv, UrlComesApart, Fresh, Default
  <1>4. CASE ParseLink
    <2>1. DOMAIN link = LinkFields /\ link.port \in Ports BY DEF HttpInv, Objects
    <2>2. /\ link' = Parser(link).object /\ code' = Parser(link).code
          /\ Default' = Default
      BY <1>4 DEF ParseLink, Default
    <2>3. link'.url = link.url /\ code' \in {0, -1, -2, -3, -4, -5} BY <2>1, <2>2, ParserIs
    <2>4. code' # Unset BY <2>3, NumberAssumption
    <2>5. ASSUME NEW p \in Parts, link.url = Written(p)
          PROVE  /\ code' = 0
                 /\ IF p.path # <<>> THEN Describes(link', p, Default)
                    ELSE /\ link'.values = <<>> /\ link'.port = Default
                         /\ link'.host = After(link'.url, Len(p.protocol) + 3)
      <3>1. WellFormed(p) BY PartsAssumption
      <3>2. p.path # <<>> => /\ DOMAIN link.values \subseteq NamesOf(p.params)
                             /\ p.port = <<>> => link.port = Default
        <4>1. CASE code = Unset
          <5>1. DOMAIN link.values = {} /\ link.port = Default
            BY <4>1, EmptySeq DEF UrlInv, Fresh
          <5> QED BY <5>1
        <4>2. CASE code # Unset
          <5>1. p.path # <<>> => Describes(link, p, Default) BY <2>5, <4>2 DEF UrlInv, UrlComesApart
          <5> QED BY <5>1 DEF Describes, NamesOf
        <4> QED BY <4>1, <4>2
      <3>3. p.path = <<>> => link.values = <<>> /\ link.port = Default
        BY <2>5 DEF UrlInv, UrlComesApart, Fresh
      <3>4. /\ Parser(link).code = 0
            /\ IF p.path # <<>> THEN Describes(Parser(link).object, p, Default)
               ELSE /\ Parser(link).object.values = link.values
                    /\ Parser(link).object.port = link.port
                    /\ Parser(link).object.host = After(link.url, Len(p.protocol) + 3)
        BY <2>1, <2>5, <3>1, <3>2, WrittenComesApart
      <3> QED BY <2>2, <2>3, <3>3, <3>4
    <2>6. UrlComesApart' BY <2>2, <2>3, <2>5 DEF UrlComesApart
    <2> QED BY <2>4, <2>6 DEF UrlInv, Fresh
  <1> QED BY <1>1, <1>2, <1>3, <1>4 DEF Next, Feed, Serve, vars

(***************************************************************************)
(* A URL of any length, with any number of parameters, comes apart into    *)
(* the parts it was written from, however often the object is used again;  *)
(* a port that is not there is 80 after SetUrl and never set after the     *)
(* constructor (HttpParser.cpp:148-223).                                   *)
(***************************************************************************)
THEOREM UrlComesApartHolds == Spec => []UrlComesApart
  <1>1. Init => UrlInv
    <2> SUFFICES ASSUME Init PROVE UrlInv
      OBVIOUS
    <2>1. code = Unset /\ link.values = <<>> /\ link.port = Unset /\ ~isSet
      BY DEF Init, UrlParser
    <2> QED BY <2>1 DEF UrlInv, UrlComesApart, Fresh, Default
  <1>2. UrlInv => UrlComesApart BY DEF UrlInv
  <1> QED BY <1>1, <1>2, UrlStep, HttpInvHolds, PTL DEF Spec
-----------------------------------------------------------------------------
(***************************************************************************)
(* What m_url holds: the URL tokens of the last run of them that was       *)
(* taken, from a to b, or what it held before the call.  A run goes on     *)
(* from the span the library keeps; a method and a new call begin one.     *)
(***************************************************************************)
Spells(u, data, n) ==
  \E a, b \in 1..n :
    /\ a <= b /\ \A i \in a..b : data[i][1] = "url"
    /\ \A i \in (b + 1)..n : data[i][1] # "url"
    /\ a = 1 \/ data[a - 1][1] # "url"
    /\ u \in Seq(Text) /\ Len(u) = b + 1 - a
    /\ \A i \in 1..Len(u) : u[i] = data[a + i - 1][2]

InUrl(data, n) == n # 0 /\ data[n][1] = "url"

Tracks(e, o, data) ==
  /\ (\A i \in 1..e.taken : data[i][1] # "url") => e.url = o.url
  /\ (\E i \in 1..e.taken : data[i][1] = "url") => Spells(e.url, data, e.taken)
  /\ InUrl(data, e.taken) => e.span = e.url
  /\ e.phase \in {"target", "url"} /\ ~InUrl(data, e.taken) => e.span = <<>>

LEMMA SpellsFrom ==
  ASSUME NEW u \in Seq(Text), NEW data, NEW n, NEW a \in 1..n, NEW b \in 1..n,
         a <= b, \A i \in a..b : data[i][1] = "url", \A i \in (b + 1)..n : data[i][1] # "url",
         a = 1 \/ data[a - 1][1] # "url", Len(u) = b + 1 - a,
         \A i \in 1..Len(u) : u[i] = data[a + i - 1][2]
  PROVE  Spells(u, data, n)
  BY DEF Spells

LEMMA MaxUnique ==
  ASSUME NEW S \in SUBSET Nat, NEW x \in S, \A y \in S : y <= x
  PROVE  Max(S) = x
  <1>1. Max(S) \in S /\ \A y \in S : y <= Max(S) BY MaxIs
  <1>2. Max(S) <= x /\ x <= Max(S) /\ Max(S) \in Nat /\ x \in Nat BY <1>1
  <1> QED BY <1>2

(***************************************************************************)
(* Two descriptions of a run of URL tokens are the same: the run is the    *)
(* last one, and as long as it can be.                                     *)
(***************************************************************************)
LEMMA SpellsLastUrl ==
  ASSUME NEW read \in Seq(Tokens), NEW u, Spells(u, read, Len(read))
  PROVE  u = LastUrl(read)
  <1>0. Len(read) \in Nat /\ DOMAIN read = 1..Len(read) BY LenProperties
  <1>1. PICK a, b \in 1..Len(read) :
          /\ a <= b /\ \A i \in a..b : read[i][1] = "url"
          /\ \A i \in (b + 1)..Len(read) : read[i][1] # "url"
          /\ a = 1 \/ read[a - 1][1] # "url"
          /\ u \in Seq(Text) /\ Len(u) = b + 1 - a
          /\ \A i \in 1..Len(u) : u[i] = read[a + i - 1][2]
    BY DEF Spells
  <1> DEFINE first == {i \in 1..b : i - 1 \notin Seen(read)}
  <1>2. Max(Seen(read)) = b
    <2>1. Seen(read) \in SUBSET Nat /\ b \in Seen(read) BY <1>0, <1>1 DEF Seen
    <2>2. \A y \in Seen(read) : y <= b BY <1>0, <1>1 DEF Seen
    <2> QED BY <2>1, <2>2, MaxUnique
  <1>3. Max(first) = a
    <2>1. first \in SUBSET Nat BY <1>0, <1>1
    <2>2. a \in first BY <1>0, <1>1 DEF Seen
    <2>3. \A y \in first : y <= a
      <3> SUFFICES ASSUME NEW y \in first, a < y PROVE FALSE BY <1>0, <1>1
      <3>1. y - 1 \in a..b /\ y - 1 \in 1..Len(read) BY <1>0, <1>1
      <3>2. y - 1 \in Seen(read) BY <1>0, <1>1, <3>1 DEF Seen
      <3> QED BY <3>2
    <2> HIDE DEF first
    <2> QED BY <2>1, <2>2, <2>3, MaxUnique
  <1>4. LastUrl(read) = [i \in 1..(b + 1 - a) |-> read[a + i - 1][2]]
    BY <1>2, <1>3 DEF LastUrl
  <1>5. u \in [1..(b + 1 - a) -> Text] BY <1>1, LenProperties
  <1> HIDE DEF first
  <1> QED BY <1>1, <1>4, <1>5

LEMMA TakesUrl ==
  ASSUME NEW e \in Parsers, NEW t \in Tokens, e.errno = "ok", Fits(e, t)
  PROVE  LET f == Take(e, t)
         IN  /\ t[1] = "url" => /\ e.phase \in {"target", "url"}
                                /\ f.span = Append(e.span, t[2]) /\ f.url = f.span
             /\ t[1] = "method" => f.phase = "target" /\ f.span = <<>> /\ f.url = e.url
             /\ t[1] \notin {"method", "url"} => f.phase \notin {"target", "url"} /\ f.url = e.url
             /\ f.taken = e.taken + 1
  <1> DEFINE m == CHOOSE x \in Moves : x[1] = e.phase /\ x[2] = t[1]
             g == [e EXCEPT !.phase = m[3], !.taken = e.taken + 1]
  <1>1. m \in Moves /\ m[1] = e.phase /\ m[2] = t[1] BY DEF Fits
  <1> HIDE DEF m
  <1>2. Take(e, t) = Callback(g, t) BY DEF Take, Moved, m
  <1>3. /\ t[1] = "url" => e.phase \in {"target", "url"}
        /\ t[1] = "method" => m[3] = "target"
        /\ t[1] \notin {"method", "url"} => m[3] \notin {"target", "url"}
    BY <1>1 DEF Moves
  <1>4. DOMAIN e = {"phase", "errno", "taken", "span", "method", "url", "headers", "lastField",
                    "body", "complete"}
    BY DEF Parsers
  <1>5. /\ g.phase = m[3] /\ g.taken = e.taken + 1 /\ g.span = e.span /\ g.url = e.url
        /\ DOMAIN g = DOMAIN e
    BY <1>4
  <1> HIDE DEF g
  <1>6. CASE t[1] = "url"
    <2>1. Callback(g, t) = [g EXCEPT !.span = Append(g.span, t[2]), !.url = Append(g.span, t[2])]
      BY <1>6 DEF Callback, OnUrl
    <2> QED BY <1>2, <1>3, <1>4, <1>5, <1>6, <2>1
  <1>7. CASE t[1] = "method"
    <2>1. Callback(g, t) = [g EXCEPT !.method = t[2], !.span = <<>>]
      BY <1>7 DEF Callback, OnMessageBegin
    <2> QED BY <1>2, <1>3, <1>4, <1>5, <1>7, <2>1
  <1>8. CASE t[1] \notin {"method", "url"}
    <2>1. /\ Callback(g, t).url = g.url /\ Callback(g, t).phase = g.phase
          /\ Callback(g, t).taken = g.taken
      BY <1>4, <1>5, <1>8 DEF Callback, OnHeaderField, OnHeaderValue, OnBody, OnMessageComplete
    <2> QED BY <1>2, <1>3, <1>5, <1>8, <2>1
  <1> QED BY <1>6, <1>7, <1>8

(* One token more.                                                         *)
LEMMA TrackOn ==
  ASSUME NEW e \in Parsers, NEW o, NEW data \in Seq(Tokens), e.taken + 1 \in 1..Len(data),
         e.errno = "ok", Fits(e, data[e.taken + 1]), Tracks(e, o, data)
  PROVE  Tracks(Take(e, data[e.taken + 1]), o, data)
  <1> DEFINE n == e.taken  t == data[n + 1]  f == Take(e, t)
  <1>1. n \in Nat /\ t \in Tokens /\ e.url \in Seq(Text) /\ e.span \in Seq(Text)
    BY DEF Parsers
  <1>2. /\ t[1] = "url" => /\ e.phase \in {"target", "url"}
                           /\ f.span = Append(e.span, t[2]) /\ f.url = f.span
        /\ t[1] = "method" => f.phase = "target" /\ f.span = <<>> /\ f.url = e.url
        /\ t[1] \notin {"method", "url"} => f.phase \notin {"target", "url"} /\ f.url = e.url
        /\ f.taken = n + 1
    BY <1>1, TakesUrl
  <1>3. t[1] = "url" => t[2] \in Text BY <1>1, TokenFacts
  <1>4. InUrl(data, n + 1) <=> t[1] = "url" BY <1>1 DEF InUrl
  <1> SUFFICES Tracks(f, o, data) OBVIOUS
  <1> HIDE DEF f
  <1>5. CASE t[1] = "url"
    <2>1. Spells(f.url, data, n + 1)
      <3>1. CASE InUrl(data, n)
        <4>1. e.span = e.url /\ Spells(e.url, data, n)
          BY <1>1, <3>1 DEF Tracks, InUrl
        <4>2. PICK a, b \in 1..n :
                /\ a <= b /\ \A i \in a..b : data[i][1] = "url"
                /\ \A i \in (b + 1)..n : data[i][1] # "url"
                /\ a = 1 \/ data[a - 1][1] # "url"
                /\ Len(e.url) = b + 1 - a
                /\ \A i \in 1..Len(e.url) : e.url[i] = data[a + i - 1][2]
          BY <4>1 DEF Spells
        <4>3. b = n
          <5>1. data[n][1] = "url" /\ n \in 1..n BY <1>1, <3>1 DEF InUrl
          <5>2. n \notin (b + 1)..n BY <4>2, <5>1
          <5> QED BY <1>1, <5>2
        <4>4. /\ f.url \in Seq(Text) /\ Len(f.url) = Len(e.url) + 1
              /\ \A i \in 1..Len(e.url) : f.url[i] = e.url[i]
              /\ f.url[Len(e.url) + 1] = t[2]
          <5>1. f.url = Append(e.url, t[2]) /\ t[2] \in Text BY <1>2, <1>3, <1>5, <4>1
          <5> QED BY <1>1, <5>1, AppendProperties
        <4>5. \A i \in 1..Len(f.url) : f.url[i] = data[a + i - 1][2]
          <5> SUFFICES ASSUME NEW i \in 1..Len(f.url) PROVE f.url[i] = data[a + i - 1][2]
            OBVIOUS
          <5>1. CASE i \in 1..Len(e.url) BY <4>2, <4>4, <5>1
          <5>2. CASE i = Len(e.url) + 1
            <6>1. a + i - 1 = n + 1 BY <1>1, <4>2, <4>3, <5>2
            <6> QED BY <4>4, <5>2, <6>1
          <5>3. Len(e.url) \in Nat /\ Len(f.url) = Len(e.url) + 1 BY <1>1, <4>4, LenProperties
          <5>4. i \in 1..Len(e.url) \/ i = Len(e.url) + 1 BY <5>3
          <5> QED BY <5>1, <5>2, <5>4
        <4>6. /\ a \in 1..(n + 1) /\ n + 1 \in 1..(n + 1) /\ a <= n + 1
              /\ \A i \in a..(n + 1) : data[i][1] = "url"
              /\ \A i \in (n + 1 + 1)..(n + 1) : data[i][1] # "url"
              /\ Len(f.url) = n + 1 + 1 - a
          <5>1. a \in 1..(n + 1) /\ n + 1 \in 1..(n + 1) /\ a <= n + 1 BY <1>1, <4>2
          <5>2. \A i \in a..(n + 1) : i \in a..n \/ i = n + 1 BY <1>1, <5>1
          <5>3. (n + 1 + 1)..(n + 1) = {} BY <1>1
          <5>4. \A i \in a..(n + 1) : data[i][1] = "url" BY <1>5, <4>2, <4>3, <5>2
          <5>5. Len(f.url) = n + 1 + 1 - a BY <1>1, <4>2, <4>3, <4>4, <5>1
          <5> QED BY <5>1, <5>3, <5>4, <5>5
        <4>7. f.url \in Seq(Text) /\ (a = 1 \/ data[a - 1][1] # "url") BY <4>2, <4>4
        <4> QED BY <4>5, <4>6, <4>7, SpellsFrom
      <3>2. CASE ~InUrl(data, n)
        <4>1. e.span = <<>> BY <1>2, <1>5, <3>2 DEF Tracks
        <4>2. f.url = <<t[2]>> BY <1>2, <1>5, <4>1
        <4>3. f.url \in Seq(Text) /\ Len(f.url) = 1 /\ f.url[1] = t[2] BY <1>3, <1>5, <4>2
        <4>4. n + 1 = 1 \/ data[n][1] # "url" BY <1>1, <3>2 DEF InUrl
        <4>5. /\ n + 1 \in 1..(n + 1) /\ \A i \in (n + 1)..(n + 1) : data[i][1] = "url"
              /\ \A i \in (n + 1 + 1)..(n + 1) : data[i][1] # "url"
              /\ Len(f.url) = n + 1 + 1 - (n + 1) /\ n + 1 - 1 = n /\ n + 1 <= n + 1
          BY <1>1, <1>5, <4>3
        <4>6. \A i \in 1..Len(f.url) : f.url[i] = data[n + 1 + i - 1][2]
          <5> SUFFICES ASSUME NEW i \in 1..Len(f.url) PROVE f.url[i] = data[n + 1 + i - 1][2]
            OBVIOUS
          <5>1. i = 1 /\ n + 1 + i - 1 = n + 1 BY <1>1, <4>3
          <5> QED BY <4>3, <5>1
        <4>7. n + 1 = 1 \/ data[(n + 1) - 1][1] # "url"
          <5>1. (n + 1) - 1 = n BY <1>1
          <5> QED BY <4>4, <5>1
        <4> QED BY <4>3, <4>5, <4>6, <4>7, SpellsFrom
      <3> QED BY <3>1, <3>2
    <2>2. \E i \in 1..(n + 1) : data[i][1] = "url" BY <1>1, <1>5
    <2> QED BY <1>2, <1>4, <1>5, <2>1, <2>2 DEF Tracks
  <1>6. CASE t[1] # "url"
    <2>1. f.url = e.url /\ (f.phase \in {"target", "url"} => f.span = <<>>) BY <1>2, <1>6
    <2>2. (\A i \in 1..(n + 1) : data[i][1] # "url") => f.url = o.url
      BY <1>1, <2>1 DEF Tracks
    <2>3. ASSUME NEW i \in 1..(n + 1), data[i][1] = "url" PROVE Spells(f.url, data, n + 1)
      <3>1. i \in 1..n BY <1>1, <1>6, <2>3
      <3>2. Spells(e.url, data, n) BY <2>3, <3>1 DEF Tracks
      <3>3. PICK a, b \in 1..n :
              /\ a <= b /\ \A j \in a..b : data[j][1] = "url"
              /\ \A j \in (b + 1)..n : data[j][1] # "url"
              /\ a = 1 \/ data[a - 1][1] # "url"
              /\ Len(e.url) = b + 1 - a
              /\ \A j \in 1..Len(e.url) : e.url[j] = data[a + j - 1][2]
        BY <3>2 DEF Spells
      <3>4. a \in 1..(n + 1) /\ b \in 1..(n + 1) /\ \A j \in (b + 1)..(n + 1) : data[j][1] # "url"
        BY <1>1, <1>6, <3>3
      <3> QED BY <1>1, <2>1, <3>3, <3>4 DEF Spells
    <2> QED BY <1>2, <1>4, <1>6, <2>1, <2>2, <2>3 DEF Tracks
  <1> QED BY <1>5, <1>6

LEMMA RunTracks ==
  ASSUME NEW o \in Parsers, o.complete = FALSE, NEW data \in Seq(Tokens), NEW n \in 0..Len(data)
  PROVE  Tracks(Run(o, data)[n], o, data)
  <1> DEFINE S == {k \in Nat : k <= Len(data) => Tracks(Run(o, data)[k], o, data)}
  <1>1. Len(data) \in Nat OBVIOUS
  <1>2. RunsTo(Run(o, data), o, data, Len(data)) BY <1>1, RunIs
  <1>3. 0 \in S
    <2>1. Run(o, data)[0] = Begun(o) BY <1>1, <1>2 DEF RunsTo
    <2>2. Begun(o).span = <<>> BY DEF Begun, Parsers
    <2>3. Begun(o).taken = 0 /\ Begun(o).url = o.url BY BegunIs
    <2>4. Tracks(Begun(o), o, data) BY <2>2, <2>3 DEF Tracks, InUrl
    <2> QED BY <2>1, <2>4
  <1>4. ASSUME NEW k \in Nat, k \in S PROVE k + 1 \in S
    <2> SUFFICES ASSUME k + 1 <= Len(data) PROVE Tracks(Run(o, data)[k + 1], o, data)
      OBVIOUS
    <2> DEFINE e == Run(o, data)[k]  t == data[k + 1]
    <2>1. Tracks(e, o, data) BY <1>1, <1>4
    <2>2. e \in Parsers /\ (e.errno = "ok" => e.taken = k)
      <3>1. k \in 0..Len(data) BY <1>1
      <3> QED BY <3>1, RunFacts
    <2>3. Run(o, data)[k + 1] = Take(e, t)
      <3>1. k + 1 \in 0..Len(data) /\ k + 1 # 0 /\ (k + 1) - 1 = k BY <1>1
      <3> QED BY <1>2, <3>1 DEF RunsTo
    <2>4. t \in Tokens /\ k + 1 \in 1..Len(data) BY <1>1
    <2> HIDE DEF e
    <2>5. CASE e.errno # "ok"
      <3>1. Take(e, t) = e BY <2>5 DEF Take
      <3> QED BY <2>1, <2>3, <3>1
    <2>6. CASE e.errno = "ok" /\ Fits(e, t)
      <3>1. e.taken = k BY <2>2, <2>6
      <3> QED BY <2>1, <2>2, <2>3, <2>4, <2>6, <3>1, TrackOn
    <2>7. CASE e.errno = "ok" /\ ~Fits(e, t)
      <3>1. Take(e, t) = [e EXCEPT !.errno = "bad"] BY <2>7 DEF Take
      <3>2. /\ Take(e, t).taken = e.taken /\ Take(e, t).url = e.url /\ Take(e, t).span = e.span
            /\ Take(e, t).phase = e.phase
        BY <2>2, <3>1 DEF Parsers
      <3> QED BY <2>1, <2>3, <3>2 DEF Tracks
    <2> QED BY <2>5, <2>6, <2>7
  <1> HIDE DEF S
  <1>5. n \in S BY <1>3, <1>4, SetInduction
  <1> QED BY <1>5 DEF S

LEMMA ParsedTracks ==
  ASSUME NEW o \in Parsers, NEW data \in Seq(Tokens)
  PROVE  LET p == Parsed(o, data).object
         IN  /\ (\A i \in 1..p.taken : data[i][1] # "url") => p.url = o.url
             /\ (\E i \in 1..p.taken : data[i][1] = "url") => Spells(p.url, data, p.taken)
  <1> DEFINE e == Execute(Reset(o), data)
  <1>1. Reset(o) \in Parsers /\ Reset(o).complete = FALSE /\ Reset(o).url = o.url
    BY DEF Reset, Parsers
  <1>2. Len(data) \in 0..Len(data)
    <2>1. Len(data) \in Nat OBVIOUS
    <2> QED BY <2>1
  <1>3. e \in Parsers BY <1>1, <1>2, RunFacts DEF Execute
  <1>4. Tracks(e, Reset(o), data) BY <1>1, <1>2, RunTracks DEF Execute
  <1> HIDE DEF e
  <1>5. Parsed(o, data).object = e \/ Parsed(o, data).object = Refused(e) BY DEF Parsed, e
  <1>6. Refused(e).taken = e.taken /\ Refused(e).url = e.url BY <1>3 DEF Refused, Parsers
  <1>7. Parsed(o, data).object.taken = e.taken /\ Parsed(o, data).object.url = e.url
    BY <1>5, <1>6
  <1> QED BY <1>1, <1>4, <1>7 DEF Tracks

(***************************************************************************)
(* A call that sees a URL leaves in m_url the last one it saw, and one     *)
(* that sees none leaves m_url alone.                                      *)
(***************************************************************************)
LEMMA FeedUrl ==
  ASSUME HttpInv, UrlIsLastSeen, NEW data \in Chunks, Feed(data)
  PROVE  UrlIsLastSeen'
  <1> DEFINE n == parser'.taken  last == SubSeq(data, 1, n)
  <1>1. parser \in Parsers /\ data \in Seq(Tokens) /\ fed \in Seq(Seq(Tokens))
    BY ChunksAssumption DEF HttpInv, Objects
  <1>2. /\ n \in 0..Len(data)
        /\ (\A i \in 1..n : data[i][1] # "url") => parser'.url = parser.url
        /\ (\E i \in 1..n : data[i][1] = "url") => Spells(parser'.url, data, n)
    BY <1>1, ParsedIs, ParsedTracks DEF Feed
  <1>3. fed' = Append(fed, last) BY DEF Feed
  <1>4. /\ last \in Seq(Tokens) /\ Len(last) = n /\ DOMAIN last = 1..n
        /\ \A i \in 1..n : last[i] = data[i]
    BY <1>1, <1>2, TakenIs, LenProperties
  <1> HIDE DEF n, last
  <1>5. /\ Len(fed) \in Nat /\ DOMAIN fed = 1..Len(fed) /\ DOMAIN fed' = 1..(Len(fed) + 1)
        /\ fed'[Len(fed) + 1] = last /\ \A i \in 1..Len(fed) : fed'[i] = fed[i]
    BY <1>1, <1>3, <1>4, AppendProperties, LenProperties
  <1>6. Seen(last) # {} => parser'.url = LastUrl(last)
    <2> SUFFICES ASSUME Seen(last) # {} PROVE parser'.url = LastUrl(last) OBVIOUS
    <2>1. \E i \in 1..n : data[i][1] = "url" BY <1>4 DEF Seen
    <2>2. PICK a, b \in 1..n :
            /\ a <= b /\ \A i \in a..b : data[i][1] = "url"
            /\ \A i \in (b + 1)..n : data[i][1] # "url"
            /\ a = 1 \/ data[a - 1][1] # "url"
            /\ parser'.url \in Seq(Text) /\ Len(parser'.url) = b + 1 - a
            /\ \A i \in 1..Len(parser'.url) : parser'.url[i] = data[a + i - 1][2]
      BY <1>2, <2>1 DEF Spells
    <2>3. n \in Nat BY <1>1, <1>2
    <2>4. /\ \A i \in a..b : last[i][1] = "url"
          /\ \A i \in (b + 1)..n : last[i][1] # "url"
          /\ a = 1 \/ last[a - 1][1] # "url"
          /\ \A i \in 1..Len(parser'.url) : parser'.url[i] = last[a + i - 1][2]
      <3>1. \A i \in a..b : i \in 1..n BY <2>2, <2>3
      <3>2. \A i \in (b + 1)..n : i \in 1..n BY <2>2, <2>3
      <3>3. a # 1 => a - 1 \in 1..n BY <2>2, <2>3
      <3>4. \A i \in 1..Len(parser'.url) : a + i - 1 \in 1..n BY <2>2, <2>3
      <3> QED BY <1>4, <2>2, <3>1, <3>2, <3>3, <3>4
    <2>5. Spells(parser'.url, last, n) BY <2>2, <2>4, SpellsFrom
    <2> QED BY <1>4, <2>5, SpellsLastUrl
  <1>7. Seen(last) = {} => parser'.url = parser.url
    <2>1. Seen(last) = {} => \A i \in 1..n : data[i][1] # "url" BY <1>4 DEF Seen
    <2> QED BY <1>2, <2>1
  <1>8. ASSUME NEW i \in 1..(Len(fed) + 1), Seen(fed'[i]) # {},
               \A j \in 1..(Len(fed) + 1) : j > i => Seen(fed'[j]) = {}
        PROVE  parser'.url = LastUrl(fed'[i])
    <2>1. CASE i = Len(fed) + 1 BY <1>5, <1>6, <1>8, <2>1
    <2>2. CASE i \in 1..Len(fed)
      <3>1. Len(fed) + 1 \in 1..(Len(fed) + 1) /\ Len(fed) + 1 > i BY <1>5, <2>2
      <3>2. Seen(last) = {} BY <1>5, <1>8, <3>1
      <3>3. \A j \in 1..Len(fed) : j \in 1..(Len(fed) + 1) BY <1>5
      <3>4. \A j \in 1..Len(fed) : j > i => Seen(fed[j]) = {} BY <1>5, <1>8, <3>3
      <3>5. Seen(fed[i]) # {} /\ fed'[i] = fed[i] BY <1>5, <1>8, <2>2
      <3>6. parser.url = LastUrl(fed[i]) BY <1>5, <2>2, <3>4, <3>5 DEF UrlIsLastSeen
      <3> QED BY <1>7, <3>2, <3>5, <3>6
    <2> QED BY <1>5, <2>1, <2>2
  <1> QED BY <1>5, <1>8 DEF UrlIsLastSeen

(***************************************************************************)
(* What Url() answers after any sequence of calls, whatever they bring and *)
(* wherever the data are cut: the last URL of the last call that saw one   *)
(* (HttpParser.cpp:107-111).                                               *)
(***************************************************************************)
THEOREM UrlIsLastSeenHolds == Spec => []UrlIsLastSeen
  <1>1. Init => UrlIsLastSeen BY DEF Init, UrlIsLastSeen
  <1>2. HttpInv /\ UrlIsLastSeen /\ [Next]_vars => UrlIsLastSeen'
    <2> SUFFICES ASSUME HttpInv, UrlIsLastSeen, [Next]_vars PROVE UrlIsLastSeen' OBVIOUS
    <2>1. ASSUME NEW data \in Chunks, Feed(data) PROVE UrlIsLastSeen' BY <2>1, FeedUrl
    <2>2. CASE UNCHANGED parserVars BY <2>2 DEF parserVars, UrlIsLastSeen
    <2> QED BY <2>1, <2>2 DEF Next, Serve, NewLink, SetLink, ParseLink, vars
  <1> QED BY <1>1, <1>2, HttpInvHolds, PTL DEF Spec
=============================================================================
