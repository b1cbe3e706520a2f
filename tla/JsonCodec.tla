----------------------------- MODULE JsonCodec ------------------------------
(***************************************************************************)
(* lua_json.rs: encoding a Lua value as JSON text and decoding it again.   *)
(*                                                                         *)
(* A Lua value is <<kind, payload>>; a table is <<"table", meta, entries,  *)
(* border>> with its entries <<key, value>> in the order of lua_next and   *)
(* the border that rawlen finds.  The text is a sequence of tokens, white  *)
(* space left out; string values are escaped and therefore one token, keys *)
(* are written as they are.  What is written about numbers is what Rust's  *)
(* Display does with them.                                                 *)
(***************************************************************************)
EXTENDS Integers, Sequences, SequencesExt, FiniteSets

CONSTANT MaxDepth      \* the limit of encode_table, 64 in the code

Options == [emptyAsArray : BOOLEAN, numberKey : BOOLEAN, sparse : BOOLEAN]

Nil  == <<"nil">>
Null == <<"null">>     \* the null light userdata, json.null
Kind(v) == v[1]
IsTable(v) == Kind(v) = "table"
Meta(t) == t[2]
Entries(t) == t[3]
Border(t) == t[4]
Keys(t) == {Entries(t)[i][1] : i \in DOMAIN Entries(t)}
Get(t, k) ==
    IF k \in Keys(t)
      THEN LET i == CHOOSE i \in DOMAIN Entries(t) : Entries(t)[i][1] = k
           IN Entries(t)[i][2]
      ELSE Nil

\* The integers that occur as keys, and their decimal notation.
Decimal == << <<-1, "-1">>, <<0, "0">>,
              <<1, "1">>, <<2, "2">>, <<3, "3">>, <<12, "12">> >>
Written(n) == (CHOOSE d \in ToSet(Decimal) : d[1] = n)[2]
IsInteger(s) == \E d \in ToSet(Decimal) : d[2] = s
Integer(s) == (CHOOSE d \in ToSet(Decimal) : d[2] = s)[1]
NeedsEscape == {"quote"}     \* stands for a key with a quote in it

----------------------------------------------------------------------------
\* As if the first key and the border were enough, without a walk over all keys.
FirstKeyDecides(t) ==
    LET es == Entries(t)
        first == IF es # <<>> /\ Kind(es[1][1]) = "int" THEN es[1][1][2] ELSE 0
    IN IF \/ Meta(t) = "array"
          \/ /\ Meta(t) = "none" /\ first \in 1..Border(t)
             /\ first = 1 => Last(es)[1] = <<"int", Border(t)>>
         THEN [array |-> TRUE, size |-> Border(t)]
         ELSE [array |-> FALSE, size |-> 0]

\* lua_array_size: does a table look like an array, and of what length?
ArrayShape(t) ==
    LET es == Entries(t)
        first == IF es # <<>> /\ Kind(es[1][1]) = "int" THEN es[1][1][2] ELSE 0
        within(k) == Kind(k) = "int" /\ k[2] \in 1..Border(t)
        no == [array |-> FALSE, size |-> 0]
        yes == [array |-> TRUE, size |-> Border(t)]
    IN IF Meta(t) = "array" THEN yes
       ELSE IF \/ Meta(t) = "object"
               \/ first <= 0 \/ first > Border(t)
               \/ first = 1 /\ Last(es)[1] # <<"int", Border(t)>>
               \/ \E k \in Keys(t) : ~within(k)
            THEN no
            ELSE yes

\* Results of the encoder: Err, or what was appended to the writer.
Out(ts) == [ok |-> TRUE, out |-> ts]
Err == [ok |-> FALSE, out |-> <<>>]
Hole == [ok |-> FALSE, out |-> << <<"hole">> >>]
Then(r, s) == IF r.ok /\ s.ok THEN Out(r.out \o s.out) ELSE Err
Token(t) == Out(<< <<t>> >>)

\* Numbers: a float without a fraction is written like an integer.
NumberToken(v) == IF v = <<"num", "1.0">> THEN <<"int", 1>>
                  ELSE IF v = <<"num", "2^63">> THEN <<"u64", "2^63">>
                  ELSE v

Scalar(v) ==
    CASE Kind(v) = "num" -> Out(<<NumberToken(v)>>)
      [] Kind(v) \in {"bool", "int", "str", "null"} -> Out(<<v>>)
      [] Kind(v) = "nil" -> Out(<<Null>>)
      [] Kind(v) = "pointer" -> Out(<<>>)
      [] Kind(v) = "function" -> Err

KeyText(k) == << <<"key", IF Kind(k) = "int" THEN Written(k[2]) ELSE k[2]>>,
                 <<":">> >>

\* The comma is written before the type of the key is looked at.
Comma(i) == IF i > 1 THEN Token(",") ELSE Out(<<>>)

RECURSIVE Encode(_, _, _), EncodeArray(_, _, _, _), EncodeObject(_, _, _, _)

\* Elements i.. of an array; a hole ends the attempt unless it may be null.
EncodeArray(t, i, depth, o) ==
    IF i > ArrayShape(t).size THEN Token("]")
    ELSE LET v == Get(t, <<"int", i>>)
         IN IF v = Nil /\ ~o.sparse
              THEN Hole
              ELSE LET rest == EncodeArray(t, i + 1, depth, o)
                       head == Then(Comma(i), Encode(v, depth, o))
                   IN IF head.ok /\ ~rest.ok THEN rest ELSE Then(head, rest)

\* Entries i.. of an object.
EncodeObject(t, i, depth, o) ==
    IF i > Len(Entries(t)) THEN Token("}")
    ELSE LET k == Entries(t)[i][1]
             v == Entries(t)[i][2]
             entry == CASE Kind(k) = "str" \/ (Kind(k) = "int" /\ o.numberKey) ->
                             Then(Out(KeyText(k)), Encode(v, depth, o))
                        [] Kind(k) = "int" /\ ~o.numberKey -> Err
                        [] OTHER -> Out(<<>>)
         IN Then(Then(Comma(i), entry), EncodeObject(t, i + 1, depth, o))

AsObject(t, depth, o) ==
    IF Entries(t) = <<>> /\ o.emptyAsArray
      THEN Then(Token("["), Token("]"))
      ELSE Then(Token("{"), EncodeObject(t, 1, depth, o))

\* encode_array starts over as an object at the first hole.
AsArray(t, depth, o) ==
    LET a == EncodeArray(t, 1, depth, o)
    IN IF a = Hole THEN AsObject(t, depth, o)
                             ELSE Then(Token("["), a)

Encode(v, depth, o) ==
    IF ~IsTable(v) THEN Scalar(v)
    ELSE IF depth + 1 > MaxDepth THEN Err
    ELSE IF ArrayShape(v).array THEN AsArray(v, depth + 1, o)
                                ELSE AsObject(v, depth + 1, o)

----------------------------------------------------------------------------
\* serde_json (external): the value of a text, or Malformed.
Malformed == [ok |-> FALSE, val |-> <<>>, rest |-> <<>>]
Read(v, rest) == [ok |-> TRUE, val |-> v, rest |-> rest]
Starts(ts, t) == ts # <<>> /\ Head(ts) = <<t>>

RECURSIVE Parse(_), Elements(_, _), Members(_, _)

Elements(ts, vs) ==
    LET r == Parse(ts)
        all == Append(vs, r.val)
    IN IF ~r.ok THEN Malformed
       ELSE IF Starts(r.rest, "]") THEN Read(<<"array", all>>, Tail(r.rest))
       ELSE IF Starts(r.rest, ",") THEN Elements(Tail(r.rest), all)
       ELSE Malformed

Members(ts, ms) ==
    IF Len(ts) < 3 \/ Head(ts)[1] # "key" \/ Head(ts)[2] \in NeedsEscape
      THEN Malformed
      ELSE LET r == Parse(SubSeq(ts, 3, Len(ts)))
               all == Append(ms, <<Head(ts)[2], r.val>>)
           IN IF ~r.ok THEN Malformed
              ELSE IF Starts(r.rest, "}")
                THEN Read(<<"object", all>>, Tail(r.rest))
              ELSE IF Starts(r.rest, ",") THEN Members(Tail(r.rest), all)
              ELSE Malformed

Parse(ts) ==
    IF ts = <<>> THEN Malformed
    ELSE IF Starts(ts, "[") THEN
        IF Starts(Tail(ts), "]") THEN Read(<<"array", <<>>>>, Tail(Tail(ts)))
                                 ELSE Elements(Tail(ts), <<>>)
    ELSE IF Starts(ts, "{") THEN
        IF Starts(Tail(ts), "}") THEN Read(<<"object", <<>>>>, Tail(Tail(ts)))
                                 ELSE Members(Tail(ts), <<>>)
    ELSE IF Head(ts)[1] \in {"bool", "int", "u64", "str", "null"}
            \/ Head(ts) = <<"num", "0.5">>
      THEN Read(Head(ts), Tail(ts))
    ELSE Malformed

----------------------------------------------------------------------------
\* decode_one: a table is the set of its <<key, value>> pairs.
DecodedKey(s, o) ==
    IF IsInteger(s) /\ o.numberKey THEN <<"int", Integer(s)>> ELSE <<"str", s>>

\* Of two entries with one key the later stays: Serde's map, and the table.
LastWins(ps) == {ps[i] : i \in {i \in DOMAIN ps :
                    \A j \in DOMAIN ps : j > i => ps[j][1] # ps[i][1]}}

RECURSIVE Decode(_, _)

Decode(j, o) ==
    CASE Kind(j) = "array" ->
           <<"table", {<< <<"int", i>>, Decode(j[2][i], o)>> : i \in DOMAIN j[2]}>>
      [] Kind(j) = "object" ->
           LET named == SelectSeq(j[2], LAMBDA m : m[1] # "")
           IN <<"table", LastWins([i \in DOMAIN named |->
                  <<DecodedKey(named[i][1], o), Decode(named[i][2], o)>>])>>
      [] Kind(j) = "u64" -> <<"int", 0>>
      [] OTHER -> j

ReadBack(ts, o) ==
    LET r == Parse(ts)
    IN IF r.ok /\ r.rest = <<>> THEN Decode(r.val, o) ELSE <<"malformed">>
=============================================================================
