------------------------------ MODULE MCCodecs ------------------------------
(* Instances of Codecs for TLC.                                            *)
EXTENDS Codecs

\* 0000-01-01, the Unix epoch, PostgreSQL's own, a leap day, and the last day
\* of the range.
Known(n, y, m, d) == [days |-> n, year |-> y, month |-> m, day |-> d]
MCAnchors == {Known(-730485, 0, 1, 1), Known(-10957, 1970, 1, 1),
              Known(0, 2000, 1, 1), Known(59, 2000, 2, 29),
              Known(2145031948, 5874897, 12, 31)}

MCMin == -2147483647
MCInstants == {0, 1, 7, 13, 3600, 14399, 57599, 57600, Day - 1, Day, Day + 1,
               2 * Day + 5, 59 * Day, 60 * Day - 1}
               \cup {-1, -5, -14400, -19800, -57599, -57600, -Day, -Day - 1}

Leaves == {<<"bool", TRUE>>, <<"int", 1>>, <<"num", "1.0">>, <<"num", "0.5">>,
           <<"num", "2^63">>,
           <<"num", "NaN">>, <<"str", "a">>, Null, <<"pointer">>, <<"function">>}
Texts == {<<"str", "a">>, <<"str", "">>, <<"str", "12">>, <<"str", "quote">>}
IntKeys == {<<"int", n>> : n \in {-1, 0, 1, 2, 3, 12}}
Others == {<<"bool", TRUE>>}
MCKeys == Texts \cup IntKeys \cup Others

\* Every border that rawlen may find.
Borders(es) ==
    LET ints == {es[i][1][2] : i \in {i \in DOMAIN es : Kind(es[i][1]) = "int"}}
    IN {n \in {0} \cup ints : n >= 0 /\ n + 1 \notin ints}

Table(es) == {<<"table", m, es, n>> : m \in {"none", "array", "object"},
                                      n \in Borders(es)}
Pairs(ks, vs) == {<<k, v>> : k \in ks, v \in vs}

Small == UNION {Table(<<>>)} \cup
         UNION {Table(<<p>>) : p \in Pairs(MCKeys, {<<"int", 1>>, <<"pointer">>})}
Two(ks, vs) ==
    UNION {Table(<<p, q>>) : <<p, q>> \in
              {pq \in Pairs(ks, vs) \X Pairs(ks, vs) : pq[1][1] # pq[2][1]}}

\* Three entries in every order in which lua_next may visit them.
Three(ks) ==
    UNION {Table([i \in 1..3 |-> <<k[i], <<"int", 1>>>>]) :
              k \in {k \in [1..3 -> ks] : IsInjective(k)}}

One(k, n) == <<"table", "none", << <<k, <<"int", 1>>>> >>, n>>
Inner == {<<"table", "none", <<>>, 0>>, One(<<"int", 1>>, 1), One(<<"int", 2>>, 0),
          One(<<"str", "a">>, 0), One(<<"str", "">>, 0), One(<<"bool", TRUE>>, 0)}

\* One level more than MaxDepth allows.
Deep == UNION {Table(<< <<k, s>> >>) :
                  k \in {<<"int", 1>>, <<"str", "a">>, <<"bool", TRUE>>},
                  s \in UNION {Table(<< <<k, i>> >>) : i \in Inner,
                                   k \in {<<"int", 1>>, <<"str", "a">>}}}

MCLuaValues ==
    Leaves \cup Small
    \cup Two(MCKeys, {<<"int", 1>>, <<"num", "NaN">>, <<"pointer">>})
    \cup UNION {Table(<< <<k, s>> >>) : k \in MCKeys, s \in Small \cup Leaves}
    \cup Two({<<"int", 1>>, <<"int", 2>>, <<"int", 3>>, <<"str", "a">>},
             Inner \cup {<<"function">>, Null})
    \cup Deep
    \cup Three({<<"int", 1>>, <<"int", 2>>, <<"int", 3>>, <<"int", 0>>,
               <<"str", "a">>, <<"str", "12">>, <<"int", 12>>, <<"bool", TRUE>>})
=============================================================================
