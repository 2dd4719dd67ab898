----------------------------- MODULE MCAwsJson -----------------------------
(* Small documents of every shape, deltas as the service sends them, flat and nested,   *)
(* some documents cut off, with a lexeme changed or left out, and all sequences of a few *)
(* lexemes.  The widths of the integers keep their order: 8 bits become 3, 16 become 5,  *)
(* 32 become 20.                                                                         *)
EXTENDS AwsJson
MCLimit == [type \in IntegerTypes |-> CASE type \in {"int8", "uint8"} -> 8 [] type \in {"int16", "uint16"} -> 32
                                        [] OTHER -> 1048576]
MCFields == {[key |-> "a", type |-> "uint8", room |-> 0], [key |-> "b", type |-> "int16", room |-> 0],
             [key |-> "c", type |-> "uint16", room |-> 0], [key |-> "d", type |-> "bool", room |-> 0],
             [key |-> "e", type |-> "string", room |-> 3]}
Put(key, value) == [key |-> key, value |-> value]
MCSettings == {<<Put("a", Num(7))>>, <<Put("b", Num(-5)), Put("d", Word("true"))>>, <<Put("e", Str("on"))>>,
               <<Put("c", Num(31)), Put("a", Num(0))>>}
MCLengthOf == [state |-> 5, desired |-> 7, reported |-> 8, clientToken |-> 11, me |-> 4, version |-> 7,
               metadata |-> 8, delta |-> 5, a |-> 1, b |-> 1, c |-> 1, d |-> 1, e |-> 1, on |-> 2, long |-> 4, true |-> 4, false |-> 5,
               null |-> 4]
Obj(members) == [kind |-> "object", members |-> members]
Arr(items) == [kind |-> "array", items |-> items]
M(key, value) == [key |-> key, value |-> value]
Numbers == {Num(n) : n \in {-17, -1, 7, 8, 31, 33, 1048577}}
Scalars == Numbers \union {Word("false"), Word("null"), Str("on"), Str("long")}
Inner == Scalars \union {Obj(<<>>), Arr(<<>>), Arr(<<Num(7), Str("on")>>), Obj(<<M("b", Num(7))>>), Obj(<<M("a", Arr(<<Num(1)>>))>>)}
Delta(state) == Obj(<<M("version", Num(7)), M("state", Obj(state)),
                      M("metadata", Obj([i \in DOMAIN state |-> M(state[i].key, Num(1))] \o <<M("b", Num(1))>>))>>)
MCTrees == {Obj(<<>>), Num(7), Arr(<<Num(7)>>)}
  \union {Obj(<<M(key, value)>>) : key \in {"a", "b", "c", "d", "e"}, value \in Inner}
  \union {Obj(<<M("b", one), M("a", two)>>) : one \in Inner, two \in Inner}
  \union {Delta(<<M(key, value)>>) : key \in {"a", "b", "c"}, value \in Numbers}
  \union {Delta(<<M("a", Num(7)), M("d", Word("false"))>>), Delta(<<M("e", Str("long"))>>), Delta(<<M("e", Str("on"))>>)}
  \union {Delta(<<M("delta", Obj(<<M(key, value)>>))>>) : key \in {"a", "b", "c"}, value \in Numbers}
  \union {Delta(<<M("delta", Arr(<<Obj(<<M("b", Num(7))>>)>>))>>), Delta(<<M("a", Obj(<<M("a", Num(7))>>))>>),
          Delta(<<M("b", Obj(<<M("a", Num(7))>>)), M("a", Num(0))>>), Delta(<<M("e", Str("a")), M("a", Num(7))>>),
          Delta(<<M("a", Num(7)), M("b", Num(8)), M("c", Num(31))>>)}
Lexemes == {Punct("{"), Punct("}"), Punct("["), Punct("]"), Punct(":"), Punct(","), Str("a"), Num(7)}
Spoilt == {OpenString, BadEscape}
Edited == {Render(Obj(<<M("b", one), M("a", two)>>)) : one \in {Arr(<<Num(7), Str("on")>>), Obj(<<M("b", Num(7))>>)}, two \in {Num(7), Obj(<<>>)}}
MCGarbage == UNION {[1..n -> Lexemes] : n \in 0..5}
  \union UNION {{SubSeq(d, 1, n) : n \in 0..Len(d) - 1} : d \in Edited}
  \union UNION {{[d EXCEPT ![i] = lexeme] : i \in DOMAIN d, lexeme \in Lexemes \union Spoilt} : d \in Edited}
  \union UNION {{SubSeq(d, 1, i - 1) \o SubSeq(d, i + 1, Len(d)) : i \in DOMAIN d} : d \in Edited}
=============================================================================
