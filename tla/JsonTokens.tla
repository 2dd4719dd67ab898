----------------------------- MODULE JsonTokens -----------------------------
(***************************************************************************)
(* The JSON parser jsmn and the helpers of aws_iot_json_utils.c.  A        *)
(* document is a sequence of lexemes: brackets, ":", ",", strings, and     *)
(* primitives, which are numbers or words.  A string may also be left      *)
(* open, or hold an escape jsmn refuses.  Positions count lexemes instead  *)
(* of characters, from 1, and an end is the position after the last one.   *)
(* Blanks are not lexemes; where one is needed between two it is there.    *)
(***************************************************************************)
EXTENDS Integers, Sequences, SequencesExt, FiniteSetsExt

CONSTANTS
  NumTokens,     \* MAX_JSON_TOKEN_EXPECTED
  Limit          \* of each type of integer, the number of values of its unsigned form: 2^8, 2^16, 2^32

IntegerTypes == {"int8", "int16", "int32", "uint8", "uint16", "uint32"}
ASSUME JsonAssumption ==
  /\ NumTokens \in Nat \ {0}
  /\ Limit \in [IntegerTypes -> Nat \ {0, 1}] /\ \A type \in IntegerTypes : Limit[type] % 2 = 0

Punct(c) == [kind |-> c, text |-> c, n |-> 0]
Str(name) == [kind |-> "string", text |-> name, n |-> 0]
Num(n) == [kind |-> "primitive", text |-> "number", n |-> n]
Word(w) == [kind |-> "primitive", text |-> w, n |-> 0]
OpenString == [kind |-> "open string", text |-> "", n |-> 0]
BadEscape == [kind |-> "bad escape", text |-> "", n |-> 0]

-----------------------------------------------------------------------------
(* jsmn_parse.  super is the token whose size counts the next one, 0 for none. *)

NewParser == [tokens |-> <<>>, super |-> 0, error |-> "none"]
Fails(p, error) == [p EXCEPT !.error = error]
IsOpen(token) == token.end = 0
\* The last container not yet closed among the first upto tokens, 0 for none.
LastOpen(tokens, upto) == Max({0} \union {i \in 1..upto : IsOpen(tokens[i])})

NoRoom(p) == Len(p.tokens) >= NumTokens
Counted(p) == IF p.super = 0 THEN p.tokens ELSE [p.tokens EXCEPT ![p.super].size = @ + 1]
Alloc(p, type, start, end) ==
  IF NoRoom(p) THEN Fails(p, "NOMEM")
  ELSE [p EXCEPT !.tokens = Append(Counted(p), [type |-> type, start |-> start, end |-> end, size |-> 0])]
TypeOf(bracket) == IF bracket \in {"{", "}"} THEN "object" ELSE "array"

Opens(p, c, at) ==
  LET q == Alloc(p, TypeOf(c), at, 0) IN
  IF q.error # "none" THEN q ELSE [q EXCEPT !.super = Len(q.tokens)]
\* A closing bracket ends the last open container, which must be of its type, and what
\* follows counts for the container around that one.
\* Mutant of Closes: the type is not compared.
ClosesAny(p, c, at) ==
  LET i == LastOpen(p.tokens, Len(p.tokens)) IN
  IF i = 0 THEN Fails(p, "INVAL")
  ELSE [p EXCEPT !.tokens[i].end = at + 1, !.super = LastOpen(p.tokens, i - 1)]
Closes(p, c, at) ==
  LET i == LastOpen(p.tokens, Len(p.tokens)) IN
  IF i = 0 \/ (i # 0 /\ p.tokens[i].type # TypeOf(c)) THEN Fails(p, "INVAL")
  ELSE [p EXCEPT !.tokens[i].end = at + 1, !.super = LastOpen(p.tokens, i - 1)]
\* After ":" what follows counts for the token before it, after "," for the container again.
\* Mutant of Comma: it has no effect.
CommaIgnored(p) == p
Comma(p) ==
  LET open == LastOpen(p.tokens, Len(p.tokens)) IN
  IF p.super = 0 \/ p.tokens[p.super].type \in {"object", "array"} \/ open = 0 THEN p
  ELSE [p EXCEPT !.super = open]
Feed(p, lexeme, at) ==
  CASE lexeme.kind \in {"{", "["} -> Opens(p, lexeme.kind, at)
    [] lexeme.kind \in {"}", "]"} -> Closes(p, lexeme.kind, at)
    [] lexeme.kind \in {"string", "primitive"} -> Alloc(p, lexeme.kind, at, at + 1)
    [] lexeme.kind = ":" -> [p EXCEPT !.super = Len(p.tokens)]
    [] lexeme.kind = "," -> Comma(p)
    [] lexeme.kind = "open string" -> Fails(p, "PART")
    [] lexeme.kind = "bad escape" -> Fails(p, "INVAL")
Finish(p) == IF LastOpen(p.tokens, Len(p.tokens)) # 0 THEN Fails(p, "PART") ELSE p

-----------------------------------------------------------------------------
(* aws_iot_json_utils.c *)

Invalid == [kind |-> "invalid", text |-> "", n |-> 0]
Jsoneq(doc, token, key) == token.type = "string" /\ doc[token.start].text = key
InRange(n, type) ==
  IF type \in {"int8", "int16", "int32"} THEN -(Limit[type] \div 2) <= n /\ n < Limit[type] \div 2
  ELSE 0 <= n /\ n < Limit[type]
\* What sscanf makes of a number for the 32-bit types: the nearest one.
Nearest(n, type) ==
  IF InRange(n, type) THEN n
  ELSE IF n < 0 THEN -(Limit[type] \div 2)
  ELSE IF type = "int32" THEN Limit[type] \div 2 - 1 ELSE Limit[type] - 1
\* parse*Value.  8-bit integers and int16 are read as 32 bits and compared with their
\* range, uint16 is cut to its width by sscanf, and unsigned ones may not start with "-".
ParseInteger(lexeme, type) ==
  IF lexeme.kind # "primitive" \/ lexeme.text # "number" THEN Invalid
  ELSE IF type \in {"uint8", "uint16", "uint32"} /\ lexeme.n < 0 THEN Invalid
  ELSE CASE type \in {"int32", "uint32"} -> Num(Nearest(lexeme.n, type))
         [] type = "uint16" -> Num(Nearest(lexeme.n, "uint32") % Limit["uint16"])
         [] type \in {"int8", "int16"} ->
              IF InRange(Nearest(lexeme.n, "int32"), type) THEN lexeme ELSE Invalid
         [] type = "uint8" -> IF InRange(Nearest(lexeme.n, "uint32"), type) THEN lexeme ELSE Invalid
ParseBoolean(lexeme) ==
  IF lexeme.kind = "primitive" /\ lexeme.text \in {"true", "false"} THEN lexeme ELSE Invalid
\* The room for a string is given in characters, its terminating zero included.
ParseString(lexeme, room, lengthOf) ==
  IF lexeme.kind = "string" /\ lengthOf[lexeme.text] + 1 <= room THEN lexeme ELSE Invalid

\* Mutant of NextMember: only the value itself is skipped.
NextMemberNear(tokens, i) == i + 2
\* The member after the one whose name is token i, 0 if no parsed token starts after it:
\* nothing stops the code there, it reads on in what a longer document left in the table
\* and, if that never starts far enough, behind the table.
NextMember(tokens, i) ==
  LET later == {j \in i + 2..Len(tokens) : tokens[j].start >= tokens[i + 1].end} IN
  IF later = {} THEN 0 ELSE Min(later)
\* What is found, 0 for NULL, and whether tokens beyond the parsed ones were read for it.
\* Behind the last member of a container that ends the document they are only read, and
\* the result is NULL if the reading ends; where the code goes by them it is anything.
FoundToken(i) == [token |-> i, beyond |-> FALSE]
NoToken(beyond) == [token |-> 0, beyond |-> beyond]
AnyToken == [token |-> -1, beyond |-> TRUE]
FindToken(doc, tokens, container, key) ==
  LET Search[i \in 0..Len(tokens) + 1, left \in 0..Len(tokens)] ==
        IF left = 0 THEN NoToken(i = 0)
        ELSE IF i \notin 1..Len(tokens) - 1 THEN AnyToken
        ELSE IF Jsoneq(doc, tokens[i], key) THEN FoundToken(i + 1)
        ELSE Search[NextMember(tokens, i), left - 1]
  IN IF tokens[container].type # "object" THEN NoToken(FALSE) ELSE Search[container + 1, tokens[container].size]
=============================================================================
