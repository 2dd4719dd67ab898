------------------------------ MODULE AwsJson ------------------------------
(***************************************************************************)
(* The JSON documents of the vendored AWS IoT shadow code: how             *)
(* aws_iot_shadow_json.c writes one into a buffer, and how one that        *)
(* arrives is parsed, lexeme by lexeme, and searched for the values of the *)
(* registered fields, a version and a client token.                        *)
(***************************************************************************)
EXTENDS JsonTokens

CONSTANTS
  Fields,        \* the registered jsonStruct_t: records of key, type and, for a string, room
  Settings,      \* what a device may report: sequences of fields with a value
  MaxDocument,   \* maxSizeOfJsonDocument
  ClientToken,   \* the client identifier and its sequence number
  TokenRoom,     \* MAX_SIZE_CLIENT_ID_WITH_SEQUENCE
  LengthOf,      \* the number of characters of each text
  Trees,         \* well-formed documents that arrive
  Garbage        \* other sequences of lexemes that arrive

VARIABLES
  phase,         \* "idle", "building", "parsing", "parsed", "done"
  doc,           \* the document
  tree,          \* what it stands for if it is well-formed, None if nobody knows
  used,          \* strlen of the document being built
  rc,            \* the result of building it
  put,           \* the fields put into it
  parser,        \* shadowJsonParser and jsonTokenStruct
  at,            \* lexemes parsed
  data,          \* of each field, what pData holds
  found,         \* the fields whose callback is called
  token,         \* the client token extracted: the lexemes of its text
  version        \* the version extracted

vars == <<phase, doc, tree, used, rc, put, parser, at, data, found, token, version>>
parsing == <<tree, parser, at, data, found, token, version>>
None == [kind |-> "none"]

Init ==
  /\ phase = "idle" /\ doc = <<>> /\ tree = None
  /\ used = 0 /\ rc = "SUCCESS" /\ put = <<>>
  /\ parser = NewParser /\ at = 0
  /\ data = [field \in Fields |-> None] /\ found = {} /\ token = None /\ version = None

-----------------------------------------------------------------------------
(* Building a document. *)

Digits(n) == IF n < 0 THEN 2 ELSE IF n < 10 THEN 1 ELSE IF n < 100 THEN 2 ELSE IF n < 1000 THEN 3 ELSE 6
Chars(lexeme) ==
  CASE lexeme.kind = "string" -> 2 + LengthOf[lexeme.text]
    [] lexeme.kind = "primitive" -> IF lexeme.text = "number" THEN Digits(lexeme.n) ELSE LengthOf[lexeme.text]
    [] OTHER -> 1
AllChars(lexemes) == FoldLeft(LAMBDA n, lexeme : n + Chars(lexeme), 0, lexemes)

\* What is written so far.  Each snprintf goes to the end, or over the last character (a
\* comma, or the brace of an empty section), and is given room: the subtraction is unsigned.
Room(w) == (MaxDocument - w.used) % Limit["uint32"]
Checked(w) == IF w.rc = "SUCCESS" /\ Room(w) <= 1 THEN [w EXCEPT !.rc = "ERROR"] ELSE w
\* Mutant of Snprintf: that nothing was written is not noticed.
SnprintfUnchecked(w, over, lexemes, room) ==
  IF w.rc # "SUCCESS" \/ AllChars(lexemes) >= room THEN w
  ELSE [w EXCEPT !.used = @ - over + AllChars(lexemes), !.doc = SubSeq(@, 1, Len(@) - over) \o lexemes]
Snprintf(w, over, lexemes, room) ==
  IF w.rc # "SUCCESS" THEN w
  ELSE IF AllChars(lexemes) >= room THEN [w EXCEPT !.rc = "TRUNCATED"]
  ELSE [w EXCEPT !.used = @ - over + AllChars(lexemes), !.doc = SubSeq(@, 1, Len(@) - over) \o lexemes]

Comma1 == Punct(",")
\* One field: its key and, with the room there was before the key, its value and a comma.
AddField(w, field) ==
  LET c == Checked(w)
      key == Snprintf(c, 0, <<Str(field.key), Punct(":")>>, Room(c)) IN
  Snprintf(key, 0, <<field.value, Comma1>>, Room(c))
\* aws_iot_shadow_add_desired and aws_iot_shadow_add_reported: the closing brace and its
\* comma are given the room there was before the last field.
AddSection(w, name, fields) ==
  LET c == Checked(w)
      opened == Snprintf(c, 0, <<Str(name), Punct(":"), Punct("{")>>, Room(c))
      filled == FoldLeft(AddField, opened, fields)
      before == FoldLeft(AddField, opened, Front(fields)) IN
  Snprintf(filled, 1, <<Punct("}"), Comma1>>, Room(before))
\* aws_iot_finalize_json_document.  The quote that opens the client token and the blank
\* before its name are written with the name, the closing quote with the last brace.
FinalizeJson(w) ==
  LET c == Checked(w)
      name == Snprintf(c, 1, <<Punct("}"), Comma1, Str("clientToken"), Punct(":")>>, Room(c) - 2)
      opened == [name EXCEPT !.used = @ + 2]
      filled == IF opened.rc = "SUCCESS" /\ LengthOf[ClientToken] >= Room(opened)
                THEN [opened EXCEPT !.rc = "TRUNCATED"] ELSE [opened EXCEPT !.used = @ + LengthOf[ClientToken]]
      last == Checked(filled) IN
  IF last.rc # "SUCCESS" THEN last
  ELSE IF Room(last) <= 2 THEN [last EXCEPT !.rc = "TRUNCATED"]
  ELSE [last EXCEPT !.used = @ + 2, !.doc = @ \o <<Str(ClientToken), Punct("}")>>]

Writer == [doc |-> doc, used |-> used, rc |-> rc]
Written(w) == doc' = w.doc /\ used' = w.used /\ rc' = w.rc
\* aws_iot_shadow_init_json_document
InitJsonDocument ==
  /\ phase = "idle" /\ phase' = "building"
  /\ Written(Snprintf(Writer, 0, <<Punct("{"), Str("state"), Punct(":"), Punct("{")>>, MaxDocument))
  /\ UNCHANGED put /\ UNCHANGED parsing
AddReported ==
  /\ phase = "building" /\ rc = "SUCCESS" /\ Len(put) < 4
  /\ \E fields \in Settings, name \in {"desired", "reported"} :
       /\ put' = put \o fields
       /\ Written(AddSection(Writer, name, fields))
  /\ UNCHANGED phase /\ UNCHANGED parsing
\* The document is finished and, if that worked, sent to a peer that parses it.
FinalizeJsonDocument ==
  /\ phase = "building" /\ rc = "SUCCESS" /\ put # <<>>
  /\ LET w == FinalizeJson(Writer) IN
     /\ Written(w)
     /\ phase' = IF w.rc = "SUCCESS" THEN "parsing" ELSE "done"
  /\ UNCHANGED put /\ UNCHANGED parsing

-----------------------------------------------------------------------------
(* Parsing one.  A tree is a lexeme, an object with its members or an array. *)

RECURSIVE Render(_)
Render(t) ==
  LET separated(parts) == FlattenSeq([i \in DOMAIN parts |-> IF i = 1 THEN parts[i] ELSE <<Comma1>> \o parts[i]]) IN
  CASE t.kind = "object" ->
         <<Punct("{")>> \o separated([i \in DOMAIN t.members |->
                            <<Str(t.members[i].key), Punct(":")>> \o Render(t.members[i].value)]) \o <<Punct("}")>>
    [] t.kind = "array" -> <<Punct("[")>> \o separated([i \in DOMAIN t.items |-> Render(t.items[i])]) \o <<Punct("]")>>
    [] OTHER -> <<t>>

\* isJsonValidAndParse, and the same parsing in extractClientToken: jsmn_init and jsmn_parse.
Receive ==
  /\ phase = "idle" /\ phase' = "parsing"
  /\ \/ \E t \in Trees : tree' = t /\ doc' = Render(t)
     \/ \E lexemes \in Garbage : doc' = lexemes /\ UNCHANGED tree
  /\ UNCHANGED <<used, rc, put, parser, at, data, found, token, version>>
ParseStep ==
  /\ phase = "parsing" /\ at < Len(doc) /\ parser.error = "none"
  /\ at' = at + 1
  /\ parser' = Feed(parser, doc[at + 1], at + 1)
  /\ UNCHANGED <<phase, doc, tree, used, rc, put, data, found, token, version>>
\* The top level must be an object.
Valid(p) == p.error = "none" /\ p.tokens # <<>> /\ p.tokens[1].type = "object"
ParseEnd ==
  /\ phase = "parsing" /\ (at = Len(doc) \/ parser.error # "none")
  /\ parser' = IF parser.error = "none" THEN Finish(parser) ELSE parser
  /\ phase' = IF Valid(parser') THEN "parsed" ELSE "done"
  /\ UNCHANGED <<doc, tree, used, rc, put, at, data, found, token, version>>

\* UpdateValueIfNoObject.
Parsed(lexeme, field) ==
  CASE field.type \in IntegerTypes -> ParseInteger(lexeme, field.type)
    [] field.type = "bool" -> ParseBoolean(lexeme)
    [] field.type = "string" -> ParseString(lexeme, field.room, LengthOf)
Said(key) == {i \in 2..Len(parser.tokens) : Jsoneq(doc, parser.tokens[i], key)}
First(tokens) == IF tokens = {} THEN 0 ELSE Min(tokens)
\* Where a key is first said, before anything says "metadata": 0 if nowhere.
\* Mutant of KeyAt: "metadata" is passed over.
KeyAtAnywhere(key) == First(Said(key))
KeyAt(key) ==
  LET i == First(Said(key) \union Said("metadata")) IN
  IF i \in Said(key) THEN i ELSE 0
\* The lexeme after a token; what is left of an earlier document, if it is the last, is Invalid.
After(i) == IF i < Len(parser.tokens) THEN doc[parser.tokens[i + 1].start] ELSE Invalid
\* extractClientToken: the text of whatever follows the name, its length cut to 8 bits.
TextLength(lexemes) == AllChars(lexemes) - (IF lexemes[1].kind = "string" THEN 2 ELSE 0)
ExtractClientToken ==
  IF First(Said("clientToken")) \in {0, Len(parser.tokens)} THEN None
  ELSE LET t == parser.tokens[First(Said("clientToken")) + 1]
           text == SubSeq(doc, t.start, t.end - 1) IN
       IF (TextLength(text) % Limit["uint8"]) + 1 <= TokenRoom THEN text ELSE None
\* extractVersionNumber: the first of that name whose value is a number.
ExtractVersionNumber ==
  LET numbers == {i \in Said("version") : ParseInteger(After(i), "uint32") # Invalid} IN
  IF numbers = {} THEN None ELSE ParseInteger(After(Min(numbers)), "uint32")
\* isJsonKeyMatchingAndUpdateValue for every field, and the other two.
Extract ==
  /\ phase = "parsed" /\ phase' = "done"
  /\ found' = {field \in Fields : KeyAt(field.key) # 0}
  /\ data' = [field \in Fields |->
       IF field \in found' /\ Parsed(After(KeyAt(field.key)), field) # Invalid
       THEN Parsed(After(KeyAt(field.key)), field) ELSE data[field]]
  /\ token' = ExtractClientToken /\ version' = ExtractVersionNumber
  /\ UNCHANGED <<doc, tree, used, rc, put, parser, at>>

Next ==
  \/ InitJsonDocument \/ AddReported \/ FinalizeJsonDocument
  \/ Receive \/ ParseStep \/ ParseEnd \/ Extract
Spec == Init /\ [][Next]_vars

-----------------------------------------------------------------------------
\* The values of the variables; no token beyond the table is used.
TypeOK ==
  /\ phase \in {"idle", "building", "parsing", "parsed", "done"}
  /\ at \in 0..Len(doc) /\ used \in Nat
  /\ rc \in {"SUCCESS", "ERROR", "TRUNCATED"}
  /\ Len(parser.tokens) <= NumTokens /\ parser.super \in 0..Len(parser.tokens)
  /\ parser.error \in {"none", "NOMEM", "INVAL", "PART"}
  /\ found \subseteq Fields

\* Whatever arrives, a document that is accepted has its brackets in pairs, and each
\* object or array goes from its bracket to the one that closes it.
Depth(from, to) ==
  Cardinality({i \in from..to : doc[i].kind \in {"{", "["}}) - Cardinality({i \in from..to : doc[i].kind \in {"}", "]"}})
ClosedAt(from) == Min({Len(doc) + 1} \union {i \in from..Len(doc) : Depth(from, i) = 0})
AcceptedBalanced ==
  phase \in {"parsed", "done"} /\ at = Len(doc) /\ parser.error = "none" =>
    /\ Depth(1, Len(doc)) = 0
    /\ \A i \in DOMAIN parser.tokens :
         LET t == parser.tokens[i] IN
         t.type \in {"object", "array"} =>
           t.end = ClosedAt(t.start) + 1 /\ TypeOf(doc[t.start].kind) = TypeOf(doc[t.end - 1].kind)

\* A well-formed document is accepted with a token for each of its nodes, in their order
\* and with the number of their children, unless there are more than the table holds.
\* findToken finds in it the first member of a name, whatever is nested in the members
\* before it, and without a look at a token that was not parsed.  A name only used further
\* inside is not found; but to say so of an object that has members the code does read
\* beyond the parsed tokens, and answers only if what is left there stops it.
RECURSIVE Nodes(_)
Nodes(t) ==
  CASE t.kind = "object" ->
         <<[type |-> "object", size |-> Len(t.members)]>>
         \o FlattenSeq([i \in DOMAIN t.members |-> <<[type |-> "string", size |-> 1]>> \o Nodes(t.members[i].value)])
    [] t.kind = "array" -> <<[type |-> "array", size |-> Len(t.items)]>> \o FlattenSeq([i \in DOMAIN t.items |-> Nodes(t.items[i])])
    [] OTHER -> <<[type |-> t.kind, size |-> 0]>>
Named(t, key) == {i \in DOMAIN t.members : t.members[i].key = key}
MemberFound(key) ==
  LET result == FindToken(doc, parser.tokens, 1, key) IN
  IF Named(tree, key) = {} THEN result = NoToken(tree.members # <<>>)
  ELSE /\ result.token \in DOMAIN parser.tokens /\ ~result.beyond
       /\ SubSeq(doc, parser.tokens[result.token].start, parser.tokens[result.token].end - 1)
            = Render(tree.members[Min(Named(tree, key))].value)
WellFormedAccepted ==
  tree # None /\ phase \in {"parsed", "done"} =>
    IF Len(Nodes(tree)) > NumTokens THEN parser.error = "NOMEM"
    ELSE /\ parser.error = "none"
         /\ [i \in DOMAIN parser.tokens |-> [type |-> parser.tokens[i].type, size |-> parser.tokens[i].size]] = Nodes(tree)
         /\ tree.kind = "object" => \A field \in Fields : MemberFound(field.key)

\* A document that was built without an error is within the buffer it was given, with its
\* terminating zero.  (It need not be: a value is given the room from before its key.)
DocumentFits == rc = "SUCCESS" => used < MaxDocument

\* A document that was built without an error and fits the buffer is read back with the
\* values put into it, the first where a key was put twice, and with its client token, if
\* it has not more tokens than the table.
FirstPut(key) == put[Min({i \in DOMAIN put : put[i].key = key})].value
RoundTrip ==
  phase = "done" /\ put # <<>> /\ DocumentFits /\ rc = "SUCCESS" /\ parser.error # "NOMEM" =>
    /\ parser.error = "none" /\ token = <<Str(ClientToken)>>
    /\ \A field \in Fields :
         IF \E i \in DOMAIN put : put[i].key = field.key
         THEN data[field] = FirstPut(field.key) ELSE data[field] = None

\* The fields of a delta are taken from its state: a field is found if and only if its
\* name is said anywhere in the state, in whatever is nested there too (as the unit tests
\* of deltas expect, aws_iot_tests_unit_shadow_delta_helper.c:80-143), with the value of
\* the first member of that name; never from the metadata that repeat the names, when they
\* come later, as the service sends them.  No text of the state may be a name itself: the
\* search does not tell a string that is a value from one that names a member.
IsDelta(t) ==
  /\ t.kind = "object" /\ [i \in DOMAIN t.members |-> t.members[i].key] = <<"version", "state", "metadata">>
  /\ t.members[2].value.kind = "object"
RECURSIVE MembersIn(_)
MembersIn(t) ==
  CASE t.kind = "object" -> FlattenSeq([i \in DOMAIN t.members |-> <<t.members[i]>> \o MembersIn(t.members[i].value)])
    [] t.kind = "array" -> FlattenSeq([i \in DOMAIN t.items |-> MembersIn(t.items[i])])
    [] OTHER -> <<>>
RECURSIVE TextsIn(_)
TextsIn(t) ==
  CASE t.kind = "object" -> UNION {TextsIn(t.members[i].value) : i \in DOMAIN t.members}
    [] t.kind = "array" -> UNION {TextsIn(t.items[i]) : i \in DOMAIN t.items}
    [] OTHER -> IF t.kind = "string" THEN {t.text} ELSE {}
Unambiguous(state) ==
  /\ TextsIn(state) \cap ({field.key : field \in Fields} \union {"metadata"}) = {}
  /\ "metadata" \notin {member.key : member \in ToSet(MembersIn(state))}
ValueOf(members, field) ==
  IF members = <<>> \/ (members # <<>> /\ Parsed(Head(Render(members[1].value)), field) = Invalid) THEN None
  ELSE Parsed(Head(Render(members[1].value)), field)
DeltaFromState ==
  tree # None /\ phase = "done" /\ parser.error = "none" =>
    (IsDelta(tree) =>
       LET state == tree.members[2].value IN
       Unambiguous(state) =>
         \A field \in Fields :
           LET members == SelectSeq(MembersIn(state), LAMBDA member : member.key = field.key) IN
           /\ field \in found <=> members # <<>>
           /\ data[field] = ValueOf(members, field))
=============================================================================
