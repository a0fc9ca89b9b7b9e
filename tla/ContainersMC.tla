---------------------------- MODULE ContainersMC ----------------------------
EXTENDS Containers

CONSTANTS e1, e2

\* What clients pass to a list and to a string.
LiteralsExample == {<<>>, <<e1>>, <<e1, e2>>}
TextsExample == {<<>>, <<e1, e2>>, <<e2, e1, e1>>, <<e1, e2, e2, e1>>}

\* Objects of up to two fields, with values nested twice.
Names == {<<"a">>, <<"\\", "\"">>}
ObjectsOf(V) == {Object(f) : f \in UNION {[N -> V] : N \in SUBSET Names}}
ArraysOf(V) == {Array(s) : s \in UNION {[1 .. n -> V] : n \in 0 .. 2}}

Scalars == {Null, Bool("true"), Number("7"), Text(<<>>), Text(<<"a">>), Text(<<"\\", "\"">>),
            Text(<<"\"">>), Text(<<"a", "\\">>)}
Elementary == {Null, Number("7"), Text(<<"a">>), Array(<<>>), Object(<<>>)}

DocumentsExample ==
  ObjectsOf(Scalars \cup ArraysOf(Elementary) \cup ObjectsOf({Bool("true"), Text(<<"a">>)}))

\* Slices of up to two vectors, and all texts of two letters as long as that.
SlicesExample == UNION {[1 .. n -> {e1, e2}] : n \in 0 .. 5}

\* Three digits to the greatest numbers, with smaller digits behind the first.
IntMaxExample == <<3, 1, 2>>
UintMaxExample == <<1, 2, 1>>
TrueTextExample == <<1, 2>>
FalseTextExample == <<2, 1, 2>>
NumeralsExample == UNION {[1 .. n -> Digits \cup {Minus, Point}] : n \in 0 .. 5}

\* All texts of up to four bytes, and so all code points with what they may lack.
ByteTextsExample == UNION {[1 .. n -> Bytes] : n \in 0 .. 4}

\* Lists with and without commas in their elements, and formats of up to three slots.
Numbered == {-5, 0, 6}
Strung == {<<>>, <<1>>, <<Comma>>, <<Space, 1>>, <<Quote>>, <<1, Closing>>}
InnerLists == UNION {[1 .. n -> {0, 6}] : n \in 0 .. 2}
ListsOf(of, S, most) == {[of |-> of, items |-> s] : s \in UNION {[1 .. n -> S] : n \in 0 .. most}}
FormatsExample == {t \in UNION {[1 .. n -> {1, OpenBrace, CloseBrace}] : n \in 1 .. 6} : IsFormat(t)}
Arguments == {[text |-> <<>>, onHeap |-> FALSE], [text |-> <<2, 3>>, onHeap |-> FALSE],
              [text |-> <<3>>, onHeap |-> TRUE]}
CompositionsExample ==
  ListsOf("ints", Numbered, 3) \cup ListsOf("strings", Strung, 2) \cup ListsOf("lists", InnerLists, 2) \cup
  UNION {[of : {"format"}, text : {t},
          args : [1 .. Cardinality({i \in DOMAIN t : t[i] = OpenBrace}) -> Arguments]] : t \in FormatsExample}

\* Structs of one and two fields of all types, with structs and lists in them.
Flat == {<<"bool">>, <<"number">>, <<"string">>, <<"list", <<"number">>>>}
Nested == {<<"struct", <<<<<<"c">>, type>>, <<<<"d">>, <<"bool">>>>>>>> : type \in Flat}
TypesExample == Flat \cup Nested \cup {<<"list", type>> : type \in {<<"string">>} \cup Nested}

FlatValues(type) ==
  CASE type[1] = "bool" -> {"true", "false"}
    [] type[1] = "number" -> {"7"}
    [] type[1] = "string" -> {<<>>, <<"a">>}
    [] type[1] = "list" -> {<<>>, <<"7">>}
StructValues(type) == IF type[1] = "struct" THEN {<<x, b>> : x \in FlatValues(type[2][1][2]), b \in {"true"}} ELSE FlatValues(type)
ValuesOf(type) ==
  IF type[1] = "list" /\ type[2] # <<"number">> THEN UNION {[1 .. n -> StructValues(type[2])] : n \in 0 .. 2}
  ELSE StructValues(type)

StructsExample ==
  UNION {{[fields |-> <<<<<<"a">>, type>>, <<<<"b">>, other>>>>, value |-> <<v, w>>] :
            v \in ValuesOf(type), w \in ValuesOf(other)} : type \in TypesExample, other \in Flat}

\* The places of all parts have the same names; the items are the queues' alone.
Interchangeable == {places @@ items : places \in Permutations(Lists), items \in Permutations(Items)}
=============================================================================
