--------------------------- MODULE Serialization ---------------------------
(***************************************************************************)
(* serialize and deserialize (json/serialization.h) between structs and     *)
(* JSON objects.  The fields of a struct are a sequence of names and types: *)
(* <<"bool">>, <<"number">>, <<"string">>, <<"list", type>>, <<"struct", F>>.  *)
(* A struct is the sequence of the values of its fields, a list of those of *)
(* its elements.  Structs have one to nine fields, as toNamedFields asks,   *)
(* and no initializers.  Left out are enumerations, and that the strings a  *)
(* struct is read from are moved out of the object.                         *)
(***************************************************************************)
EXTENDS JsonText
LOCAL INSTANCE SequencesExt

CONSTANTS
  Structs,           \* the structs that are serialized: [fields, value]
  Zero               \* the number a field has before it is read

VARIABLE struct      \* the struct of this behaviour

NameOf(field) == field[1]
TypeOf(field) == field[2]

-----------------------------------------------------------------------------
RECURSIVE ToJsonValue(_, _)

\* Each field of the tuple toNamedFields makes is added by its name.
Serialize(fields, value) ==
  LET Added[n \in 0 .. Len(fields)] ==
        IF n = 0 THEN <<>>
        ELSE AddField(Added[n - 1], NameOf(fields[n]), ToJsonValue(TypeOf(fields[n]), value[n]))
  IN  Added[Len(fields)]

ToJsonValue(type, v) ==
  CASE type[1] = "bool" -> Bool(v)
    [] type[1] = "number" -> Number(v)
    [] type[1] = "string" -> Text(v)
    [] type[1] = "list" -> Array([i \in DOMAIN v |-> ToJsonValue(type[2], v[i])])
    [] type[1] = "struct" -> Object(Serialize(type[2], v))

-----------------------------------------------------------------------------
\* T out{}.
RECURSIVE DefaultOf(_)
DefaultOf(type) ==
  CASE type[1] = "bool" -> "false"
    [] type[1] = "number" -> Zero
    [] type[1] \in {"string", "list"} -> <<>>
    [] type[1] = "struct" -> [i \in DOMAIN type[2] |-> DefaultOf(TypeOf(type[2][i]))]

TypeName == [bool |-> "Bool", number |-> "Number", string |-> "String",
             list |-> "Array", struct |-> "Object"]

Read(v) == [ok |-> TRUE, field |-> v]
NotRead(v) == [ok |-> FALSE, field |-> v]

RECURSIVE AssignField(_, _, _)

\* Mutant of Deserialize: a name that is missing is no error.
DeserializeMissing(fields, object) ==
  {[i \in DOMAIN fields |->
      LET type == TypeOf(fields[i])
          name == NameOf(fields[i])
      IN  IF name \in DOMAIN object THEN AssignField(type, DefaultOf(type), object[name]).field
          ELSE DefaultOf(type)]}

\* findField tells whether the name is there; what assigning answers is dropped.
Deserialize(fields, object) ==
  IF \E i \in DOMAIN fields : NameOf(fields[i]) \notin DOMAIN object THEN {}
  ELSE {[i \in DOMAIN fields |->
           LET type == TypeOf(fields[i]) IN
           AssignField(type, DefaultOf(type), object[NameOf(fields[i])]).field]}

\* A field that is v gets a value, if it is one of its type.  The elements of
\* an array are pushed up to the first that is of another type.
AssignField(type, v, json) ==
  CASE json[1] # TypeName[type[1]] -> NotRead(v)
    [] json[1] = TypeName[type[1]] /\ type[1] = "list" ->
         LET read == [i \in DOMAIN json[2] |-> AssignField(type[2], DefaultOf(type[2]), json[2][i])]
             others == {i \in DOMAIN read : ~read[i].ok}
             end == IF others = {} THEN Len(read) ELSE (CHOOSE i \in others : \A j \in others : i <= j) - 1
             field == v \o [i \in 1 .. end |-> read[i].field]
         IN  IF others = {} THEN Read(field) ELSE NotRead(field)
    [] json[1] = TypeName[type[1]] /\ type[1] = "struct" ->
         LET r == Deserialize(type[2], json[2]) IN
         IF r = {} THEN NotRead(v) ELSE Read(CHOOSE s \in r : TRUE)
    [] OTHER -> Read(json[2])

-----------------------------------------------------------------------------
StructInit == struct \in Structs

Without(object, name) == [n \in DOMAIN object \ {name} |-> object[n]]

\* Whatever a struct holds, it is read back from the object it was serialized
\* to, whatever other fields that object has; when one of its own is missing
\* the object is refused.  A value of another type, or a struct in it that lacks
\* a field, spoils no other field, and its own has its default, unless the object
\* is refused.  serialization.h:31 says that it is, and the code does not (line 122).
StructReadBack ==
  LET fields == struct.fields
      object == Serialize(fields, struct.value)
  IN  /\ Deserialize(fields, object) = {struct.value}
      /\ Deserialize(fields, AddField(object, <<"more">>, Null)) = {struct.value}
      /\ \A i \in DOMAIN fields :
           LET name == NameOf(fields[i])
               type == TypeOf(fields[i])
               WithDefault == {[struct.value EXCEPT ![i] = DefaultOf(type)]}
           IN  /\ Deserialize(fields, Without(object, name)) = {}
               /\ Deserialize(fields, [object EXCEPT ![name] = Null]) \subseteq WithDefault
               /\ type[1] = "struct" => \A j \in DOMAIN type[2] :
                    LET less == Object(Without(object[name][2], NameOf(type[2][j]))) IN
                    Deserialize(fields, [object EXCEPT ![name] = less]) \subseteq WithDefault
=============================================================================
