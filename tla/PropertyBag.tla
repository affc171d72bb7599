---------------------------- MODULE PropertyBag ----------------------------
(***************************************************************************)
(* propertyBagFromJson() and propertyBagToJson(): JSON read into a tree of *)
(* named bags along the registry of known properties, and a tree of bags   *)
(* written as JSON.                                                        *)
(*                                                                         *)
(* A JSON value is a pair of a kind and a body: a scalar has its class     *)
(* and its value, an array its items, an object its members, each a pair   *)
(* of a key and a value.  A bag has a name besides.  A property whose body *)
(* is empty has no value; a table has no bag under the names it does not   *)
(* hold.  The error handlers of the program go on after every error; one   *)
(* that does not turns the first error into an exception.                  *)
(*                                                                         *)
(* The recursions of the code are functions on values of a depth of        *)
(* MaxDepth at most, which call themselves on the parts of a value.        *)
(***************************************************************************)
EXTENDS Integers, Sequences, FiniteSets, FiniteSetsExt, SequencesExt

CONSTANTS
  Names,     \* the keys and names that occur
  Texts,     \* what strings may hold
  Registry,  \* the type, and the base of an array, by property name
  CutKeys,   \* the keys with a NUL, and what they are up to it
  MaxDepth   \* how deep values are nested

ASSUME NamesAssumption ==
  /\ IsFiniteSet(Names) /\ "" \in Names
  /\ DOMAIN CutKeys \subseteq Names
  /\ \A k \in DOMAIN CutKeys : CutKeys[k] \in Names

ASSUME DepthAssumption == MaxDepth \in Nat

Types == {"bool", "int", "int64_t", "unsigned int", "uint64_t", "double", "string"}

(* The classes of JSON scalars a C++ type takes (rapidjson's Is...()).     *)
(* Numbers are told apart by the widths they fit: "wide" needs 32 bits     *)
(* unsigned, "long" 63, "huge" 64; "negative" and "neglong" are signed.    *)
Accepted(type) ==
  CASE type = "bool" -> {"bool"}
    [] type = "int" -> {"int", "negative"}
    [] type = "int64_t" -> {"int", "negative", "wide", "long", "neglong"}
    [] type = "unsigned int" -> {"int", "wide"}
    [] type = "uint64_t" -> {"int", "wide", "long", "huge"}
    [] type = "double" -> {"double"}
    [] type = "string" -> {"string"}
    [] OTHER -> {}

Scalars ==
  ({"string"} \X Texts) \cup ({"bool"} \X {"true", "false"})
  \cup ({"int", "wide", "long", "huge"} \X Nat)
  \cup ({"negative", "neglong"} \X (Int \ Nat))
  \cup ({"double", "null"} \X {"any"})

Kind(v) == v[1]
Body(v) == v[2]

Scalar(class, value) == <<"scalar", <<class, value>>>>
JsonArray(items) == <<"array", items>>
Object(members) == <<"object", members>>

MoreJson(S) ==
  ({"scalar"} \X Scalars) \cup ({"array"} \X Seq(S))
  \cup ({"object"} \X Seq(Names \X S))

JsonTo[n \in 0..MaxDepth] == IF n = 0 THEN {} ELSE MoreJson(JsonTo[n - 1])
Json == JsonTo[MaxDepth]

Name(bag) == bag[3]
Bag(name, kind, body) == <<kind, body, name>>
NoBag == Bag("", "empty", << >>)
NoValue == << >>

MoreBags(S) ==
  {NoBag} \cup ({"property"} \X ({NoValue} \cup (Types \X Scalars)) \X Names)
          \cup ({"array"} \X Seq(S) \X Names) \cup ({"table"} \X [Names -> S] \X Names)

BagsTo[n \in 0..MaxDepth] == IF n = 0 THEN {NoBag} ELSE MoreBags(BagsTo[n - 1])
Bags == BagsTo[MaxDepth]

(* Names travel as C strings.                                              *)
CString(key) == IF key \in DOMAIN CutKeys THEN CutKeys[key] ELSE key

-----------------------------------------------------------------------------
(* What a scalar becomes as a property of a type, if it can.               *)
Typed(type, v) == <<type, Body(v)>>
Fits(type, v) == Kind(v) = "scalar" /\ Body(v)[1] \in Accepted(type)

PropertyFromJson(name, v) ==
  IF name \in DOMAIN Registry /\ Fits(Registry[name].type, v)
  THEN Typed(Registry[name].type, v) ELSE NoValue

IsArrayProperty(name) == name \in DOMAIN Registry /\ Registry[name].type = "array"

(* The places of a key among the members of an object.                     *)
At(v, key) == {i \in DOMAIN Body(v) : Body(v)[i][1] = key}
Keys(v) == {Body(v)[i][1] : i \in DOMAIN Body(v)}

(* Mutant: a key that comes again replaces the first one.                  *)
LastMember(v, key) == Body(v)[Max(At(v, key))][2]

(* A table keeps the first of the members that have the same key.          *)
Member(v, key) == Body(v)[Min(At(v, key))][2]

(* Each takes the function that reads a value with a name.                 *)
ItemFromJson(read, type, v) ==
  CASE Kind(v) = "object" -> read[<<"", v>>]
    [] Fits(type, v) -> Bag("", "property", Typed(type, v))
    [] OTHER -> NoBag

ArrayFromJson(read, name, v) ==
  IF IsArrayProperty(name)
  THEN [i \in DOMAIN Body(v) |-> ItemFromJson(read, Registry[name].base, Body(v)[i])]
  ELSE << >>

TableFromJson(read, v) ==
  [k \in Names |-> IF k \in Keys(v) THEN read[<<CString(k), Member(v, k)>>] ELSE NoBag]

BagFromJson(read, name, v) ==
  CASE Kind(v) = "object" -> Bag(name, "table", TableFromJson(read, v))
    [] Kind(v) = "array" -> Bag(name, "array", ArrayFromJson(read, name, v))
    [] OTHER -> Bag(name, "property", PropertyFromJson(name, v))

FromJson[p \in Names \X Json] == BagFromJson(FromJson, p[1], p[2])

(* The error handler is called while v is read.  Members that a table does *)
(* not keep are read too.                                                  *)
ErrorsIn(errors, name, v) ==
  CASE Kind(v) = "object" ->
         \E i \in DOMAIN Body(v) : errors[<<CString(Body(v)[i][1]), Body(v)[i][2]>>]
    [] Kind(v) = "array" ->
         \/ ~IsArrayProperty(name)
         \/ \E i \in DOMAIN Body(v) :
              IF Kind(Body(v)[i]) = "object" THEN errors[<<"", Body(v)[i]>>]
              ELSE ~Fits(Registry[name].base, Body(v)[i])
    [] OTHER -> PropertyFromJson(name, v) = NoValue

HasErrors[p \in Names \X Json] == ErrorsIn(HasErrors, p[1], p[2])

-----------------------------------------------------------------------------
(* What is written for a value of a type the writer does not know.         *)
Nothing == <<"nothing", << >>>>

PropertyToJson(bag) ==
  IF Body(bag)[1] \in {"bool", "int", "unsigned int", "int64_t", "uint64_t", "string"}
  THEN <<"scalar", Body(bag)[2]>> ELSE Nothing

(* Mutant: arrays without items are left out too.                          *)
FullUnlessHollow(bag) == Kind(bag) # "empty" /\ bag[2] # << >>

Full(bag) == Kind(bag) # "empty"

(* Some of the places in a sequence, from the first to the last.           *)
InOrder(I) ==
  CHOOSE s \in [1..Cardinality(I) -> I] :
    \A i, j \in DOMAIN s : i < j => s[i] < s[j]

(* Each takes the function that writes a bag.                              *)
ArrayToJson(write, bag) ==
  LET full == InOrder({i \in DOMAIN Body(bag) : Full(Body(bag)[i])})
  IN  JsonArray([i \in DOMAIN full |-> write[Body(bag)[full[i]]]])

(* The members come in any order, under the names of the bags: no key for  *)
(* a bag without a name.                                                   *)
TableToJson(write, bag) ==
  LET full == SetToSeq({k \in Names : Full(Body(bag)[k])})
  IN  Object([i \in DOMAIN full |->
                <<Name(Body(bag)[full[i]]), write[Body(bag)[full[i]]]>>])

BagToJson(write, bag) ==
  CASE Kind(bag) = "array" -> ArrayToJson(write, bag)
    [] Kind(bag) = "table" -> TableToJson(write, bag)
    [] OTHER -> PropertyToJson(bag)

ToJson[bag \in Bags] == BagToJson(ToJson, bag)

(* A bag and all that is in it.                                            *)
Children(bag) == IF Kind(bag) \in {"array", "table"} THEN Range(Body(bag)) ELSE {}
WithParts(parts, bag) == {bag} \cup UNION {parts[c] : c \in Children(bag)}
Parts[bag \in Bags] == WithParts(Parts, bag)

(* Writing throws at a property without a value.                           *)
HasValues(bag) == \A p \in Parts[bag] : Kind(p) = "property" => Body(p) # NoValue

(* The assertion of the writer: every bag of a table is named like its key.*)
NamedByKeys(bag) ==
  \A p \in Parts[bag] :
    Kind(p) = "table" =>
      \A k \in Names : Full(Body(p)[k]) => Name(Body(p)[k]) = k

(* What a parser takes has a key for every member of an object.            *)
KeysIn(keyed, v) ==
  CASE Kind(v) = "object" -> \A i \in DOMAIN Body(v) :
                              Body(v)[i][1] # "" /\ keyed[Body(v)[i][2]]
    [] Kind(v) = "array" -> \A i \in DOMAIN Body(v) : keyed[Body(v)[i]]
    [] OTHER -> TRUE

Keyed[v \in Json] == KeysIn(Keyed, v)
=============================================================================
