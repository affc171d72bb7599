----------------------- MODULE RequestProcessorProofs -----------------------
(***************************************************************************)
(* What a request says reaches the handlers, and what they say the client, *)
(* for every set of names, texts and processes and every depth of the      *)
(* values: the five invariants of RequestProcessor.                        *)
(*                                                                         *)
(* The functions of PropertyBag recurse over values that are nested, which *)
(* is an induction over the depth: Recursion has the step of it, and each  *)
(* function is an instance of it, with the values of a depth as the domain *)
(* and what the function does with the parts of a value as the step.  From *)
(* that follow, in this order: what a function is of a value, by its parts *)
(* (the Unfolds lemmas); what is read from any JSON agrees with it; what   *)
(* is written for a bag that is fine and neat is read back; the answers of *)
(* the handlers are fine, and neat but for that to diff_processes; and the *)
(* inductive invariant, which tells at each step of process() what the     *)
(* steps before it have read.                                              *)
(***************************************************************************)
EXTENDS RequestProcessor, SequenceTheorems, FiniteSetTheorems, TLAPS

Below(n) == 0..(n - 1)
NextJson(f, n) == IF n = 0 THEN {} ELSE MoreJson(f[n - 1])
NextBags(f, n) == IF n = 0 THEN {NoBag} ELSE MoreBags(f[n - 1])

JsonDepths == INSTANCE Recursion WITH N <- MaxDepth + 1, D <- Below, Step <- NextJson
BagDepths == INSTANCE Recursion WITH N <- MaxDepth + 1, D <- Below, Step <- NextBags

LEMMA BelowGrows ==
  /\ Below(0) = {} /\ Below(MaxDepth + 1) = 0..MaxDepth
  /\ \A n \in 0..MaxDepth : Below(n) \subseteq Below(n + 1)
  /\ \A n \in 0..MaxDepth : \A x \in Below(n + 1) : x # 0 => x - 1 \in Below(n)
  /\ MaxDepth + 1 \in Nat /\ (MaxDepth + 1) - 1 = MaxDepth
BY DepthAssumption DEF Below

(* The values and the bags of a depth, by those of the depth below.        *)
LEMMA JsonToUnfolds ==
  \A n \in 0..MaxDepth : JsonTo[n] = NextJson(JsonTo, n)
<1>1. \A n \in 0..MaxDepth : \A g, h :
        (\A x \in Below(n) : g[x] = h[x]) =>
        \A x \in Below(n + 1) : NextJson(g, x) = NextJson(h, x)
  BY BelowGrows DEF NextJson
<1>2. \E f : f = [n \in Below(MaxDepth + 1) |-> NextJson(f, n)]
  BY <1>1, BelowGrows, JsonDepths!Exists
<1>3. PICK f : f = [n \in 0..MaxDepth |-> NextJson(f, n)]
  BY <1>2, BelowGrows
<1>4. JsonTo = [n \in 0..MaxDepth |-> NextJson(JsonTo, n)]
  BY <1>3 DEF JsonTo, NextJson
<1> HIDE DEF JsonTo
<1> QED BY <1>4

LEMMA BagsToUnfolds ==
  \A n \in 0..MaxDepth : BagsTo[n] = NextBags(BagsTo, n)
<1>1. \A n \in 0..MaxDepth : \A g, h :
        (\A x \in Below(n) : g[x] = h[x]) =>
        \A x \in Below(n + 1) : NextBags(g, x) = NextBags(h, x)
  BY BelowGrows DEF NextBags
<1>2. \E f : f = [n \in Below(MaxDepth + 1) |-> NextBags(f, n)]
  BY <1>1, BelowGrows, BagDepths!Exists
<1>3. PICK f : f = [n \in 0..MaxDepth |-> NextBags(f, n)]
  BY <1>2, BelowGrows
<1>4. BagsTo = [n \in 0..MaxDepth |-> NextBags(BagsTo, n)]
  BY <1>3 DEF BagsTo, NextBags
<1> HIDE DEF BagsTo
<1> QED BY <1>4

(* They grow with the depth, up to Json and Bags.                          *)
LEMMA SeqGrows ==
  ASSUME NEW S, NEW T, S \subseteq T
  PROVE  Seq(S) \subseteq Seq(T)
OBVIOUS

LEMMA JsonLevels ==
  /\ JsonTo[0] = {}
  /\ \A n \in 0..(MaxDepth - 1) : JsonTo[n + 1] = MoreJson(JsonTo[n])
<1>1. 0 \in 0..MaxDepth
  BY DepthAssumption
<1>2. \A n \in 0..(MaxDepth - 1) : n + 1 \in 0..MaxDepth /\ n + 1 # 0 /\ (n + 1) - 1 = n
  BY DepthAssumption
<1> QED BY <1>1, <1>2, JsonToUnfolds DEF NextJson

LEMMA BagsLevels ==
  /\ BagsTo[0] = {NoBag}
  /\ \A n \in 0..(MaxDepth - 1) : BagsTo[n + 1] = MoreBags(BagsTo[n])
<1>1. 0 \in 0..MaxDepth
  BY DepthAssumption
<1>2. \A n \in 0..(MaxDepth - 1) : n + 1 \in 0..MaxDepth /\ n + 1 # 0 /\ (n + 1) - 1 = n
  BY DepthAssumption
<1> QED BY <1>1, <1>2, BagsToUnfolds DEF NextBags

LEMMA MoreJsonGrows ==
  ASSUME NEW S, NEW T, S \subseteq T
  PROVE  MoreJson(S) \subseteq MoreJson(T)
<1>1. Names \X S \subseteq Names \X T
  OBVIOUS
<1>2. Seq(S) \subseteq Seq(T) /\ Seq(Names \X S) \subseteq Seq(Names \X T)
  BY <1>1, SeqGrows
<1> QED BY <1>2 DEF MoreJson

LEMMA MoreBagsGrows ==
  ASSUME NEW S, NEW T, S \subseteq T
  PROVE  MoreBags(S) \subseteq MoreBags(T)
<1>1. Seq(S) \subseteq Seq(T) /\ [Names -> S] \subseteq [Names -> T]
  BY SeqGrows
<1> QED BY <1>1 DEF MoreBags

(* What grows with every level by the same step grows.                     *)
LEMMA JsonGrowsOnce ==
  \A n \in 0..(MaxDepth - 1) : JsonTo[n] \subseteq JsonTo[n + 1]
<1> DEFINE Good == {n \in 0..MaxDepth : n = MaxDepth \/ JsonTo[n] \subseteq JsonTo[n + 1]}
<1>1. 0 \in Good
  BY DepthAssumption, JsonLevels
<1>2. ASSUME NEW n \in 0..(MaxDepth - 1), n \in Good PROVE n + 1 \in Good
  <2>1. n + 1 \in 0..MaxDepth /\ n # MaxDepth
    BY DepthAssumption
  <2>2. CASE n + 1 = MaxDepth
    BY <2>1, <2>2
  <2>3. CASE n + 1 # MaxDepth
    <3>1. n + 1 \in 0..(MaxDepth - 1)
      BY <2>3, DepthAssumption
    <3>2. JsonTo[n + 1] = MoreJson(JsonTo[n]) /\ JsonTo[(n + 1) + 1] = MoreJson(JsonTo[n + 1])
      BY <3>1, JsonLevels
    <3>3. JsonTo[n] \subseteq JsonTo[n + 1]
      BY <1>2, <2>1
    <3>4. MoreJson(JsonTo[n]) \subseteq MoreJson(JsonTo[n + 1])
      BY <3>3, MoreJsonGrows
    <3> QED BY <2>1, <3>2, <3>4
  <2> QED BY <2>2, <2>3
<1> HIDE DEF Good
<1>3. \A n \in 0..MaxDepth : n \in Good
  BY <1>1, <1>2, DepthAssumption, JsonDepths!UpTo
<1>4. \A n \in 0..(MaxDepth - 1) : n \in 0..MaxDepth /\ n # MaxDepth
  BY DepthAssumption
<1> QED BY <1>3, <1>4 DEF Good

LEMMA BagsGrowOnce ==
  \A n \in 0..(MaxDepth - 1) : BagsTo[n] \subseteq BagsTo[n + 1]
<1> DEFINE Good == {n \in 0..MaxDepth : n = MaxDepth \/ BagsTo[n] \subseteq BagsTo[n + 1]}
<1>1. 0 \in Good
  <2>1. CASE MaxDepth = 0
    BY <2>1
  <2>2. CASE MaxDepth # 0
    <3>1. 0 \in 0..(MaxDepth - 1) /\ 0 \in 0..MaxDepth
      BY <2>2, DepthAssumption
    <3>2. NoBag \in MoreBags({NoBag})
      BY DEF MoreBags
    <3> QED BY <3>1, <3>2, BagsLevels
  <2> QED BY <2>1, <2>2
<1>2. ASSUME NEW n \in 0..(MaxDepth - 1), n \in Good PROVE n + 1 \in Good
  <2>1. n + 1 \in 0..MaxDepth /\ n # MaxDepth
    BY DepthAssumption
  <2>2. CASE n + 1 = MaxDepth
    BY <2>1, <2>2
  <2>3. CASE n + 1 # MaxDepth
    <3>1. n + 1 \in 0..(MaxDepth - 1)
      BY <2>3, DepthAssumption
    <3>2. BagsTo[n + 1] = MoreBags(BagsTo[n]) /\ BagsTo[(n + 1) + 1] = MoreBags(BagsTo[n + 1])
      BY <3>1, BagsLevels
    <3>3. BagsTo[n] \subseteq BagsTo[n + 1]
      BY <1>2, <2>1
    <3>4. MoreBags(BagsTo[n]) \subseteq MoreBags(BagsTo[n + 1])
      BY <3>3, MoreBagsGrows
    <3> QED BY <2>1, <3>2, <3>4
  <2> QED BY <2>2, <2>3
<1> HIDE DEF Good
<1>3. \A n \in 0..MaxDepth : n \in Good
  BY <1>1, <1>2, DepthAssumption, BagDepths!UpTo
<1>4. \A n \in 0..(MaxDepth - 1) : n \in 0..MaxDepth /\ n # MaxDepth
  BY DepthAssumption
<1> QED BY <1>3, <1>4 DEF Good

LEMMA GrowsToTheTop ==
  ASSUME NEW F, \A n \in 0..(MaxDepth - 1) : F[n] \subseteq F[n + 1]
  PROVE  \A n \in 0..MaxDepth : F[n] \subseteq F[MaxDepth]
<1> DEFINE Good == {k \in 0..MaxDepth : F[MaxDepth - k] \subseteq F[MaxDepth]}
<1>1. 0 \in Good
  BY DepthAssumption
<1>2. ASSUME NEW k \in 0..(MaxDepth - 1), k \in Good PROVE k + 1 \in Good
  <2>1. k + 1 \in 0..MaxDepth /\ MaxDepth - (k + 1) \in 0..(MaxDepth - 1)
        /\ (MaxDepth - (k + 1)) + 1 = MaxDepth - k
    BY DepthAssumption
  <2>2. F[MaxDepth - (k + 1)] \subseteq F[MaxDepth - k]
    BY <2>1
  <2> QED BY <1>2, <2>1, <2>2
<1> HIDE DEF Good
<1>3. \A k \in 0..MaxDepth : k \in Good
  BY <1>1, <1>2, DepthAssumption, JsonDepths!UpTo
<1>4. ASSUME NEW n \in 0..MaxDepth PROVE F[n] \subseteq F[MaxDepth]
  <2>1. MaxDepth - n \in 0..MaxDepth /\ MaxDepth - (MaxDepth - n) = n
    BY DepthAssumption
  <2>2. F[MaxDepth - (MaxDepth - n)] \subseteq F[MaxDepth]
    BY <1>3, <2>1 DEF Good
  <2> QED BY <2>1, <2>2
<1> QED BY <1>4

LEMMA JsonGrows == \A n \in 0..MaxDepth : JsonTo[n] \subseteq Json
BY JsonGrowsOnce, GrowsToTheTop DEF Json

LEMMA BagsGrow == \A n \in 0..MaxDepth : BagsTo[n] \subseteq Bags
BY BagsGrowOnce, GrowsToTheTop DEF Bags

-----------------------------------------------------------------------------
(* A JSON value and a bag, by what they are made of.                       *)
LEMMA JsonNode ==
  ASSUME NEW S, NEW v \in MoreJson(S)
  PROVE  /\ Kind(v) \in {"scalar", "array", "object"}
         /\ Kind(v) = "scalar" => v = <<"scalar", Body(v)>> /\ Body(v) \in Scalars
         /\ Kind(v) = "array" => v = JsonArray(Body(v)) /\ Body(v) \in Seq(S)
         /\ Kind(v) = "object" => v = Object(Body(v)) /\ Body(v) \in Seq(Names \X S)
BY DEF MoreJson, Kind, Body, JsonArray, Object

LEMMA BagNode ==
  ASSUME NEW S, NEW b \in MoreBags(S)
  PROVE  /\ Kind(b) \in {"empty", "property", "array", "table"}
         /\ b = Bag(Name(b), Kind(b), Body(b))
         /\ Name(b) \in Names
         /\ Kind(b) = "empty" => b = NoBag
         /\ Kind(b) = "property" => Body(b) \in {NoValue} \cup (Types \X Scalars)
         /\ Kind(b) = "array" => Body(b) \in Seq(S)
         /\ Kind(b) = "table" => Body(b) \in [Names -> S]
<1>1. CASE b = NoBag
  BY <1>1, NamesAssumption DEF Kind, Body, Name, NoBag, Bag
<1>2. CASE b \in {"property"} \X ({NoValue} \cup (Types \X Scalars)) \X Names
  BY <1>2 DEF Kind, Body, Name, Bag
<1>3. CASE b \in {"array"} \X Seq(S) \X Names
  BY <1>3 DEF Kind, Body, Name, Bag
<1>4. CASE b \in {"table"} \X [Names -> S] \X Names
  BY <1>4 DEF Kind, Body, Name, Bag
<1> QED BY <1>1, <1>2, <1>3, <1>4 DEF MoreBags

(* The parts of a bag, and what kinds and names are not.                   *)
LEMMA BagFields ==
  \A name, kind, body :
    /\ Kind(Bag(name, kind, body)) = kind
    /\ Body(Bag(name, kind, body)) = body
    /\ Name(Bag(name, kind, body)) = name
BY DEF Bag, Kind, Body, Name

LEMMA FieldsOf ==
  ASSUME NEW b, NEW name, NEW kind, NEW body, b = Bag(name, kind, body)
  PROVE  Kind(b) = kind /\ Body(b) = body
BY DEF Bag, Kind, Body

LEMMA PropertyFields ==
  ASSUME NEW b, NEW name, NEW body, b = Bag(name, "property", body)
  PROVE  Kind(b) = "property" /\ Body(b) = body /\ Name(b) = name
BY DEF Bag, Kind, Body, Name

LEMMA Cut ==
  ASSUME NEW k \in Names
  PROVE  CString(k) \in Names
BY NamesAssumption DEF CString

LEMMA FirstPlace ==
  ASSUME NEW I, I \subseteq Nat, I # {}
  PROVE  /\ Min(I) \in I
         /\ Min(I) = CHOOSE i \in I : \A j \in I : i <= j
<1>1. \E i \in I : \A j \in I : i <= j
  BY JsonDepths!Least
<1> QED BY <1>1 DEF Min

(* The first member with a key: what a table keeps.                        *)
LEMMA MemberAt ==
  ASSUME NEW S, NEW v, Body(v) \in Seq(S), NEW k \in Keys(v)
  PROVE  /\ Member(v, k) = FirstOf(v, k)
         /\ \E i \in DOMAIN Body(v) : Body(v)[i][1] = k /\ Body(v)[i][2] = Member(v, k)
<1>1. At(v, k) \subseteq Nat /\ At(v, k) # {}
  BY DEF At, Keys
<1>2. Min(At(v, k)) \in At(v, k)
  BY <1>1, FirstPlace
<1>3. Min(At(v, k)) = CHOOSE i \in At(v, k) : \A j \in At(v, k) : i <= j
  BY <1>1, FirstPlace
<1> QED BY <1>2, <1>3 DEF At, Member, FirstOf

LEMMA Members ==
  ASSUME NEW S, NEW v, Body(v) \in Seq(Names \X S)
  PROVE  /\ Keys(v) \subseteq Names
         /\ \A i \in DOMAIN Body(v) :
              Body(v)[i][1] \in Names /\ Body(v)[i][2] \in S
         /\ \A k \in Keys(v) :
              /\ Member(v, k) = FirstOf(v, k)
              /\ Member(v, k) \in S
<1>1. \A i \in DOMAIN Body(v) : Body(v)[i][1] \in Names /\ Body(v)[i][2] \in S
  OBVIOUS
<1>2. ASSUME NEW k \in Keys(v)
      PROVE  /\ Member(v, k) = FirstOf(v, k)
             /\ \E i \in DOMAIN Body(v) : Member(v, k) = Body(v)[i][2]
  BY MemberAt
<1> QED BY <1>1, <1>2 DEF Keys

(* NoBag is a bag of every depth.                                          *)
LEMMA NoBagEverywhere ==
  \A n \in 0..MaxDepth : NoBag \in BagsTo[n]
<1>1. ASSUME NEW n \in 0..MaxDepth, n # 0 PROVE NoBag \in BagsTo[n]
  <2>1. n - 1 \in 0..(MaxDepth - 1) /\ (n - 1) + 1 = n
    BY <1>1, DepthAssumption
  <2>2. BagsTo[n] = MoreBags(BagsTo[n - 1])
    BY <2>1, BagsLevels
  <2> QED BY <2>2 DEF MoreBags
<1> QED BY <1>1, BagsLevels

LEMMA EmptyNameIn == "" \in Names
BY NamesAssumption

-----------------------------------------------------------------------------
(* FromJson                                                                *)
Readable(n) == Names \X JsonTo[n]
Read(f, p) == BagFromJson(f, p[1], p[2])

Reading == INSTANCE Recursion WITH N <- MaxDepth, D <- Readable, Step <- Read

LEMMA ReadableGrows ==
  /\ Readable(0) = {}
  /\ \A n \in 0..(MaxDepth - 1) : Readable(n) \subseteq Readable(n + 1)
  /\ \A n \in 0..(MaxDepth - 1) : \A p \in Readable(n + 1) : p[2] \in MoreJson(JsonTo[n])
  /\ Readable(MaxDepth) = Names \X Json
BY JsonLevels, JsonGrowsOnce DEF Readable, Json

(* Reading a value needs what is read from its parts only.                 *)
LEMMA ReadIsLocal ==
  ASSUME NEW S, NEW name, NEW v \in MoreJson(S), NEW g, NEW h,
         \A p \in Names \X S : g[p] = h[p]
  PROVE  BagFromJson(g, name, v) = BagFromJson(h, name, v)
<1>1. CASE Kind(v) = "object"
  <2>1. \A k \in Keys(v) : <<CString(k), Member(v, k)>> \in Names \X S
    BY <1>1, JsonNode, Members, Cut
  <2>2. \A k \in Keys(v) : g[<<CString(k), Member(v, k)>>] = h[<<CString(k), Member(v, k)>>]
    BY <2>1
  <2>3. TableFromJson(g, v) = TableFromJson(h, v)
    BY <2>2 DEF TableFromJson
  <2> QED BY <1>1, <2>3 DEF BagFromJson
<1>2. CASE Kind(v) = "array"
  <2>1. \A i \in DOMAIN Body(v) : <<"", Body(v)[i]>> \in Names \X S
    <3>1. Body(v) \in Seq(S)
      BY <1>2, JsonNode
    <3>2. \A i \in DOMAIN Body(v) : Body(v)[i] \in S
      BY <3>1
    <3>3. "" \in Names
      BY NamesAssumption
    <3> QED BY <3>2, <3>3
  <2>2. \A i \in DOMAIN Body(v) : g[<<"", Body(v)[i]>>] = h[<<"", Body(v)[i]>>]
    BY <2>1
  <2>3. ASSUME NEW type, NEW i \in DOMAIN Body(v)
        PROVE  ItemFromJson(g, type, Body(v)[i]) = ItemFromJson(h, type, Body(v)[i])
    BY <2>2 DEF ItemFromJson
  <2>4. ArrayFromJson(g, name, v) = ArrayFromJson(h, name, v)
    BY <2>3 DEF ArrayFromJson
  <2> QED BY <1>2, <2>4 DEF BagFromJson
<1>3. CASE Kind(v) \notin {"object", "array"}
  BY <1>3 DEF BagFromJson
<1> QED BY <1>1, <1>2, <1>3

(* Hence the function exists: what it is of a value, by its parts.         *)
LEMMA FromJsonUnfolds ==
  ASSUME NEW name \in Names, NEW v \in Json
  PROVE  FromJson[<<name, v>>] = BagFromJson(FromJson, name, v)
<1>1. ASSUME NEW n \in 0..(MaxDepth - 1), NEW g, NEW h,
             \A p \in Readable(n) : g[p] = h[p], NEW p \in Readable(n + 1)
      PROVE  Read(g, p) = Read(h, p)
  <2>1. p[2] \in MoreJson(JsonTo[n])
    BY ReadableGrows
  <2>2. \A q \in Names \X JsonTo[n] : g[q] = h[q]
    BY <1>1 DEF Readable
  <2> QED BY <2>1, <2>2, ReadIsLocal DEF Read
<1>2. \E f : f = [p \in Readable(MaxDepth) |-> Read(f, p)]
  BY <1>1, DepthAssumption, ReadableGrows, Reading!Exists
<1>3. PICK f : f = [p \in Names \X Json |-> Read(f, p)]
  BY <1>2, ReadableGrows
<1>4. FromJson = [p \in Names \X Json |-> Read(FromJson, p)]
  BY <1>3 DEF FromJson, Read
<1> HIDE DEF FromJson
<1>5. <<name, v>> \in Names \X Json /\ <<name, v>>[1] = name /\ <<name, v>>[2] = v
  OBVIOUS
<1>6. FromJson[<<name, v>>] = Read(FromJson, <<name, v>>)
  BY <1>4, <1>5
<1> QED BY <1>5, <1>6 DEF Read
(* A property is a bag of every depth but 0.                               *)
LEMMA PropertyEverywhere ==
  ASSUME NEW n \in 0..MaxDepth, n # 0, NEW type \in Types, NEW s \in Scalars,
         NEW name \in Names
  PROVE  Bag(name, "property", <<type, s>>) \in BagsTo[n]
<1>1. n - 1 \in 0..(MaxDepth - 1) /\ (n - 1) + 1 = n
  BY DepthAssumption
<1>2. BagsTo[n] = MoreBags(BagsTo[n - 1])
  BY <1>1, BagsLevels
<1> QED BY <1>2 DEF MoreBags, Bag

LEMMA ScalarBody ==
  ASSUME NEW n \in 0..MaxDepth, NEW v \in JsonTo[n], Kind(v) = "scalar"
  PROVE  Body(v) \in Scalars
<1>1. n # 0
  BY JsonLevels
<1>2. n - 1 \in 0..(MaxDepth - 1) /\ (n - 1) + 1 = n
  BY <1>1, DepthAssumption
<1>3. v \in MoreJson(JsonTo[n - 1])
  BY <1>2, JsonLevels
<1> QED BY <1>3, JsonNode

(* A value fits types of properties only.                                  *)
LEMMA FittingTypes ==
  ASSUME NEW type, NEW v, Fits(type, v)
  PROVE  type \in Types
BY DEF Fits, Accepted, Types

LEMMA ItemIn ==
  ASSUME NEW n \in 0..MaxDepth, NEW v \in JsonTo[n], NEW type,
         FromJson[<<"", v>>] \in BagsTo[n]
  PROVE  ItemFromJson(FromJson, type, v) \in BagsTo[n]
<1>1. n # 0
  BY JsonLevels
<1>2. CASE Kind(v) = "object"
  BY <1>2 DEF ItemFromJson, Fits
<1>3. CASE Kind(v) # "object" /\ Fits(type, v)
  <2>1. Body(v) \in Scalars
    BY <1>3, ScalarBody DEF Fits
  <2>2. Bag("", "property", <<type, Body(v)>>) \in BagsTo[n]
    BY <1>1, <1>3, <2>1, FittingTypes, PropertyEverywhere, EmptyNameIn
  <2> QED BY <1>3, <2>2 DEF ItemFromJson, Typed
<1>4. CASE Kind(v) # "object" /\ ~Fits(type, v)
  BY <1>4, NoBagEverywhere DEF ItemFromJson
<1> QED BY <1>2, <1>3, <1>4
(* What is read is a bag, as deep as the value.                            *)
LEMMA FromJsonIsBag ==
  \A n \in 0..MaxDepth : \A p \in Readable(n) :
    /\ FromJson[p] \in BagsTo[n]
    /\ FromJson[p] = BagFromJson(FromJson, p[1], p[2])
    /\ Full(FromJson[p])
<1>1. ASSUME NEW n \in 0..MaxDepth, NEW p \in Readable(n)
      PROVE  /\ FromJson[p] = BagFromJson(FromJson, p[1], p[2])
             /\ Full(FromJson[p])
  <2>1. p[1] \in Names /\ p[2] \in Json /\ p = <<p[1], p[2]>>
    BY JsonGrows DEF Readable
  <2>2. FromJson[p] = BagFromJson(FromJson, p[1], p[2])
    BY <2>1, FromJsonUnfolds
  <2> QED BY <2>2 DEF BagFromJson, Full, Bag, Kind
<1> DEFINE Good == {n \in 0..MaxDepth : \A p \in Readable(n) : FromJson[p] \in BagsTo[n]}
<1>2. 0 \in Good
  BY DepthAssumption, ReadableGrows
<1>3. ASSUME NEW n \in 0..(MaxDepth - 1), n \in Good PROVE n + 1 \in Good
  <2>1. n + 1 \in 0..MaxDepth /\ n \in 0..MaxDepth
    BY DepthAssumption
  <2> SUFFICES ASSUME NEW p \in Readable(n + 1)
               PROVE  FromJson[p] \in MoreBags(BagsTo[n])
    BY <2>1, BagsLevels
  <2> DEFINE S == JsonTo[n]
             name == p[1]
             v == p[2]
  <2>2. name \in Names /\ v \in MoreJson(S)
    BY ReadableGrows DEF Readable
  <2>3. FromJson[p] = BagFromJson(FromJson, name, v)
    BY <1>1, <2>1
  <2>4. \A q \in Names \X S : FromJson[q] \in BagsTo[n]
    BY <1>3 DEF Readable
  <2>5. NoBag \in BagsTo[n]
    BY <2>1, NoBagEverywhere
  <2> HIDE DEF S, name, v, Good
  <2>6. CASE Kind(v) = "object"
    <3>1. TableFromJson(FromJson, v) \in [Names -> BagsTo[n]]
      <4>1. \A k \in Keys(v) : <<CString(k), Member(v, k)>> \in Names \X S
        BY <2>2, <2>6, JsonNode, Members, Cut
      <4>2. \A k \in Keys(v) : FromJson[<<CString(k), Member(v, k)>>] \in BagsTo[n]
        BY <2>4, <4>1
      <4> QED BY <2>5, <4>2 DEF TableFromJson
    <3> QED BY <2>2, <2>3, <2>6, <3>1 DEF BagFromJson, MoreBags, Bag
  <2>7. CASE Kind(v) = "array"
    <3>1. Body(v) \in Seq(S)
      BY <2>2, <2>7, JsonNode
    <3>2. \A i \in DOMAIN Body(v) : Body(v)[i] \in S /\ <<"", Body(v)[i]>> \in Names \X S
      <4>1. \A i \in DOMAIN Body(v) : Body(v)[i] \in S
        BY <3>1
      <4> QED BY <4>1, EmptyNameIn
    <3>3. ASSUME NEW type, NEW i \in DOMAIN Body(v)
          PROVE  ItemFromJson(FromJson, type, Body(v)[i]) \in BagsTo[n]
      BY <2>1, <2>4, <3>1, <3>2, ItemIn DEF S
    <3>4. ArrayFromJson(FromJson, name, v) \in Seq(BagsTo[n])
      <4>1. CASE IsArrayProperty(name)
        <5>2. DOMAIN Body(v) = 1..Len(Body(v)) /\ Len(Body(v)) \in Nat
          BY <3>1
        <5>3. \A i \in DOMAIN Body(v) :
                ItemFromJson(FromJson, Registry[name].base, Body(v)[i]) \in BagsTo[n]
          BY <3>3
        <5>4. ArrayFromJson(FromJson, name, v)
                = [i \in DOMAIN Body(v) |->
                     ItemFromJson(FromJson, Registry[name].base, Body(v)[i])]
          BY <4>1 DEF ArrayFromJson
        <5> QED BY <5>2, <5>3, <5>4
      <4>2. CASE ~IsArrayProperty(name)
        BY <4>2 DEF ArrayFromJson
      <4> QED BY <4>1, <4>2
    <3> QED BY <2>2, <2>3, <2>7, <3>4 DEF BagFromJson, MoreBags, Bag
  <2>8. CASE Kind(v) \notin {"object", "array"}
    <3>1. PropertyFromJson(name, v) \in {NoValue} \cup (Types \X Scalars)
      <4>1. CASE name \in DOMAIN Registry /\ Fits(Registry[name].type, v)
        <5>1. Registry[name].type \in Types /\ Body(v) \in Scalars
          BY <2>2, <4>1, FittingTypes, JsonNode DEF Fits
        <5> QED BY <4>1, <5>1 DEF PropertyFromJson, Typed
      <4> QED BY <4>1 DEF PropertyFromJson
    <3> QED BY <2>2, <2>3, <2>8, <3>1 DEF BagFromJson, MoreBags, Bag
  <2> QED BY <2>6, <2>7, <2>8
<1> HIDE DEF Good
<1>4. \A n \in 0..MaxDepth : n \in Good
  BY <1>2, <1>3, DepthAssumption, JsonDepths!UpTo
<1> QED BY <1>1, <1>4 DEF Good

-----------------------------------------------------------------------------
(* The places in a sequence that are written, and the names in a table.    *)
Increasing(s) == \A i, j \in DOMAIN s : i < j => s[i] < s[j]

(* A finite set of numbers can be put in order.                            *)
LEMMA Enumerable ==
  \A m \in Nat : \A I \in SUBSET (1..m) :
    /\ IsFiniteSet(I)
    /\ \E s \in [1..Cardinality(I) -> I] : Increasing(s)
<1>1. \A m \in Nat : \A I \in SUBSET (1..m) : IsFiniteSet(I)
  <2> TAKE m \in Nat
  <2>1. IsFiniteSet(1..m)
    BY FS_Interval
  <2> QED BY <2>1, FS_Subset
<1>2. SUFFICES ASSUME NEW n \in Nat
               PROVE  \A I \in SUBSET (1..n) : \E s \in [1..Cardinality(I) -> I] : Increasing(s)
  BY <1>1
<1> DEFINE Good == {m \in 0..n : \A I \in SUBSET (1..m) :
                      \E s \in [1..Cardinality(I) -> I] : Increasing(s)}
<1>3. 0 \in Good
  <2>1. ASSUME NEW I \in SUBSET (1..0)
        PROVE  \E s \in [1..Cardinality(I) -> I] : Increasing(s)
    <3>1. I = {}
      OBVIOUS
    <3>2. Cardinality(I) = 0
      BY <3>1, FS_EmptySet
    <3> DEFINE s == [i \in 1..0 |-> i]
    <3>3. s \in [1..Cardinality(I) -> I] /\ Increasing(s)
      BY <3>2 DEF Increasing
    <3> QED BY <3>3
  <2> QED BY <2>1
<1>4. ASSUME NEW m \in 0..(n - 1), m \in Good PROVE m + 1 \in Good
  <2>1. m + 1 \in 0..n /\ m \in Nat
    OBVIOUS
  <2>2. ASSUME NEW I \in SUBSET (1..(m + 1))
        PROVE  \E s \in [1..Cardinality(I) -> I] : Increasing(s)
    <3>1. CASE m + 1 \notin I
      <4>1. I \in SUBSET (1..m)
        BY <2>1, <3>1
      <4> QED BY <1>4, <4>1
    <3>2. CASE m + 1 \in I
      <4> DEFINE J == I \ {m + 1}
      <4>1. J \in SUBSET (1..m) /\ m + 1 \notin J /\ I = J \cup {m + 1}
        BY <2>1, <3>2
      <4>2. IsFiniteSet(J)
        BY <1>1, <2>1, <4>1
      <4> HIDE DEF J
      <4>3. Cardinality(J) \in Nat /\ Cardinality(I) = Cardinality(J) + 1
        BY <4>1, <4>2, FS_CardinalityType, FS_AddElement
      <4>4. PICK s \in [1..Cardinality(J) -> J] : Increasing(s)
        BY <1>4, <4>1
      <4> DEFINE k == Cardinality(J)
      <4>k. k \in Nat /\ Cardinality(I) = k + 1 /\ s \in [1..k -> J]
        BY <4>3, <4>4
      <4> HIDE DEF k
      <4> DEFINE t == [i \in 1..(k + 1) |-> IF i = k + 1 THEN m + 1 ELSE s[i]]
      <4>5. t \in [1..Cardinality(I) -> I]
        <5>1. \A i \in 1..(k + 1) : i # k + 1 => i \in 1..k
          BY <4>k
        <5>2. \A i \in 1..(k + 1) : t[i] \in I
          BY <4>k, <4>1, <5>1
        <5> QED BY <4>k, <5>2
      <4>6. Increasing(t)
        <5> SUFFICES ASSUME NEW i \in 1..(k + 1), NEW j \in 1..(k + 1), i < j
                     PROVE  t[i] < t[j]
          BY DEF Increasing
        <5>1. i \in 1..k /\ i # k + 1
          BY <4>k
        <5>4. s[i] \in 1..m /\ s[i] < m + 1
          <6>1. s[i] \in J
            BY <4>k, <5>1
          <6>2. s[i] \in 1..m
            BY <4>1, <6>1
          <6> QED BY <2>1, <6>2
        <5>2. CASE j = k + 1
          BY <5>1, <5>2, <5>4
        <5>3. CASE j # k + 1
          <6>1. j \in 1..k /\ DOMAIN s = 1..k
            BY <4>k, <5>3
          <6> QED BY <5>1, <5>3, <6>1, <4>4 DEF Increasing
        <5> QED BY <5>2, <5>3
      <4> QED BY <4>5, <4>6
    <3> QED BY <3>1, <3>2
  <2> QED BY <2>1, <2>2
<1> HIDE DEF Good
<1>5. \A m \in 0..n : m \in Good
  BY <1>3, <1>4, JsonDepths!UpTo
<1> QED BY <1>5 DEF Good

LEMMA InOrderIs ==
  ASSUME NEW m \in Nat, NEW I \in SUBSET (1..m)
  PROVE  /\ InOrder(I) \in [1..Cardinality(I) -> I]
         /\ Increasing(InOrder(I))
         /\ Cardinality(I) \in Nat
<1>1. IsFiniteSet(I) /\ \E s \in [1..Cardinality(I) -> I] : Increasing(s)
  BY Enumerable
<1>2. Cardinality(I) \in Nat
  BY <1>1, FS_CardinalityType
<1> QED BY <1>1, <1>2 DEF InOrder, Increasing

(* Nothing is out of order when all the places are taken.                  *)
LEMMA AllInOrder ==
  ASSUME NEW n \in Nat
  PROVE  InOrder(1..n) = [i \in 1..n |-> i]
<1> DEFINE s == InOrder(1..n)
<1>1. Cardinality(1..n) = n
  BY FS_Interval
<1>2. s \in [1..n -> 1..n] /\ Increasing(s)
  BY <1>1, InOrderIs
<1> HIDE DEF s
<1> DEFINE Low == {i \in 0..n : i # 0 => s[i] >= i}
           High == {k \in 0..n : k # n => s[n - k] <= n - k}
<1>3. \A i \in 1..n : s[i] >= i
  <2>1. 0 \in Low
    OBVIOUS
  <2>2. ASSUME NEW i \in 0..(n - 1), i \in Low PROVE i + 1 \in Low
    <3>1. i + 1 \in 1..n /\ s[i + 1] \in 1..n
      BY <1>2
    <3>2. CASE i = 0
      BY <3>1, <3>2
    <3>3. CASE i # 0
      <4>1. i \in 1..n /\ i < i + 1 /\ s[i] >= i /\ s[i] \in 1..n
        BY <1>2, <2>2, <3>3
      <4>2. s[i] < s[i + 1]
        BY <1>2, <3>1, <4>1 DEF Increasing
      <4> QED BY <3>1, <4>1, <4>2
    <3> QED BY <3>2, <3>3
  <2> HIDE DEF Low
  <2>3. \A i \in 0..n : i \in Low
    BY <2>1, <2>2, JsonDepths!UpTo
  <2> QED BY <2>3 DEF Low
<1>4. \A i \in 1..n : s[i] <= i
  <2>1. 0 \in High
    BY <1>2
  <2>2. ASSUME NEW k \in 0..(n - 1), k \in High PROVE k + 1 \in High
    <3>1. CASE k + 1 = n
      BY <3>1
    <3>2. CASE k + 1 # n
      <4> DEFINE j == n - (k + 1)
      <4>1. j \in 1..n /\ n - k = j + 1 /\ j + 1 \in 1..n /\ k # n
        BY <3>2
      <4>2. s[j + 1] <= j + 1
        BY <2>2, <4>1
      <4> HIDE DEF j
      <4>3. s[j] < s[j + 1] /\ s[j] \in 1..n /\ s[j + 1] \in 1..n
        BY <1>2, <4>1 DEF Increasing
      <4>4. s[j] <= j
        BY <4>1, <4>2, <4>3
      <4> QED BY <4>4 DEF j
    <3> QED BY <3>1, <3>2
  <2> HIDE DEF High
  <2>3. \A k \in 0..n : k \in High
    BY <2>1, <2>2, JsonDepths!UpTo
  <2>4. ASSUME NEW i \in 1..n PROVE s[i] <= i
    <3>1. n - i \in 0..n /\ n - i # n /\ n - (n - i) = i
      OBVIOUS
    <3> QED BY <2>3, <3>1 DEF High
  <2> QED BY <2>4
<1>5. \A i \in 1..n : s[i] = i
  BY <1>2, <1>3, <1>4
<1> QED BY <1>2, <1>5 DEF s

(* A finite set as a sequence without repetition.                          *)
LEMMA SetToSeqIs ==
  ASSUME NEW T, IsFiniteSet(T)
  PROVE  /\ Cardinality(T) \in Nat
         /\ SetToSeq(T) \in [1..Cardinality(T) -> T]
         /\ \A x \in T : \E i \in 1..Cardinality(T) : SetToSeq(T)[i] = x
         /\ \A i, j \in 1..Cardinality(T) : SetToSeq(T)[i] = SetToSeq(T)[j] => i = j
<1>1. Cardinality(T) \in Nat
  BY FS_CardinalityType
<1>2. PICK n \in Nat : ExistsBijection(1..n, T)
  BY FS_NatBijection
<1>3. n = Cardinality(T)
  BY <1>2, FS_CountingElements
<1>4. PICK f \in Bijection(1..Cardinality(T), T) : TRUE
  BY <1>2, <1>3 DEF ExistsBijection
<1>5. f \in [1..Cardinality(T) -> T] /\ IsInjective(f)
  BY <1>4 DEF Bijection, Injection, IsInjective
<1>6. SetToSeq(T) \in [1..Cardinality(T) -> T] /\ IsInjective(SetToSeq(T))
  BY <1>5 DEF SetToSeq
<1>7. \A i, j \in 1..Cardinality(T) : SetToSeq(T)[i] = SetToSeq(T)[j] => i = j
  BY <1>6 DEF IsInjective
<1>8. IsFiniteSet(1..Cardinality(T)) /\ Cardinality(1..Cardinality(T)) = Cardinality(T)
  BY <1>1, FS_Interval
<1>9. SetToSeq(T) \in Injection(1..Cardinality(T), T)
  BY <1>6 DEF Injection, IsInjective
<1>10. SetToSeq(T) \in Surjection(1..Cardinality(T), T)
  BY <1>8, <1>9, FS_Injection
<1> QED BY <1>1, <1>6, <1>7, <1>10 DEF Surjection

-----------------------------------------------------------------------------
(* What is computed from a bag, from the properties up.                    *)
BagsBelow(n) == IF n = 0 THEN {} ELSE BagsTo[n - 1]

LEMMA BagsBelowGrow ==
  /\ BagsBelow(0) = {}
  /\ BagsBelow(MaxDepth + 1) = Bags
  /\ \A n \in 0..MaxDepth :
       /\ BagsBelow(n + 1) = BagsTo[n]
       /\ BagsBelow(n) \subseteq BagsBelow(n + 1)
       /\ BagsBelow(n + 1) \subseteq MoreBags(BagsBelow(n))
<1>1. BagsBelow(0) = {} /\ BagsBelow(MaxDepth + 1) = Bags
  BY DepthAssumption DEF BagsBelow, Bags
<1>2. ASSUME NEW n \in 0..MaxDepth PROVE BagsBelow(n + 1) = BagsTo[n]
  BY DEF BagsBelow
<1>3. ASSUME NEW n \in 0..MaxDepth
      PROVE  /\ BagsBelow(n) \subseteq BagsBelow(n + 1)
             /\ BagsBelow(n + 1) \subseteq MoreBags(BagsBelow(n))
  <2>1. CASE n = 0
    <3>1. BagsBelow(n + 1) = {NoBag} /\ BagsBelow(n) = {}
      BY <1>1, <1>2, <2>1, BagsLevels
    <3> QED BY <3>1 DEF MoreBags
  <2>2. CASE n # 0
    <3>1. n - 1 \in 0..(MaxDepth - 1) /\ (n - 1) + 1 = n
      BY <2>2, DepthAssumption
    <3>2. BagsBelow(n) = BagsTo[n - 1]
      BY <2>2 DEF BagsBelow
    <3>3. BagsTo[n - 1] \subseteq BagsTo[n] /\ BagsTo[n] = MoreBags(BagsTo[n - 1])
      BY <3>1, BagsGrowOnce, BagsLevels
    <3> QED BY <1>2, <3>2, <3>3
  <2> QED BY <2>1, <2>2
<1> QED BY <1>1, <1>2, <1>3

(* Bags are made of bags, and JSON values of JSON values.                  *)
LEMMA BagsClosed == Bags \subseteq MoreBags(Bags)
<1>1. MaxDepth \in 0..MaxDepth /\ MaxDepth - 1 \in 0..MaxDepth
  BY DepthAssumption, ResponseDepthAssumption
<1>2. BagsTo[MaxDepth] \subseteq MoreBags(BagsBelow(MaxDepth)) /\ BagsBelow(MaxDepth) \subseteq BagsTo[MaxDepth]
  BY <1>1, BagsBelowGrow
<1> QED BY <1>2, MoreBagsGrows DEF Bags

LEMMA JsonClosed == Json \subseteq MoreJson(Json)
<1>1. MaxDepth - 1 \in 0..(MaxDepth - 1) /\ (MaxDepth - 1) + 1 = MaxDepth
  BY DepthAssumption, ResponseDepthAssumption
<1>2. JsonTo[MaxDepth] = MoreJson(JsonTo[MaxDepth - 1]) /\ JsonTo[MaxDepth - 1] \subseteq JsonTo[MaxDepth]
  BY <1>1, JsonLevels, JsonGrowsOnce
<1> QED BY <1>2, MoreJsonGrows DEF Json

Writing == INSTANCE Recursion WITH N <- MaxDepth + 1, D <- BagsBelow, Step <- BagToJson
Taking == INSTANCE Recursion WITH N <- MaxDepth + 1, D <- BagsBelow, Step <- WithParts
Registering == INSTANCE Recursion WITH N <- MaxDepth + 1, D <- BagsBelow, Step <- OnlyRegistered

(* The items of an array and the members of a table that are written.      *)
LEMMA FullPlaces ==
  ASSUME NEW S, NEW s \in Seq(S)
  PROVE  LET I == {i \in DOMAIN s : Full(s[i])}
         IN  /\ I \in SUBSET (1..Len(s)) /\ Len(s) \in Nat
             /\ InOrder(I) \in [1..Cardinality(I) -> I]
             /\ Cardinality(I) \in Nat
             /\ \A i \in DOMAIN InOrder(I) : InOrder(I)[i] \in DOMAIN s
<1> DEFINE I == {i \in DOMAIN s : Full(s[i])}
<1>1. I \in SUBSET (1..Len(s)) /\ Len(s) \in Nat
  OBVIOUS
<1>2. InOrder(I) \in [1..Cardinality(I) -> I] /\ Cardinality(I) \in Nat
  BY <1>1, InOrderIs
<1>3. \A i \in DOMAIN InOrder(I) : InOrder(I)[i] \in DOMAIN s
  BY <1>2
<1> QED BY <1>1, <1>2, <1>3

LEMMA FullNames ==
  ASSUME NEW t
  PROVE  LET T == {k \in Names : Full(t[k])}
         IN  /\ IsFiniteSet(T)
             /\ Cardinality(T) \in Nat
             /\ SetToSeq(T) \in [1..Cardinality(T) -> T]
             /\ \A i \in DOMAIN SetToSeq(T) : SetToSeq(T)[i] \in Names
<1> DEFINE T == {k \in Names : Full(t[k])}
<1>1. IsFiniteSet(T)
  BY FS_Subset, NamesAssumption
<1>2. Cardinality(T) \in Nat /\ SetToSeq(T) \in [1..Cardinality(T) -> T]
  BY <1>1, SetToSeqIs
<1>3. \A i \in DOMAIN SetToSeq(T) : SetToSeq(T)[i] \in Names
  BY <1>2
<1> QED BY <1>1, <1>2, <1>3

(* Writing a bag needs what is written for its parts only.                 *)
LEMMA WriteIsLocal ==
  ASSUME NEW S, NEW b \in MoreBags(S), NEW g, NEW h, \A x \in S : g[x] = h[x]
  PROVE  BagToJson(g, b) = BagToJson(h, b)
<1>1. CASE Kind(b) = "array"
  <2> DEFINE full == InOrder({i \in DOMAIN Body(b) : Full(Body(b)[i])})
  <2>1. Body(b) \in Seq(S)
    BY <1>1, BagNode
  <2>2. \A i \in DOMAIN full : full[i] \in DOMAIN Body(b)
    BY <2>1, FullPlaces
  <2> HIDE DEF full
  <2>3. \A i \in DOMAIN full : g[Body(b)[full[i]]] = h[Body(b)[full[i]]]
    BY <2>1, <2>2
  <2>4. ArrayToJson(g, b) = ArrayToJson(h, b)
    BY <2>3 DEF ArrayToJson, full
  <2> QED BY <1>1, <2>4 DEF BagToJson
<1>2. CASE Kind(b) = "table"
  <2> DEFINE full == SetToSeq({k \in Names : Full(Body(b)[k])})
  <2>1. Body(b) \in [Names -> S]
    BY <1>2, BagNode
  <2>2. \A i \in DOMAIN full : full[i] \in Names
    BY FullNames
  <2> HIDE DEF full
  <2>3. \A i \in DOMAIN full : g[Body(b)[full[i]]] = h[Body(b)[full[i]]]
    BY <2>1, <2>2
  <2>4. TableToJson(g, b) = TableToJson(h, b)
    BY <2>3 DEF TableToJson, full
  <2> QED BY <1>2, <2>4 DEF BagToJson
<1>3. CASE Kind(b) \notin {"array", "table"}
  BY <1>3 DEF BagToJson
<1> QED BY <1>1, <1>2, <1>3

(* Hence the functions on bags exist.                                      *)
LEMMA ToJsonUnfolds ==
  \A b \in Bags : ToJson[b] = BagToJson(ToJson, b)
<1>1. \A n \in 0..MaxDepth : \A g, h :
        (\A x \in BagsBelow(n) : g[x] = h[x]) =>
        \A x \in BagsBelow(n + 1) : BagToJson(g, x) = BagToJson(h, x)
  BY WriteIsLocal, BagsBelowGrow
<1>2. \E f : f = [b \in BagsBelow(MaxDepth + 1) |-> BagToJson(f, b)]
  BY <1>1, BagsBelowGrow, BelowGrows, Writing!Exists
<1>3. PICK f : f = [b \in Bags |-> BagToJson(f, b)]
  BY <1>2, BagsBelowGrow
<1>4. ToJson = [b \in Bags |-> BagToJson(ToJson, b)]
  BY <1>3 DEF ToJson
<1> HIDE DEF ToJson
<1> QED BY <1>4

LEMMA ChildrenIn ==
  ASSUME NEW S, NEW b \in MoreBags(S)
  PROVE  Children(b) \subseteq S
BY BagNode DEF Children, Range

LEMMA PartsUnfold ==
  \A b \in Bags : Parts[b] = WithParts(Parts, b)
<1>1. ASSUME NEW n \in 0..MaxDepth, NEW g, NEW h, \A x \in BagsBelow(n) : g[x] = h[x],
             NEW b \in BagsBelow(n + 1)
      PROVE  WithParts(g, b) = WithParts(h, b)
  <2>1. \A c \in Children(b) : g[c] = h[c]
    BY <1>1, ChildrenIn, BagsBelowGrow
  <2> QED BY <2>1 DEF WithParts
<1>2. \E f : f = [b \in BagsBelow(MaxDepth + 1) |-> WithParts(f, b)]
  BY <1>1, BagsBelowGrow, BelowGrows, Taking!Exists
<1>3. PICK f : f = [b \in Bags |-> WithParts(f, b)]
  BY <1>2, BagsBelowGrow
<1>4. Parts = [b \in Bags |-> WithParts(Parts, b)]
  BY <1>3 DEF Parts
<1> HIDE DEF Parts
<1> QED BY <1>4

LEMMA RegisteredUnfolds ==
  \A b \in Bags : Registered[b] = OnlyRegistered(Registered, b)
<1>1. ASSUME NEW n \in 0..MaxDepth, NEW g, NEW h, \A x \in BagsBelow(n) : g[x] = h[x],
             NEW b \in BagsBelow(n + 1)
      PROVE  OnlyRegistered(g, b) = OnlyRegistered(h, b)
  <2>1. CASE Kind(b) \in {"array", "table"}
    <3>1. \A k \in DOMAIN Body(b) : Body(b)[k] \in Children(b)
      BY <2>1 DEF Children, Range
    <3>2. \A k \in DOMAIN Body(b) : g[Body(b)[k]] = h[Body(b)[k]]
      BY <1>1, <3>1, ChildrenIn, BagsBelowGrow
    <3>3. [k \in DOMAIN Body(b) |-> g[Body(b)[k]]] = [k \in DOMAIN Body(b) |-> h[Body(b)[k]]]
      BY <3>2
    <3> QED BY <2>1, <3>3 DEF OnlyRegistered
  <2>2. CASE Kind(b) \notin {"array", "table"}
    BY <2>2 DEF OnlyRegistered
  <2> QED BY <2>1, <2>2
<1>2. \E f : f = [b \in BagsBelow(MaxDepth + 1) |-> OnlyRegistered(f, b)]
  BY <1>1, BagsBelowGrow, BelowGrows, Registering!Exists
<1>3. PICK f : f = [b \in Bags |-> OnlyRegistered(f, b)]
  BY <1>2, BagsBelowGrow
<1>4. Registered = [b \in Bags |-> OnlyRegistered(Registered, b)]
  BY <1>3 DEF Registered
<1> HIDE DEF Registered
<1> QED BY <1>4

-----------------------------------------------------------------------------
(* What is said of a JSON value.                                           *)
JsonBelow(n) == JsonTo[n]
Erring(f, p) == ErrorsIn(f, p[1], p[2])
Alike(n) == JsonTo[n] \X Bags
Agreeing(f, p) == SaysWhat(f, p[1], p[2])

Keying == INSTANCE Recursion WITH N <- MaxDepth, D <- JsonBelow, Step <- KeysIn
Complaining == INSTANCE Recursion WITH N <- MaxDepth, D <- Readable, Step <- Erring
Comparing == INSTANCE Recursion WITH N <- MaxDepth, D <- Alike, Step <- Agreeing

(* Hence the functions on JSON values exist.                               *)
LEMMA KeyedUnfolds ==
  \A v \in Json : Keyed[v] = KeysIn(Keyed, v)
<1>1. ASSUME NEW n \in 0..(MaxDepth - 1), NEW g, NEW h, \A x \in JsonTo[n] : g[x] = h[x],
             NEW v \in JsonTo[n + 1]
      PROVE  KeysIn(g, v) = KeysIn(h, v)
  <2> DEFINE S == JsonTo[n]
  <2>1. v \in MoreJson(S)
    BY JsonLevels
  <2>2. \A x \in S : g[x] = h[x]
    BY <1>1
  <2> HIDE DEF S
  <2>3. CASE Kind(v) = "object"
    <3>1. \A i \in DOMAIN Body(v) : Body(v)[i][2] \in S
      BY <2>1, <2>3, JsonNode, Members
    <3>2. \A i \in DOMAIN Body(v) : g[Body(v)[i][2]] = h[Body(v)[i][2]]
      BY <2>2, <3>1
    <3> QED BY <2>3, <3>2 DEF KeysIn
  <2>4. CASE Kind(v) = "array"
    <3>1. Body(v) \in Seq(S)
      BY <2>1, <2>4, JsonNode
    <3>2. \A i \in DOMAIN Body(v) : g[Body(v)[i]] = h[Body(v)[i]]
      BY <2>2, <3>1
    <3> QED BY <2>4, <3>2 DEF KeysIn
  <2>5. CASE Kind(v) \notin {"object", "array"}
    BY <2>5 DEF KeysIn
  <2> QED BY <2>3, <2>4, <2>5
<1>2. \A n \in 0..(MaxDepth - 1) : JsonBelow(n) \subseteq JsonBelow(n + 1)
  BY JsonGrowsOnce DEF JsonBelow
<1>3. JsonBelow(0) = {} /\ JsonBelow(MaxDepth) = Json
  BY JsonLevels DEF JsonBelow, Json
<1>4. \E f : f = [v \in JsonBelow(MaxDepth) |-> KeysIn(f, v)]
  BY <1>1, <1>2, <1>3, DepthAssumption, Keying!Exists DEF JsonBelow
<1>5. PICK f : f = [v \in Json |-> KeysIn(f, v)]
  BY <1>3, <1>4
<1>6. Keyed = [v \in Json |-> KeysIn(Keyed, v)]
  BY <1>5 DEF Keyed
<1> HIDE DEF Keyed
<1> QED BY <1>6

LEMMA HasErrorsUnfolds ==
  ASSUME NEW name \in Names, NEW v \in Json
  PROVE  HasErrors[<<name, v>>] = ErrorsIn(HasErrors, name, v)
<1>1. ASSUME NEW n \in 0..(MaxDepth - 1), NEW g, NEW h,
             \A p \in Readable(n) : g[p] = h[p], NEW p \in Readable(n + 1)
      PROVE  Erring(g, p) = Erring(h, p)
  <2> DEFINE S == JsonTo[n]
             w == p[2]
  <2>1. w \in MoreJson(S)
    BY ReadableGrows
  <2>2. \A q \in Names \X S : g[q] = h[q]
    BY <1>1 DEF Readable
  <2> HIDE DEF S, w
  <2>3. CASE Kind(w) = "object"
    <3>1. \A i \in DOMAIN Body(w) : Body(w)[i][1] \in Names /\ Body(w)[i][2] \in S
      BY <2>1, <2>3, JsonNode, Members
    <3>2. \A i \in DOMAIN Body(w) : <<CString(Body(w)[i][1]), Body(w)[i][2]>> \in Names \X S
      BY <3>1, Cut
    <3>3. \A i \in DOMAIN Body(w) : g[<<CString(Body(w)[i][1]), Body(w)[i][2]>>]
                                      = h[<<CString(Body(w)[i][1]), Body(w)[i][2]>>]
      BY <2>2, <3>2
    <3>4. ErrorsIn(g, p[1], w) = ErrorsIn(h, p[1], w)
      BY <2>3, <3>3 DEF ErrorsIn
    <3> QED BY <3>4 DEF Erring, w
  <2>4. CASE Kind(w) = "array"
    <3>1. Body(w) \in Seq(S)
      BY <2>1, <2>4, JsonNode
    <3>2. \A i \in DOMAIN Body(w) : <<"", Body(w)[i]>> \in Names \X S
      <4>1. \A i \in DOMAIN Body(w) : Body(w)[i] \in S
        BY <3>1
      <4> QED BY <4>1, EmptyNameIn
    <3>3. \A i \in DOMAIN Body(w) : g[<<"", Body(w)[i]>>] = h[<<"", Body(w)[i]>>]
      BY <2>2, <3>2
    <3>4. ErrorsIn(g, p[1], w) = ErrorsIn(h, p[1], w)
      BY <2>4, <3>3 DEF ErrorsIn
    <3> QED BY <3>4 DEF Erring, w
  <2>5. CASE Kind(w) \notin {"object", "array"}
    <3>1. ErrorsIn(g, p[1], w) = ErrorsIn(h, p[1], w)
      BY <2>5 DEF ErrorsIn
    <3> QED BY <3>1 DEF Erring, w
  <2> QED BY <2>3, <2>4, <2>5
<1>2. \E f : f = [p \in Readable(MaxDepth) |-> Erring(f, p)]
  BY <1>1, DepthAssumption, ReadableGrows, Complaining!Exists
<1>3. PICK f : f = [p \in Names \X Json |-> Erring(f, p)]
  BY <1>2, ReadableGrows
<1>4. HasErrors = [p \in Names \X Json |-> Erring(HasErrors, p)]
  BY <1>3 DEF HasErrors, Erring
<1> HIDE DEF HasErrors
<1>5. <<name, v>> \in Names \X Json /\ <<name, v>>[1] = name /\ <<name, v>>[2] = v
  OBVIOUS
<1>6. HasErrors[<<name, v>>] = Erring(HasErrors, <<name, v>>)
  BY <1>4, <1>5
<1> QED BY <1>5, <1>6 DEF Erring

LEMMA AgreesUnfolds ==
  ASSUME NEW v \in Json, NEW b \in Bags
  PROVE  Agrees[<<v, b>>] = SaysWhat(Agrees, v, b)
<1>1. ASSUME NEW n \in 0..(MaxDepth - 1), NEW g, NEW h,
             \A p \in Alike(n) : g[p] = h[p], NEW p \in Alike(n + 1)
      PROVE  Agreeing(g, p) = Agreeing(h, p)
  <2> DEFINE S == JsonTo[n]
             w == p[1]
             c == p[2]
  <2>1. w \in MoreJson(S) /\ c \in MoreBags(Bags)
    BY JsonLevels, BagsClosed DEF Alike
  <2>2. \A q \in S \X Bags : g[q] = h[q]
    BY <1>1 DEF Alike
  <2> HIDE DEF S, w, c
  <2>3. CASE Kind(w) = "object"
    <3>1. CASE Kind(c) = "table"
      <4>1. \A k \in Keys(w) : k \in Names /\ FirstOf(w, k) \in S
        BY <2>1, <2>3, JsonNode, Members
      <4>2. \A k \in Names : Body(c)[k] \in Bags
        BY <2>1, <3>1, BagNode
      <4>3. \A k \in Keys(w) : g[<<FirstOf(w, k), Body(c)[k]>>] = h[<<FirstOf(w, k), Body(c)[k]>>]
        BY <2>2, <4>1, <4>2
      <4>4. SaysWhat(g, w, c) = SaysWhat(h, w, c)
        BY <2>3, <4>3 DEF SaysWhat
      <4> QED BY <4>4 DEF Agreeing, w, c
    <3>2. CASE Kind(c) # "table"
      <4>1. SaysWhat(g, w, c) = SaysWhat(h, w, c)
        BY <2>3, <3>2 DEF SaysWhat
      <4> QED BY <4>1 DEF Agreeing, w, c
    <3> QED BY <3>1, <3>2
  <2>4. CASE Kind(w) = "array"
    <3> DEFINE Same == Kind(c) = "array" /\ (Body(c) = << >> \/ Len(Body(c)) = Len(Body(w)))
    <3>1. CASE Same
      <4>1. Body(w) \in Seq(S) /\ Body(c) \in Seq(Bags)
        BY <2>1, <2>4, <3>1, JsonNode, BagNode
      <4>2. \A i \in DOMAIN Body(c) : Body(w)[i] \in S /\ Body(c)[i] \in Bags
        BY <3>1, <4>1
      <4>3. \A i \in DOMAIN Body(c) : g[<<Body(w)[i], Body(c)[i]>>] = h[<<Body(w)[i], Body(c)[i]>>]
        BY <2>2, <4>2
      <4>4. SaysWhat(g, w, c) = SaysWhat(h, w, c)
        BY <2>4, <4>3 DEF SaysWhat
      <4> QED BY <4>4 DEF Agreeing, w, c
    <3>2. CASE ~Same
      <4>1. SaysWhat(g, w, c) = SaysWhat(h, w, c)
        BY <2>4, <3>2 DEF SaysWhat
      <4> QED BY <4>1 DEF Agreeing, w, c
    <3> QED BY <3>1, <3>2
  <2>5. CASE Kind(w) \notin {"object", "array"}
    <3>1. SaysWhat(g, w, c) = SaysWhat(h, w, c)
      BY <2>5 DEF SaysWhat
    <3> QED BY <3>1 DEF Agreeing, w, c
  <2> QED BY <2>3, <2>4, <2>5
<1>2. \A n \in 0..(MaxDepth - 1) : Alike(n) \subseteq Alike(n + 1)
  BY JsonGrowsOnce DEF Alike
<1>3. Alike(0) = {} /\ Alike(MaxDepth) = Json \X Bags
  BY JsonLevels DEF Alike, Json
<1>4. \E f : f = [p \in Alike(MaxDepth) |-> Agreeing(f, p)]
  BY <1>1, <1>2, <1>3, DepthAssumption, Comparing!Exists
<1>5. PICK f : f = [p \in Json \X Bags |-> Agreeing(f, p)]
  BY <1>3, <1>4
<1>6. Agrees = [p \in Json \X Bags |-> Agreeing(Agrees, p)]
  BY <1>5 DEF Agrees, Agreeing
<1> HIDE DEF Agrees
<1>7. <<v, b>> \in Json \X Bags /\ <<v, b>>[1] = v /\ <<v, b>>[2] = b
  OBVIOUS
<1>8. Agrees[<<v, b>>] = Agreeing(Agrees, <<v, b>>)
  BY <1>6, <1>7
<1> QED BY <1>7, <1>8 DEF Agreeing

-----------------------------------------------------------------------------
(* What is read says what was sent.                                        *)
LEMMA PartsOf ==
  ASSUME NEW b \in Bags
  PROVE  \A q : q \in Parts[b] <=> q = b \/ \E c \in Children(b) : q \in Parts[c]
BY PartsUnfold DEF WithParts

(* The bags in a bag, and what is whole.                                   *)
LEMMA ChildrenAreBags ==
  ASSUME NEW b \in Bags
  PROVE  Children(b) \subseteq Bags
BY ChildrenIn, BagsClosed

LEMMA NoBagIsBag ==
  /\ NoBag \in Bags
  /\ Kind(NoBag) = "empty" /\ ~Full(NoBag) /\ Children(NoBag) = {}
  /\ Parts[NoBag] = {NoBag}
<1>1. NoBag \in Bags
  BY NoBagEverywhere, DepthAssumption DEF Bags
<1>2. Kind(NoBag) = "empty" /\ ~Full(NoBag) /\ Children(NoBag) = {}
  BY DEF NoBag, Bag, Kind, Full, Children
<1> QED BY <1>1, <1>2, PartsOf

LEMMA WholeByParts ==
  ASSUME NEW b \in Bags,
         Kind(b) = "property" => Body(b) # NoValue,
         Kind(b) = "array" => \A i \in DOMAIN Body(b) : Full(Body(b)[i]),
         \A c \in Children(b) : Whole(c)
  PROVE  Whole(b)
BY PartsOf DEF Whole, HasValues

LEMMA NoBagIsWhole == Whole(NoBag)
BY NoBagIsBag DEF Whole, HasValues

(* A scalar, a member, an object and an array, read.                       *)
LEMMA ScalarIsRead ==
  ASSUME NEW name \in Names, NEW v \in Json, Kind(v) \notin {"object", "array"}
  PROVE  /\ Agrees[<<v, FromJson[<<name, v>>]>>]
         /\ ~HasErrors[<<name, v>>] => Whole(FromJson[<<name, v>>])
<1> DEFINE b == FromJson[<<name, v>>]
<1>1. <<name, v>> \in Readable(MaxDepth) /\ MaxDepth \in 0..MaxDepth
  BY ReadableGrows, DepthAssumption
<1>2. b \in Bags
  BY <1>1, FromJsonIsBag DEF Bags
<1>3. b = Bag(name, "property", PropertyFromJson(name, v))
  BY FromJsonUnfolds DEF BagFromJson
<1> HIDE DEF b
<1>4. Kind(b) = "property" /\ Body(b) = PropertyFromJson(name, v)
  BY <1>3 DEF Bag, Kind, Body
<1>5. Body(b) = NoValue \/ Body(b)[2] = Body(v)
  BY <1>4 DEF PropertyFromJson, Typed
<1>6. Agrees[<<v, b>>]
  BY <1>2, <1>4, <1>5, AgreesUnfolds DEF SaysWhat
<1>7. ASSUME ~HasErrors[<<name, v>>] PROVE Whole(b)
  <2>1. Body(b) # NoValue
    BY <1>4, <1>7, HasErrorsUnfolds DEF ErrorsIn
  <2>2. Children(b) = {}
    BY <1>4 DEF Children
  <2> QED BY <1>2, <1>4, <2>1, <2>2, WholeByParts
<1> QED BY <1>6, <1>7 DEF b

LEMMA MemberIsReadable ==
  ASSUME NEW n \in 0..(MaxDepth - 1), NEW v \in JsonTo[n + 1], Kind(v) = "object",
         NEW k \in Keys(v)
  PROVE  /\ k \in Names
         /\ Member(v, k) = FirstOf(v, k)
         /\ <<CString(k), Member(v, k)>> \in Readable(n)
         /\ \E i \in DOMAIN Body(v) : Body(v)[i][1] = k /\ Body(v)[i][2] = Member(v, k)
<1>1. Body(v) \in Seq(Names \X JsonTo[n])
  BY JsonLevels, JsonNode
<1>2. /\ k \in Names /\ Member(v, k) \in JsonTo[n]
      /\ Member(v, k) = FirstOf(v, k)
      /\ \E i \in DOMAIN Body(v) : Body(v)[i][1] = k /\ Body(v)[i][2] = Member(v, k)
  BY <1>1, Members, MemberAt
<1>3. CString(k) \in Names
  BY <1>2, Cut
<1> QED BY <1>2, <1>3 DEF Readable

LEMMA ObjectIsRead ==
  ASSUME NEW n \in 0..(MaxDepth - 1), NEW name \in Names, NEW v \in JsonTo[n + 1],
         Kind(v) = "object",
         \A p \in Readable(n) : /\ Agrees[<<p[2], FromJson[p]>>]
                                /\ ~HasErrors[p] => Whole(FromJson[p])
  PROVE  /\ Agrees[<<v, FromJson[<<name, v>>]>>]
         /\ ~HasErrors[<<name, v>>] => Whole(FromJson[<<name, v>>])
<1> DEFINE b == FromJson[<<name, v>>]
           S == JsonTo[n]
           sub(k) == <<CString(k), Member(v, k)>>
<1>1. n \in 0..MaxDepth /\ n + 1 \in 0..MaxDepth /\ v \in MoreJson(S) /\ v \in Json
  <2>1. n \in 0..MaxDepth /\ n + 1 \in 0..MaxDepth
    BY DepthAssumption
  <2> QED BY <2>1, JsonLevels, JsonGrows
<1>2. <<name, v>> \in Readable(n + 1)
  BY DEF Readable
<1>3. b \in Bags
  BY <1>1, <1>2, FromJsonIsBag, BagsGrow
<1>4. b = Bag(name, "table", TableFromJson(FromJson, v))
  BY <1>1, FromJsonUnfolds DEF BagFromJson
<1>5. Body(v) \in Seq(Names \X S)
  BY <1>1, JsonNode
<1>6. ASSUME NEW k \in Keys(v)
      PROVE  /\ k \in Names /\ sub(k) \in Readable(n)
             /\ Member(v, k) = FirstOf(v, k)
             /\ Agrees[<<FirstOf(v, k), FromJson[sub(k)]>>]
             /\ ~HasErrors[sub(k)] => Whole(FromJson[sub(k)])
             /\ Full(FromJson[sub(k)])
             /\ \E i \in DOMAIN Body(v) : Body(v)[i][1] = k /\ Body(v)[i][2] = Member(v, k)
  <2>1. k \in Names /\ Member(v, k) = FirstOf(v, k) /\ sub(k) \in Readable(n)
        /\ \E i \in DOMAIN Body(v) : Body(v)[i][1] = k /\ Body(v)[i][2] = Member(v, k)
    BY MemberIsReadable
  <2>3. sub(k) \in Readable(n) /\ sub(k)[2] = FirstOf(v, k)
    BY <2>1
  <2> HIDE DEF sub
  <2>4. Agrees[<<sub(k)[2], FromJson[sub(k)]>>] /\ (~HasErrors[sub(k)] => Whole(FromJson[sub(k)]))
    BY <2>3
  <2>5. Full(FromJson[sub(k)])
    BY <1>1, <2>3, FromJsonIsBag
  <2> QED BY <2>1, <2>3, <2>4, <2>5
<1> HIDE DEF b, S
<1>7. Kind(b) = "table" /\ Body(b) = TableFromJson(FromJson, v)
  BY <1>4 DEF Bag, Kind, Body
<1>8. \A k \in Names : Body(b)[k] = IF k \in Keys(v) THEN FromJson[sub(k)] ELSE NoBag
  BY <1>7 DEF TableFromJson
<1>9. DOMAIN Body(b) = Names
  BY <1>7 DEF TableFromJson
<1> HIDE DEF sub
<1>10. \A k \in Names : Full(Body(b)[k]) <=> k \in Keys(v)
  BY <1>6, <1>8, NoBagIsBag
<1>11. \A k \in Keys(v) : Agrees[<<FirstOf(v, k), Body(b)[k]>>]
  BY <1>6, <1>8
<1>12. Agrees[<<v, b>>]
  BY <1>1, <1>3, <1>7, <1>10, <1>11, AgreesUnfolds DEF SaysWhat
<1>13. ASSUME ~HasErrors[<<name, v>>] PROVE Whole(b)
  <2>1. \A i \in DOMAIN Body(v) : ~HasErrors[<<CString(Body(v)[i][1]), Body(v)[i][2]>>]
    BY <1>1, <1>13, HasErrorsUnfolds DEF ErrorsIn
  <2>2. \A k \in Keys(v) : ~HasErrors[sub(k)]
    BY <1>6, <2>1 DEF sub
  <2>3. \A k \in Names : Whole(Body(b)[k])
    BY <1>6, <1>8, <2>2, NoBagIsWhole
  <2>4. \A c \in Children(b) : Whole(c)
    BY <1>7, <1>9, <2>3 DEF Children, Range
  <2> QED BY <1>3, <1>7, <2>4, WholeByParts
<1> QED BY <1>12, <1>13 DEF b

LEMMA ArrayIsRead ==
  ASSUME NEW n \in 0..(MaxDepth - 1), NEW name \in Names, NEW v \in JsonTo[n + 1],
         Kind(v) = "array",
         \A p \in Readable(n) : /\ Agrees[<<p[2], FromJson[p]>>]
                                /\ ~HasErrors[p] => Whole(FromJson[p])
  PROVE  /\ Agrees[<<v, FromJson[<<name, v>>]>>]
         /\ ~HasErrors[<<name, v>>] => Whole(FromJson[<<name, v>>])
<1> DEFINE b == FromJson[<<name, v>>]
           S == JsonTo[n]
           base == Registry[name].base
           item(i) == ItemFromJson(FromJson, base, Body(v)[i])
<1>1. n \in 0..MaxDepth /\ n + 1 \in 0..MaxDepth /\ v \in MoreJson(S) /\ v \in Json
  <2>1. n \in 0..MaxDepth /\ n + 1 \in 0..MaxDepth
    BY DepthAssumption
  <2> QED BY <2>1, JsonLevels, JsonGrows
<1>2. <<name, v>> \in Readable(n + 1)
  BY DEF Readable
<1>3. b \in Bags
  BY <1>1, <1>2, FromJsonIsBag, BagsGrow
<1>4. b = Bag(name, "array", ArrayFromJson(FromJson, name, v))
  BY <1>1, FromJsonUnfolds DEF BagFromJson
<1>5. Body(v) \in Seq(S)
  BY <1>1, JsonNode
<1> HIDE DEF b
<1>6. Kind(b) = "array" /\ Body(b) = ArrayFromJson(FromJson, name, v)
  BY <1>4 DEF Bag, Kind, Body
<1>7. CASE ~IsArrayProperty(name)
  <2>1. Body(b) = << >>
    BY <1>6, <1>7 DEF ArrayFromJson
  <2>2. Agrees[<<v, b>>]
    <3>1. Agrees[<<v, b>>] = SaysWhat(Agrees, v, b)
      BY <1>1, <1>3, AgreesUnfolds
    <3>2. \A i \in DOMAIN Body(b) : FALSE
      BY <2>1
    <3>3. SaysWhat(Agrees, v, b)
      BY <1>6, <2>1, <3>2 DEF SaysWhat
    <3> QED BY <3>1, <3>3
  <2>3. HasErrors[<<name, v>>]
    BY <1>1, <1>7, HasErrorsUnfolds DEF ErrorsIn
  <2> QED BY <2>2, <2>3 DEF b
<1>8. CASE IsArrayProperty(name)
  <2>1. Body(b) = [i \in DOMAIN Body(v) |-> item(i)]
    BY <1>6, <1>8 DEF ArrayFromJson
  <2>3. ASSUME NEW i \in DOMAIN Body(v)
        PROVE  /\ Full(item(i)) => Agrees[<<Body(v)[i], item(i)>>]
               /\ \/ Kind(Body(v)[i]) = "object" /\ HasErrors[<<"", Body(v)[i]>>]
                  \/ Kind(Body(v)[i]) # "object" /\ ~Fits(base, Body(v)[i])
                  \/ Full(item(i)) /\ Whole(item(i))
    <3> DEFINE w == Body(v)[i]
    <3>1. w \in S /\ w \in Json /\ <<"", w>> \in Readable(n) /\ <<"", w>>[2] = w
      <4>1. w \in S
        BY <1>5
      <4>2. w \in Json
        BY <1>1, <4>1, JsonGrows
      <4> QED BY <4>1, <4>2, EmptyNameIn DEF Readable
    <3> HIDE DEF w
    <3>2. CASE Kind(w) = "object"
      <4>1. item(i) = FromJson[<<"", w>>]
        BY <3>2 DEF ItemFromJson, Fits, w
      <4>2. Agrees[<<<<"", w>>[2], FromJson[<<"", w>>]>>]
            /\ (~HasErrors[<<"", w>>] => Whole(FromJson[<<"", w>>]))
        BY <3>1
      <4>3. Full(FromJson[<<"", w>>])
        BY <1>1, <3>1, FromJsonIsBag
      <4> HIDE DEF item
      <4> QED BY <3>1, <3>2, <4>1, <4>2, <4>3 DEF w
    <3>3. CASE Kind(w) # "object" /\ Fits(base, w)
      <4>1. item(i) = Bag("", "property", <<base, Body(w)>>)
        BY <3>3 DEF ItemFromJson, Typed, w
      <4>2. n # 0 /\ Kind(w) = "scalar" /\ Body(w) \in Scalars
        BY <1>1, <3>1, <3>3, ScalarBody, JsonLevels DEF Fits, S
      <4>3. item(i) \in Bags
        BY <1>1, <3>3, <4>1, <4>2, FittingTypes, PropertyEverywhere, EmptyNameIn, BagsGrow
      <4> HIDE DEF item
      <4>4. Kind(item(i)) = "property" /\ Body(item(i)) = <<base, Body(w)>>
        BY <4>1, PropertyFields
      <4>5. Body(item(i)) # NoValue /\ Body(item(i))[2] = Body(w)
        BY <4>4 DEF NoValue
      <4>6. Agrees[<<w, item(i)>>]
        BY <3>1, <4>2, <4>3, <4>4, <4>5, AgreesUnfolds DEF SaysWhat
      <4>7. Full(item(i)) /\ Children(item(i)) = {}
        BY <4>4 DEF Full, Children
      <4>8. Whole(item(i))
        BY <4>3, <4>4, <4>5, <4>7, WholeByParts
      <4> QED BY <4>6, <4>7, <4>8 DEF w
    <3>4. CASE Kind(w) # "object" /\ ~Fits(base, w)
      <4>1. item(i) = NoBag
        BY <3>4 DEF ItemFromJson, w
      <4> HIDE DEF item
      <4> QED BY <3>4, <4>1, NoBagIsBag DEF w
    <3> QED BY <3>2, <3>3, <3>4
  <2> HIDE DEF item
  <2>4. DOMAIN Body(b) = DOMAIN Body(v) /\ Len(Body(b)) = Len(Body(v))
        /\ \A i \in DOMAIN Body(b) : Body(b)[i] = item(i)
    BY <1>5, <2>1
  <2>5. Agrees[<<v, b>>]
    <3>1. \A i \in DOMAIN Body(b) : Full(Body(b)[i]) => Agrees[<<Body(v)[i], Body(b)[i]>>]
      BY <2>3, <2>4
    <3>2. Agrees[<<v, b>>] = SaysWhat(Agrees, v, b)
      BY <1>1, <1>3, AgreesUnfolds
    <3>3. SaysWhat(Agrees, v, b)
      BY <1>6, <2>4, <3>1 DEF SaysWhat
    <3> QED BY <3>2, <3>3
  <2>6. ASSUME ~HasErrors[<<name, v>>] PROVE Whole(b)
    <3>1. ~ErrorsIn(HasErrors, name, v)
      BY <1>1, <2>6, HasErrorsUnfolds
    <3>2. \A i \in DOMAIN Body(v) : IF Kind(Body(v)[i]) = "object" THEN ~HasErrors[<<"", Body(v)[i]>>]
                                    ELSE Fits(base, Body(v)[i])
      BY <3>1 DEF ErrorsIn
    <3>3. \A i \in DOMAIN Body(v) : Full(item(i)) /\ Whole(item(i))
      BY <2>3, <3>2
    <3>4. \A i \in DOMAIN Body(b) : Full(Body(b)[i])
      BY <2>4, <3>3
    <3>5. \A c \in Children(b) : Whole(c)
      BY <1>6, <2>4, <3>3 DEF Children, Range
    <3> QED BY <1>3, <1>6, <3>4, <3>5, WholeByParts
  <2> QED BY <2>5, <2>6 DEF b
<1> QED BY <1>7, <1>8

(* The induction.                                                          *)
LEMMA RequestIsRead ==
  ASSUME NEW name \in Names, NEW v \in Json
  PROVE  /\ Agrees[<<v, FromJson[<<name, v>>]>>]
         /\ ~HasErrors[<<name, v>>] => Whole(FromJson[<<name, v>>])
<1> DEFINE IsRead(p) == /\ Agrees[<<p[2], FromJson[p]>>]
                        /\ ~HasErrors[p] => Whole(FromJson[p])
           Good == {n \in 0..MaxDepth : \A p \in Readable(n) : IsRead(p)}
<1>1. 0 \in Good
  BY DepthAssumption, ReadableGrows
<1>2. ASSUME NEW n \in 0..(MaxDepth - 1), n \in Good PROVE n + 1 \in Good
  <2>1. n + 1 \in 0..MaxDepth
    BY DepthAssumption
  <2>2. \A p \in Readable(n) : IsRead(p)
    BY <1>2
  <2>3. ASSUME NEW p \in Readable(n + 1) PROVE IsRead(p)
    <3>1. p[1] \in Names /\ p[2] \in JsonTo[n + 1] /\ p = <<p[1], p[2]>>
      BY DEF Readable
    <3>2. p[2] \in Json
      BY <2>1, <3>1, JsonGrows
    <3>3. CASE Kind(p[2]) = "object"
      BY <2>2, <3>1, <3>3, ObjectIsRead
    <3>4. CASE Kind(p[2]) = "array"
      BY <2>2, <3>1, <3>4, ArrayIsRead
    <3>5. CASE Kind(p[2]) \notin {"object", "array"}
      BY <3>1, <3>2, <3>5, ScalarIsRead
    <3> QED BY <3>3, <3>4, <3>5
  <2> QED BY <2>1, <2>3
<1> HIDE DEF Good
<1>3. MaxDepth \in Good
  BY <1>1, <1>2, DepthAssumption, JsonDepths!UpTo
<1>4. <<name, v>> \in Readable(MaxDepth)
  BY ReadableGrows
<1> QED BY <1>3, <1>4 DEF Good

-----------------------------------------------------------------------------
(* Bags that can be written: properties of the types of responses, arrays  *)
(* that are registered, members with names that are not cut.               *)
FineProperty(p) ==
  /\ Body(p) \in {"bool", "int", "string"} \X Scalars
  /\ Body(p)[2][1] \in Accepted(Body(p)[1])

FineHere(p) ==
  /\ Kind(p) = "property" => FineProperty(p)
  /\ Kind(p) = "array" =>
       /\ IsArrayProperty(Name(p))
       /\ \A i \in DOMAIN Body(p) : Full(Body(p)[i]) /\ Name(Body(p)[i]) = ""
  /\ Kind(p) = "table" =>
       \A k \in Names :
         Full(Body(p)[k]) => Name(Body(p)[k]) \in Names \ ({""} \cup DOMAIN CutKeys)

Fine(b) == \A p \in Parts[b] : FineHere(p)

(* And read back: tables in the arrays, every bag named like its key.      *)
NeatHere(p) ==
  /\ Kind(p) = "property" =>
       /\ Name(p) # ""
       /\ Name(p) \in DOMAIN Registry => Registry[Name(p)].type = Body(p)[1]
  /\ Kind(p) = "array" => \A i \in DOMAIN Body(p) : Kind(Body(p)[i]) = "table"
  /\ Kind(p) = "table" => \A k \in Names : Full(Body(p)[k]) => Name(Body(p)[k]) = k

Neat(b) == \A p \in Parts[b] : NeatHere(p)

(* A bag is fine, or neat, if it is by itself and the bags in it are.      *)
LEMMA FineByParts ==
  ASSUME NEW b \in Bags
  PROVE  Fine(b) <=> FineHere(b) /\ \A c \in Children(b) : Fine(c)
BY PartsOf DEF Fine

LEMMA NeatByParts ==
  ASSUME NEW b \in Bags
  PROVE  Neat(b) <=> NeatHere(b) /\ \A c \in Children(b) : Neat(c)
BY PartsOf DEF Neat

LEMMA SelfIsPart ==
  ASSUME NEW b \in Bags
  PROVE  b \in Parts[b]
BY PartsOf

LEMMA ItemsAreChildren ==
  ASSUME NEW b, Kind(b) \in {"array", "table"}
  PROVE  \A i \in DOMAIN Body(b) : Body(b)[i] \in Children(b)
BY DEF Children, Range

(* A property, an array and a table, written.                              *)
LEMMA PropertyWritten ==
  ASSUME NEW b \in Bags, Kind(b) = "property", FineHere(b)
  PROVE  /\ ToJson[b] = <<"scalar", Body(b)[2]>>
         /\ Body(b)[2] \in Scalars
         /\ Body(b) # NoValue
<1>1. Body(b)[1] \in {"bool", "int", "string"} /\ Body(b)[2] \in Scalars /\ Body(b) # NoValue
  <2>1. Body(b) \in {"bool", "int", "string"} \X Scalars
    BY DEF FineHere, FineProperty
  <2>2. << >> \notin {"bool", "int", "string"} \X Scalars
    OBVIOUS
  <2> QED BY <2>1, <2>2 DEF NoValue
<1>2. ToJson[b] = PropertyToJson(b)
  BY ToJsonUnfolds DEF BagToJson
<1> QED BY <1>1, <1>2 DEF PropertyToJson

LEMMA ArrayWritten ==
  ASSUME NEW b \in Bags, Kind(b) = "array", FineHere(b)
  PROVE  /\ ToJson[b] = JsonArray([i \in DOMAIN Body(b) |-> ToJson[Body(b)[i]]])
         /\ Body(b) \in Seq(Bags)
<1>1. Body(b) \in Seq(Bags)
  BY BagNode, BagsClosed
<1> DEFINE n == Len(Body(b))
<1>2. n \in Nat /\ DOMAIN Body(b) = 1..n
  BY <1>1
<1>3. {i \in DOMAIN Body(b) : Full(Body(b)[i])} = 1..n
  BY <1>2 DEF FineHere
<1>4. InOrder(1..n) = [i \in 1..n |-> i]
  BY <1>2, AllInOrder
<1> HIDE DEF n
<1>5. ArrayToJson(ToJson, b) = JsonArray([i \in DOMAIN Body(b) |-> ToJson[Body(b)[i]]])
  BY <1>2, <1>3, <1>4 DEF ArrayToJson
<1>6. ToJson[b] = ArrayToJson(ToJson, b)
  BY ToJsonUnfolds DEF BagToJson
<1> QED BY <1>1, <1>5, <1>6

LEMMA TableWritten ==
  ASSUME NEW b \in Bags, Kind(b) = "table"
  PROVE  /\ Body(b) \in [Names -> Bags]
         /\ Kind(ToJson[b]) = "object"
         /\ ToJson[b] = Object(Body(ToJson[b]))
         /\ \E m \in Nat : DOMAIN Body(ToJson[b]) = 1..m
         /\ Body(ToJson[b]) = [i \in DOMAIN Body(ToJson[b]) |-> Body(ToJson[b])[i]]
         /\ \A i \in DOMAIN Body(ToJson[b]) :
              \E k \in Names : /\ Full(Body(b)[k])
                               /\ Body(ToJson[b])[i] = <<Name(Body(b)[k]), ToJson[Body(b)[k]]>>
         /\ \A k \in Names : Full(Body(b)[k]) =>
              \E i \in DOMAIN Body(ToJson[b]) :
                Body(ToJson[b])[i] = <<Name(Body(b)[k]), ToJson[Body(b)[k]]>>
<1> DEFINE T == {k \in Names : Full(Body(b)[k])}
           full == SetToSeq(T)
           members == [i \in DOMAIN full |-> <<Name(Body(b)[full[i]]), ToJson[Body(b)[full[i]]]>>]
<1>1. Body(b) \in [Names -> Bags]
  BY BagNode, BagsClosed
<1>2. IsFiniteSet(T)
  BY FullNames
<1>3. ToJson[b] = Object(members)
  BY ToJsonUnfolds DEF BagToJson, TableToJson
<1>4. Kind(ToJson[b]) = "object" /\ Body(ToJson[b]) = members
  BY <1>3 DEF Object, Kind, Body
<1> HIDE DEF full
<1>5. /\ Cardinality(T) \in Nat /\ full \in [1..Cardinality(T) -> T]
      /\ \A x \in T : \E i \in 1..Cardinality(T) : full[i] = x
  BY <1>2, SetToSeqIs DEF full
<1>6. DOMAIN members = 1..Cardinality(T)
  BY <1>5
<1>7. \A i \in DOMAIN members :
        \E k \in Names : Full(Body(b)[k]) /\ members[i] = <<Name(Body(b)[k]), ToJson[Body(b)[k]]>>
  BY <1>5
<1>8. \A k \in Names : Full(Body(b)[k]) =>
        \E i \in DOMAIN members : members[i] = <<Name(Body(b)[k]), ToJson[Body(b)[k]]>>
  BY <1>5
<1>9. members = [i \in DOMAIN members |-> members[i]]
  OBVIOUS
<1> HIDE DEF members
<1> QED BY <1>1, <1>3, <1>4, <1>5, <1>6, <1>7, <1>8, <1>9

LEMMA PairIn ==
  ASSUME NEW S, NEW T, NEW x \in S, NEW y \in T, NEW p, p = <<x, y>>
  PROVE  p \in S \X T /\ p[1] = x /\ p[2] = y
OBVIOUS

(* What is fine is written as JSON a parser takes.                         *)
LEMMA FineStep ==
  ASSUME NEW n \in 0..(MaxDepth - 1), NEW b \in BagsTo[n + 1], Full(b), Fine(b),
         \A c \in BagsTo[n] : Full(c) /\ Fine(c) => ToJson[c] \in JsonTo[n] /\ Keyed[ToJson[c]]
  PROVE  ToJson[b] \in JsonTo[n + 1] /\ Keyed[ToJson[b]]
<1> DEFINE S == BagsTo[n]
           J == JsonTo[n]
<1>1. b \in MoreBags(S) /\ b \in Bags /\ JsonTo[n + 1] = MoreJson(J) /\ JsonTo[n + 1] \subseteq Json
  <2>1. n + 1 \in 0..MaxDepth
    BY DepthAssumption
  <2> QED BY <2>1, BagsLevels, BagsGrow, JsonLevels, JsonGrows
<1>2. FineHere(b) /\ \A c \in Children(b) : Fine(c)
  BY <1>1, FineByParts
<1>3. \A c \in S : Full(c) /\ Fine(c) => ToJson[c] \in J /\ Keyed[ToJson[c]]
  OBVIOUS
<1> HIDE DEF S, J
<1>4. CASE Kind(b) = "property"
  <2>1. ToJson[b] = <<"scalar", Body(b)[2]>> /\ Body(b)[2] \in Scalars
    BY <1>1, <1>2, <1>4, PropertyWritten
  <2>2. ToJson[b] \in MoreJson(J) /\ Kind(ToJson[b]) = "scalar"
    BY <2>1 DEF MoreJson, Kind
  <2>3. ToJson[b] \in Json
    BY <1>1, <2>2
  <2>4. Keyed[ToJson[b]] = KeysIn(Keyed, ToJson[b])
    BY <2>3, KeyedUnfolds
  <2>5. KeysIn(Keyed, ToJson[b])
    BY <2>2 DEF KeysIn
  <2> QED BY <1>1, <2>2, <2>4, <2>5
<1>5. CASE Kind(b) = "array"
  <2> DEFINE items == [i \in DOMAIN Body(b) |-> ToJson[Body(b)[i]]]
  <2>1. ToJson[b] = JsonArray(items)
    BY <1>1, <1>2, <1>5, ArrayWritten
  <2>2. Body(b) \in Seq(S)
    BY <1>1, <1>5, BagNode
  <2>3. \A i \in DOMAIN Body(b) : Body(b)[i] \in S /\ Full(Body(b)[i]) /\ Fine(Body(b)[i])
    <3>1. \A i \in DOMAIN Body(b) : Body(b)[i] \in S
      BY <2>2
    <3>2. \A i \in DOMAIN Body(b) : Full(Body(b)[i])
      BY <1>2, <1>5 DEF FineHere
    <3>3. \A i \in DOMAIN Body(b) : Body(b)[i] \in Children(b)
      BY <1>5, ItemsAreChildren
    <3> QED BY <1>2, <3>1, <3>2, <3>3
  <2>4. \A i \in DOMAIN Body(b) : ToJson[Body(b)[i]] \in J /\ Keyed[ToJson[Body(b)[i]]]
    BY <1>3, <2>3
  <2>5. items \in Seq(J) /\ DOMAIN items = DOMAIN Body(b)
    BY <2>2, <2>4
  <2>6. \A i \in DOMAIN items : Keyed[items[i]]
    BY <2>4
  <2> HIDE DEF items
  <2>7. ToJson[b] \in MoreJson(J) /\ Kind(ToJson[b]) = "array" /\ Body(ToJson[b]) = items
    BY <2>1, <2>5 DEF MoreJson, Kind, Body, JsonArray
  <2>8. ToJson[b] \in Json
    BY <1>1, <2>7
  <2>9. Keyed[ToJson[b]] = KeysIn(Keyed, ToJson[b])
    BY <2>8, KeyedUnfolds
  <2>10. KeysIn(Keyed, ToJson[b])
    BY <2>6, <2>7 DEF KeysIn
  <2> QED BY <1>1, <2>7, <2>9, <2>10
<1>6. CASE Kind(b) = "table"
  <2> DEFINE members == Body(ToJson[b])
  <2>1. /\ Kind(ToJson[b]) = "object" /\ ToJson[b] = Object(members)
        /\ \E m \in Nat : DOMAIN members = 1..m
        /\ members = [i \in DOMAIN members |-> members[i]]
        /\ \A i \in DOMAIN members :
             \E k \in Names : Full(Body(b)[k]) /\ members[i] = <<Name(Body(b)[k]), ToJson[Body(b)[k]]>>
    BY <1>1, <1>6, TableWritten
  <2>2. Body(b) \in [Names -> S]
    BY <1>1, <1>6, BagNode
  <2>3. ASSUME NEW k \in Names, Full(Body(b)[k])
        PROVE  /\ Name(Body(b)[k]) \in Names /\ Name(Body(b)[k]) # ""
               /\ ToJson[Body(b)[k]] \in J /\ Keyed[ToJson[Body(b)[k]]]
    <3>1. Name(Body(b)[k]) \in Names /\ Name(Body(b)[k]) # ""
      BY <1>2, <1>6, <2>3 DEF FineHere
    <3>2. Body(b)[k] \in S /\ Fine(Body(b)[k])
      BY <1>2, <1>6, <2>2, ItemsAreChildren
    <3> QED BY <1>3, <2>3, <3>1, <3>2
  <2> HIDE DEF members
  <2>4. ASSUME NEW i \in DOMAIN members
        PROVE  members[i] \in Names \X J /\ members[i][1] # "" /\ Keyed[members[i][2]]
    <3>1. PICK k \in Names : Full(Body(b)[k]) /\ members[i] = <<Name(Body(b)[k]), ToJson[Body(b)[k]]>>
      BY <2>1
    <3>2. /\ Name(Body(b)[k]) \in Names /\ Name(Body(b)[k]) # ""
          /\ ToJson[Body(b)[k]] \in J /\ Keyed[ToJson[Body(b)[k]]]
      BY <2>3, <3>1
    <3> DEFINE x == Name(Body(b)[k])
               y == ToJson[Body(b)[k]]
    <3>3. x \in Names /\ y \in J /\ members[i] = <<x, y>>
      BY <3>1, <3>2
    <3> HIDE DEF x, y
    <3>4. members[i] \in Names \X J /\ members[i][1] = x /\ members[i][2] = y
      BY <3>3, PairIn
    <3> QED BY <3>2, <3>4 DEF x, y
  <2>5. members \in Seq(Names \X J)
    <3>1. PICK m \in Nat : DOMAIN members = 1..m
      BY <2>1
    <3>2. members = [i \in 1..m |-> members[i]] /\ \A i \in 1..m : members[i] \in Names \X J
      BY <2>1, <2>4, <3>1
    <3> QED BY <3>2
  <2>6. ToJson[b] \in MoreJson(J) /\ Body(ToJson[b]) = members
    BY <2>1, <2>5 DEF MoreJson, Object, Body
  <2>7. ToJson[b] \in Json
    BY <1>1, <2>6
  <2>8. Keyed[ToJson[b]] = KeysIn(Keyed, ToJson[b])
    BY <2>7, KeyedUnfolds
  <2>9. KeysIn(Keyed, ToJson[b])
    BY <2>1, <2>4, <2>6 DEF KeysIn
  <2> QED BY <1>1, <2>6, <2>8, <2>9
<1> QED BY <1>1, <1>4, <1>5, <1>6, BagNode DEF Full

(* Every fine bag is written as JSON of its depth, with all keys.          *)
LEMMA FineIsWritten ==
  \A n \in 0..MaxDepth : \A b \in BagsTo[n] :
    Full(b) /\ Fine(b) => ToJson[b] \in JsonTo[n] /\ Keyed[ToJson[b]]
<1> DEFINE Good == {n \in 0..MaxDepth : \A b \in BagsTo[n] :
                      Full(b) /\ Fine(b) => ToJson[b] \in JsonTo[n] /\ Keyed[ToJson[b]]}
<1>1. 0 \in Good
  BY DepthAssumption, BagsLevels, NoBagIsBag
<1>2. ASSUME NEW n \in 0..(MaxDepth - 1), n \in Good PROVE n + 1 \in Good
  <2>1. n + 1 \in 0..MaxDepth
    BY DepthAssumption
  <2>2. \A c \in BagsTo[n] : Full(c) /\ Fine(c) => ToJson[c] \in JsonTo[n] /\ Keyed[ToJson[c]]
    BY <1>2
  <2> QED BY <2>1, <2>2, FineStep
<1> HIDE DEF Good
<1>3. \A n \in 0..MaxDepth : n \in Good
  BY <1>1, <1>2, DepthAssumption, JsonDepths!UpTo
<1> QED BY <1>3 DEF Good
(* The member of a written table for a bag whose name no other one has.    *)
LEMMA WrittenMembers ==
  ASSUME NEW b \in Bags, Kind(b) = "table"
  PROVE  Body(ToJson[b]) \in Seq({Body(ToJson[b])[i] : i \in DOMAIN Body(ToJson[b])})
<1> DEFINE members == Body(ToJson[b])
<1>1. /\ \E m \in Nat : DOMAIN members = 1..m
      /\ members = [i \in DOMAIN members |-> members[i]]
  BY TableWritten
<1> HIDE DEF members
<1> QED BY <1>1 DEF members

(* What a written table tells under a key, and what it does not tell.      *)
LEMMA Told ==
  ASSUME NEW b \in Bags, Kind(b) = "table",
         NEW k \in Names, Full(Body(b)[k]), Name(Body(b)[k]) = k,
         \A j \in Names : Full(Body(b)[j]) /\ Name(Body(b)[j]) = k => j = k
  PROVE  /\ k \in Keys(ToJson[b])
         /\ FirstOf(ToJson[b], k) = ToJson[Body(b)[k]]
         /\ Member(ToJson[b], k) = ToJson[Body(b)[k]]
<1> DEFINE v == ToJson[b]
           told(j) == <<Name(Body(b)[j]), ToJson[Body(b)[j]]>>
<1>1. \A x, y : <<x, y>>[1] = x /\ <<x, y>>[2] = y
  OBVIOUS
<1>2. \A i \in DOMAIN Body(v) : \E j \in Names : Full(Body(b)[j]) /\ Body(v)[i] = told(j)
  BY TableWritten
<1>3. \E i \in DOMAIN Body(v) : Body(v)[i] = told(k)
  BY TableWritten
<1>4. \A j : told(j)[1] = Name(Body(b)[j]) /\ told(j)[2] = ToJson[Body(b)[j]]
  BY <1>1
<1>5. Body(v) \in Seq({Body(v)[i] : i \in DOMAIN Body(v)})
  BY WrittenMembers
<1> HIDE DEF told, v
<1>6. k \in Keys(v)
  BY <1>3, <1>4 DEF Keys
<1>7. PICK i \in DOMAIN Body(v) : Body(v)[i][1] = k /\ Body(v)[i][2] = Member(v, k)
  BY <1>5, <1>6, MemberAt
<1>8. Member(v, k) = FirstOf(v, k)
  BY <1>5, <1>6, MemberAt
<1>9. PICK j \in Names : Full(Body(b)[j]) /\ Body(v)[i] = told(j)
  BY <1>2
<1>10. j = k
  BY <1>4, <1>7, <1>9
<1>11. Member(v, k) = ToJson[Body(b)[k]]
  BY <1>4, <1>7, <1>9, <1>10
<1> QED BY <1>6, <1>8, <1>11 DEF v

LEMMA NotTold ==
  ASSUME NEW b \in Bags, Kind(b) = "table", NEW k,
         \A j \in Names : Full(Body(b)[j]) => Name(Body(b)[j]) # k
  PROVE  k \notin Keys(ToJson[b])
<1> DEFINE v == ToJson[b]
           told(j) == <<Name(Body(b)[j]), ToJson[Body(b)[j]]>>
<1>1. \A x, y : <<x, y>>[1] = x /\ <<x, y>>[2] = y
  OBVIOUS
<1>2. \A i \in DOMAIN Body(v) : \E j \in Names : Full(Body(b)[j]) /\ Body(v)[i] = told(j)
  BY TableWritten
<1>3. \A j : told(j)[1] = Name(Body(b)[j])
  BY <1>1
<1> HIDE DEF told, v
<1>4. ASSUME k \in Keys(v) PROVE FALSE
  <2>1. PICK i \in DOMAIN Body(v) : Body(v)[i][1] = k
    BY <1>4 DEF Keys
  <2> QED BY <1>2, <1>3, <2>1
<1> QED BY <1>4 DEF v

(* What is fine and neat is read back.                                     *)
LEMMA BagWith ==
  \A kind, body, name, new :
    [Bag(name, kind, body) EXCEPT ![2] = new] = Bag(name, kind, new)
BY DEF Bag

LEMMA NoBagIsRegistered == Registered[NoBag] = NoBag
<1>1. Registered[NoBag] = OnlyRegistered(Registered, NoBag)
  BY NoBagIsBag, RegisteredUnfolds
<1>2. Name(NoBag) = ""
  BY DEF NoBag, Bag, Name
<1> QED BY <1>1, <1>2, NoBagIsBag DEF OnlyRegistered
(* A property, an array and a table, read back.                            *)
LEMMA PropertyIsReadBack ==
  ASSUME NEW b \in Bags, Kind(b) = "property", FineHere(b), NeatHere(b),
         ToJson[b] \in Json
  PROVE  FromJson[<<Name(b), ToJson[b]>>] = Registered[b]
<1> DEFINE v == ToJson[b]
           name == Name(b)
           body == Body(b)
<1>1. /\ v = <<"scalar", body[2]>> /\ body[2] \in Scalars
      /\ body = <<body[1], body[2]>>
      /\ body[2][1] \in Accepted(body[1])
  <2>1. v = <<"scalar", body[2]>> /\ body[2] \in Scalars
    BY PropertyWritten
  <2>2. body \in {"bool", "int", "string"} \X Scalars /\ body[2][1] \in Accepted(body[1])
    BY DEF FineHere, FineProperty
  <2>3. body = <<body[1], body[2]>>
    BY <2>2
  <2> QED BY <2>1, <2>2, <2>3
<1>2. name \in Names /\ b = Bag(name, "property", body)
  BY BagsClosed, BagNode
<1>3. name # "" /\ (name \in DOMAIN Registry => Registry[name].type = body[1])
  BY DEF NeatHere
<1>4. FromJson[<<name, v>>] = BagFromJson(FromJson, name, v)
  BY <1>2, FromJsonUnfolds
<1>5. Registered[b] = OnlyRegistered(Registered, b)
  BY RegisteredUnfolds
<1> HIDE DEF v, name, body
<1>6. Kind(v) = "scalar" /\ Body(v) = body[2]
  BY <1>1 DEF Kind, Body
<1>7. FromJson[<<name, v>>] = Bag(name, "property", PropertyFromJson(name, v))
  BY <1>4, <1>6 DEF BagFromJson
<1>8. CASE name \in DOMAIN Registry
  <2>1. PropertyFromJson(name, v) = body
    BY <1>1, <1>3, <1>6, <1>8 DEF PropertyFromJson, Fits, Typed
  <2>2. Registered[b] = b
    BY <1>5, <1>8 DEF OnlyRegistered, name
  <2> QED BY <1>2, <1>7, <2>1, <2>2 DEF v, name
<1>9. CASE name \notin DOMAIN Registry
  <2>1. PropertyFromJson(name, v) = NoValue
    BY <1>9 DEF PropertyFromJson
  <2>2. Registered[b] = [b EXCEPT ![2] = NoValue]
    BY <1>3, <1>5, <1>9 DEF OnlyRegistered, name
  <2>3. [b EXCEPT ![2] = NoValue] = Bag(name, "property", NoValue)
    BY <1>2, BagWith
  <2> QED BY <1>7, <2>1, <2>2, <2>3 DEF v, name
<1> QED BY <1>8, <1>9

LEMMA ArrayIsReadBack ==
  ASSUME NEW b \in Bags, Kind(b) = "array", FineHere(b), NeatHere(b),
         ToJson[b] \in Json,
         \A c \in Children(b) : FromJson[<<Name(c), ToJson[c]>>] = Registered[c]
  PROVE  FromJson[<<Name(b), ToJson[b]>>] = Registered[b]
<1> DEFINE v == ToJson[b]
           name == Name(b)
           body == Body(b)
           items == [i \in DOMAIN body |-> ToJson[body[i]]]
           read == [i \in DOMAIN body |-> Registered[body[i]]]
<1>1. v = JsonArray(items) /\ body \in Seq(Bags)
  BY ArrayWritten
<1>2. name \in Names /\ b = Bag(name, "array", body)
  BY BagsClosed, BagNode
<1>3. IsArrayProperty(name) /\ \A i \in DOMAIN body : Name(body[i]) = ""
  BY DEF FineHere
<1>4. FromJson[<<name, v>>] = BagFromJson(FromJson, name, v)
  BY <1>2, FromJsonUnfolds
<1>5. ASSUME NEW i \in DOMAIN body
      PROVE  ItemFromJson(FromJson, Registry[name].base, items[i]) = Registered[body[i]]
  <2>1. body[i] \in Bags /\ body[i] \in Children(b) /\ items[i] = ToJson[body[i]]
    <3>1. body[i] \in Bags
      BY <1>1
    <3> QED BY <3>1, ItemsAreChildren
  <2>2. Kind(body[i]) = "table"
    BY DEF NeatHere
  <2>3. Kind(items[i]) = "object"
    BY <2>1, <2>2, TableWritten
  <2>4. FromJson[<<"", items[i]>>] = Registered[body[i]]
    BY <1>3, <2>1
  <2> HIDE DEF items, body
  <2> QED BY <2>3, <2>4 DEF ItemFromJson, Fits
<1>6. DOMAIN items = DOMAIN body
  OBVIOUS
<1>7. Registered[b] = OnlyRegistered(Registered, b)
  BY RegisteredUnfolds
<1>8. Registered[b] = [b EXCEPT ![2] = read]
  BY <1>7 DEF OnlyRegistered
<1> HIDE DEF items, body, name, v
<1>9. Kind(v) = "array" /\ Body(v) = items
  BY <1>1 DEF Kind, Body, JsonArray
<1>10. ArrayFromJson(FromJson, name, v) = read
  BY <1>3, <1>5, <1>6, <1>9 DEF ArrayFromJson
<1> HIDE DEF read
<1>11. FromJson[<<name, v>>] = Bag(name, "array", read)
  BY <1>4, <1>9, <1>10 DEF BagFromJson
<1>12. Registered[b] = Bag(name, "array", read)
  BY <1>2, <1>8, BagWith
<1> QED BY <1>11, <1>12 DEF v, name

LEMMA TableIsReadBack ==
  ASSUME NEW b \in Bags, Kind(b) = "table", FineHere(b), NeatHere(b),
         ToJson[b] \in Json,
         \A c \in Children(b) :
           Full(c) => FromJson[<<Name(c), ToJson[c]>>] = Registered[c]
  PROVE  FromJson[<<Name(b), ToJson[b]>>] = Registered[b]
<1> DEFINE v == ToJson[b]
           name == Name(b)
           body == Body(b)
           read == [k \in Names |-> Registered[body[k]]]
<1>1. name \in Names /\ b = Bag(name, "table", body) /\ body \in [Names -> Bags]
  BY BagsClosed, BagNode
<1>2. \A k \in Names : Full(body[k]) => Name(body[k]) = k /\ k \notin DOMAIN CutKeys
  BY DEF FineHere, NeatHere
<1>3. FromJson[<<name, v>>] = BagFromJson(FromJson, name, v)
  BY <1>1, FromJsonUnfolds
<1>4. ASSUME NEW k \in Names
      PROVE  (IF k \in Keys(v) THEN FromJson[<<CString(k), Member(v, k)>>] ELSE NoBag)
               = Registered[body[k]]
  <2>1. CASE Full(body[k])
    <3>1. k \in Keys(v) /\ Member(v, k) = ToJson[body[k]]
      BY <1>2, <2>1, Told
    <3>2. CString(k) = k /\ Name(body[k]) = k
      BY <1>2, <2>1 DEF CString
    <3>3. body[k] \in Children(b)
      BY <1>1, ItemsAreChildren
    <3>4. FromJson[<<Name(body[k]), ToJson[body[k]]>>] = Registered[body[k]]
      BY <2>1, <3>3
    <3> QED BY <3>1, <3>2, <3>4
  <2>2. CASE ~Full(body[k])
    <3>1. k \notin Keys(v)
      BY <1>2, <2>2, NotTold
    <3>2. body[k] \in Bags
      BY <1>1
    <3>3. body[k] = NoBag
      BY <2>2, <3>2, BagsClosed, BagNode DEF Full
    <3> QED BY <3>1, <3>3, NoBagIsRegistered
  <2> QED BY <2>1, <2>2
<1>5. Registered[b] = OnlyRegistered(Registered, b)
  BY RegisteredUnfolds
<1>6. Registered[b] = [b EXCEPT ![2] = read]
  BY <1>1, <1>5 DEF OnlyRegistered
<1>7. Kind(v) = "object"
  BY TableWritten
<1> HIDE DEF body, name, v
<1>8. TableFromJson(FromJson, v) = read
  BY <1>4 DEF TableFromJson
<1> HIDE DEF read
<1>9. FromJson[<<name, v>>] = Bag(name, "table", read)
  BY <1>3, <1>7, <1>8 DEF BagFromJson
<1>10. Registered[b] = Bag(name, "table", read)
  BY <1>1, <1>6, BagWith
<1> QED BY <1>9, <1>10 DEF v, name

(* Every fine and neat bag is read back.                                   *)
LEMMA WrittenIsReadBack ==
  ASSUME NEW b \in Bags, Full(b), Fine(b), Neat(b)
  PROVE  FromJson[<<Name(b), ToJson[b]>>] = Registered[b]
<1> DEFINE Good == {n \in 0..MaxDepth : \A c \in BagsTo[n] :
                      Full(c) /\ Fine(c) /\ Neat(c) =>
                        FromJson[<<Name(c), ToJson[c]>>] = Registered[c]}
<1>1. 0 \in Good
  BY DepthAssumption, BagsLevels, NoBagIsBag
<1>2. ASSUME NEW n \in 0..(MaxDepth - 1), n \in Good PROVE n + 1 \in Good
  <2>1. n + 1 \in 0..MaxDepth
    BY DepthAssumption
  <2>2. ASSUME NEW c \in BagsTo[n + 1], Full(c), Fine(c), Neat(c)
        PROVE  FromJson[<<Name(c), ToJson[c]>>] = Registered[c]
    <3>1. c \in Bags /\ ToJson[c] \in Json
      BY <2>1, <2>2, BagsGrow, JsonGrows, FineIsWritten
    <3>2. FineHere(c) /\ NeatHere(c)
      BY <2>2, <3>1, FineByParts, NeatByParts
    <3>3. \A d \in Children(c) : Fine(d) /\ Neat(d)
      BY <2>2, <3>1, FineByParts, NeatByParts
    <3>4. \A d \in Children(c) : d \in BagsTo[n]
      BY BagsLevels, ChildrenIn
    <3>5. \A d \in Children(c) : Full(d) => FromJson[<<Name(d), ToJson[d]>>] = Registered[d]
      BY <1>2, <3>3, <3>4
    <3>6. CASE Kind(c) = "property"
      BY <3>1, <3>2, <3>6, PropertyIsReadBack
    <3>7. CASE Kind(c) = "array"
      <4>1. \A d \in Children(c) : Full(d)
        BY <3>2, <3>7 DEF FineHere, Children, Range
      <4> QED BY <3>1, <3>2, <3>5, <3>7, <4>1, ArrayIsReadBack
    <3>8. CASE Kind(c) = "table"
      BY <3>1, <3>2, <3>5, <3>8, TableIsReadBack
    <3> QED BY <2>2, <3>1, <3>6, <3>7, <3>8, BagsClosed, BagNode DEF Full
  <2> QED BY <2>1, <2>2
<1> HIDE DEF Good
<1>3. MaxDepth \in Good
  BY <1>1, <1>2, DepthAssumption, JsonDepths!UpTo
<1> QED BY <1>3 DEF Good, Bags

-----------------------------------------------------------------------------
(* The responses of the handlers are fine.                                 *)
Table(t, n) ==
  t \in BagsTo[n + 1] /\ Kind(t) = "table" /\ Name(t) = "" /\ Fine(t)

Entry(t, k) == Body(t)[k]

ResponseProperties == KnownProperties \cup OtherProperties

(* The names in responses are those of no key with a NUL.                  *)
LEMMA ResponseNames ==
  \A k \in ResponseProperties : k \in Names /\ k \notin DOMAIN CutKeys /\ k # ""
BY PropertiesAssumption DEF ResponseProperties, KnownProperties, OtherProperties,
   IntProperties, TextProperties, ArrayProperties

LEMMA TableIn ==
  ASSUME NEW S, NEW name \in Names, NEW body \in [Names -> S]
  PROVE  Bag(name, "table", body) \in MoreBags(S)
BY DEF MoreBags, Bag

LEMMA ArrayIn ==
  ASSUME NEW S, NEW name \in Names, NEW body \in Seq(S)
  PROVE  Bag(name, "array", body) \in MoreBags(S)
BY DEF MoreBags, Bag

(* insert(), by the table before and after it.                             *)
LEMMA AddedBody ==
  ASSUME NEW t, t = Bag(Name(t), Kind(t), Body(t)), NEW k, NEW item
  PROVE  LET s == AddToTable(t, k, item)
         IN  /\ Kind(s) = Kind(t) /\ Name(s) = Name(t)
             /\ s = Bag(Name(t), Kind(t), Body(s))
             /\ Body(s) = [j \in Names |-> IF j = k /\ ~Full(Entry(t, j)) THEN item
                                           ELSE Entry(t, j)]
<1> DEFINE s == AddToTable(t, k, item)
           new == [j \in Names |-> IF j = k /\ ~Full(Body(t)[j]) THEN item ELSE Body(t)[j]]
<1>1. s = [t EXCEPT ![2] = new]
  BY DEF AddToTable
<1> HIDE DEF new, s
<1>2. s = Bag(Name(t), Kind(t), new)
  BY <1>1, BagWith
<1>3. Kind(s) = Kind(t) /\ Name(s) = Name(t) /\ Body(s) = new
  BY <1>2, BagFields
<1> QED BY <1>2, <1>3 DEF s, new, Entry

LEMMA ItemAdded ==
  ASSUME NEW n \in 0..(MaxDepth - 1), NEW t, Table(t, n),
         NEW k \in ResponseProperties, NEW item \in BagsTo[n], Fine(item),
         Name(item) \in ResponseProperties
  PROVE  LET s == AddToTable(t, k, item)
         IN  /\ Table(s, n)
             /\ Neat(t) /\ Neat(item) /\ Name(item) = k => Neat(s)
             /\ \A j \in Names :
                  Entry(s, j) = IF j = k /\ ~Full(Entry(t, j)) THEN item ELSE Entry(t, j)
<1> DEFINE s == AddToTable(t, k, item)
<1>1. n + 1 \in 0..MaxDepth /\ n \in 0..MaxDepth
  BY DepthAssumption
<1>2. t \in MoreBags(BagsTo[n]) /\ t \in Bags /\ Fine(t) /\ Kind(t) = "table" /\ Name(t) = ""
  BY <1>1, BagsLevels, BagsGrow DEF Table
<1>3. t = Bag(Name(t), Kind(t), Body(t)) /\ Body(t) \in [Names -> BagsTo[n]]
  BY <1>2, BagNode
<1>4. /\ Kind(s) = "table" /\ Name(s) = ""
      /\ s = Bag("", "table", Body(s))
      /\ Body(s) = [j \in Names |-> IF j = k /\ ~Full(Entry(t, j)) THEN item
                                    ELSE Entry(t, j)]
  <2>1. /\ Kind(s) = Kind(t) /\ Name(s) = Name(t)
        /\ s = Bag(Name(t), Kind(t), Body(s))
        /\ Body(s) = [j \in Names |-> IF j = k /\ ~Full(Entry(t, j)) THEN item
                                      ELSE Entry(t, j)]
    BY <1>3, AddedBody
  <2> HIDE DEF s
  <2> QED BY <1>2, <2>1
<1> HIDE DEF s
<1>5. \A j \in Names : Entry(s, j) = IF j = k /\ ~Full(Entry(t, j)) THEN item ELSE Entry(t, j)
  BY <1>4 DEF Entry
<1>6. Body(s) \in [Names -> BagsTo[n]]
  <2>1. \A j \in Names : Entry(t, j) \in BagsTo[n]
    BY <1>3 DEF Entry
  <2> QED BY <1>4, <2>1
<1>7. s \in BagsTo[n + 1]
  <2>1. s \in MoreBags(BagsTo[n])
    BY <1>4, <1>6, EmptyNameIn, TableIn
  <2> QED BY <2>1, BagsLevels
<1>8. s \in Bags
  BY <1>1, <1>7, BagsGrow
<1>9. Children(s) \subseteq Children(t) \cup {item}
  BY <1>2, <1>3, <1>4 DEF Children, Range, Entry
<1>10. Fine(s)
  <2>1. FineHere(t) /\ \A c \in Children(t) : Fine(c)
    BY <1>2, FineByParts
  <2>2. \A j \in Names : Full(Entry(t, j)) => Name(Entry(t, j)) \in Names \ ({""} \cup DOMAIN CutKeys)
    BY <1>2, <2>1 DEF FineHere, Entry
  <2>3. \A j \in Names : Full(Entry(s, j)) => Name(Entry(s, j)) \in Names \ ({""} \cup DOMAIN CutKeys)
    BY <1>5, <2>2, ResponseNames
  <2>4. FineHere(s)
    BY <1>4, <2>3 DEF FineHere, Entry
  <2> QED BY <1>8, <1>9, <2>1, <2>4, FineByParts
<1>11. ASSUME Neat(t), Neat(item), Name(item) = k PROVE Neat(s)
  <2>1. NeatHere(t) /\ \A c \in Children(t) : Neat(c)
    BY <1>2, <1>11, NeatByParts
  <2>2. \A j \in Names : Full(Entry(t, j)) => Name(Entry(t, j)) = j
    BY <1>2, <2>1 DEF NeatHere, Entry
  <2>3. \A j \in Names : Full(Entry(s, j)) => Name(Entry(s, j)) = j
    BY <1>5, <1>11, <2>2
  <2>4. NeatHere(s)
    BY <1>4, <2>3 DEF NeatHere, Entry
  <2> QED BY <1>8, <1>9, <1>11, <2>1, <2>4, NeatByParts
<1> QED BY <1>4, <1>5, <1>7, <1>10, <1>11 DEF s, Table

(* The properties of responses are fine.                                   *)
LEMMA ScalarProperty ==
  ASSUME NEW name \in Names, NEW type \in {"bool", "int", "string"},
         NEW s \in Scalars, s[1] \in Accepted(type)
  PROVE  LET p == Bag(name, "property", <<type, s>>)
         IN  /\ \A n \in 1..MaxDepth : p \in BagsTo[n]
             /\ p \in Bags /\ Fine(p) /\ Full(p) /\ Name(p) = name
             /\ Children(p) = {} /\ Body(p) = <<type, s>> /\ Kind(p) = "property"
             /\ ToJson[p] = <<"scalar", s>>
             /\ name # "" /\ (name \in DOMAIN Registry => Registry[name].type = type) => Neat(p)
<1> DEFINE p == Bag(name, "property", <<type, s>>)
<1>1. type \in Types
  BY DEF Types
<1>2. ASSUME NEW n \in 1..MaxDepth PROVE p \in BagsTo[n]
  <2>1. n \in 0..MaxDepth /\ n # 0
    OBVIOUS
  <2> QED BY <1>1, <2>1, PropertyEverywhere
<1>3. p \in Bags
  <2>1. MaxDepth \in 1..MaxDepth
    BY DepthAssumption, ResponseDepthAssumption
  <2> QED BY <1>2, <2>1 DEF Bags
<1>4. Kind(p) = "property" /\ Body(p) = <<type, s>> /\ Name(p) = name
  BY PropertyFields
<1> HIDE DEF p
<1>5. Full(p) /\ Children(p) = {}
  BY <1>4 DEF Full, Children
<1>6. \A x, y : <<x, y>>[1] = x /\ <<x, y>>[2] = y
  OBVIOUS
<1>7. Body(p)[1] = type /\ Body(p)[2] = s
  BY <1>4, <1>6
<1>8. FineHere(p)
  BY <1>4, <1>7 DEF FineHere, FineProperty
<1>9. Fine(p)
  BY <1>3, <1>5, <1>8, FineByParts
<1>10. ToJson[p] = <<"scalar", s>>
  BY <1>3, <1>4, <1>7, <1>8, PropertyWritten
<1>11. ASSUME name # "", name \in DOMAIN Registry => Registry[name].type = type PROVE Neat(p)
  <2>1. NeatHere(p)
    BY <1>4, <1>7, <1>11 DEF NeatHere
  <2> QED BY <1>3, <1>5, <2>1, NeatByParts
<1> QED BY <1>2, <1>3, <1>4, <1>5, <1>9, <1>10, <1>11 DEF p
(* A new table is empty.                                                   *)
LEMMA NewTableIs ==
  ASSUME NEW n \in 0..(MaxDepth - 1)
  PROVE  /\ Table(NewTable, n) /\ Neat(NewTable)
         /\ \A k \in Names : ~Full(Entry(NewTable, k))
<1> DEFINE t == NewTable
<1>1. n + 1 \in 0..MaxDepth /\ n \in 0..MaxDepth
  BY DepthAssumption
<1>2. Kind(t) = "table" /\ Name(t) = "" /\ Body(t) = [k \in Names |-> NoBag]
  BY BagFields DEF NewTable
<1>3. t = Bag("", "table", Body(t))
  BY <1>2 DEF NewTable
<1> HIDE DEF t
<1>4. \A k \in Names : Entry(t, k) = NoBag
  BY <1>2 DEF Entry
<1>5. t \in BagsTo[n + 1]
  <2>1. Body(t) \in [Names -> BagsTo[n]]
    <3>1. NoBag \in BagsTo[n]
      BY <1>1, NoBagEverywhere
    <3> QED BY <1>2, <3>1
  <2>2. t \in MoreBags(BagsTo[n])
    BY <1>3, <2>1, EmptyNameIn, TableIn
  <2> QED BY <2>2, BagsLevels
<1>6. t \in Bags
  BY <1>1, <1>5, BagsGrow
<1>7. Children(t) \subseteq {NoBag}
  BY <1>2 DEF Children, Range
<1>8. FineHere(NoBag) /\ NeatHere(NoBag)
  BY NoBagIsBag DEF FineHere, NeatHere
<1>9. Fine(NoBag) /\ Neat(NoBag)
  BY <1>8, NoBagIsBag, FineByParts, NeatByParts
<1>10. FineHere(t) /\ NeatHere(t)
  BY <1>2, <1>4, NoBagIsBag DEF FineHere, NeatHere, Entry
<1>11. Fine(t) /\ Neat(t)
  BY <1>6, <1>7, <1>9, <1>10, FineByParts, NeatByParts
<1> QED BY <1>2, <1>4, <1>5, <1>11, NoBagIsBag DEF t, Table

(* Between two tables, a property was inserted.                            *)
Adds(s, t, name, type, scalar) ==
  \A k \in Names :
    Entry(s, k) = IF k = name /\ ~Full(Entry(t, k))
                  THEN Bag(name, "property", <<type, scalar>>) ELSE Entry(t, k)

(* Inserting a property into a table that has none of its name.            *)
LEMMA PropertyAdded ==
  ASSUME NEW n \in 1..(MaxDepth - 1), NEW t, Table(t, n), NEW name \in ResponseProperties,
         NEW type \in {"bool", "int", "string"}, NEW scalar \in Scalars,
         scalar[1] \in Accepted(type),
         name \in DOMAIN Registry => Registry[name].type = type
  PROVE  LET s == AddProperty(t, name, type, scalar)
         IN  Table(s, n) /\ (Neat(t) => Neat(s)) /\ Adds(s, t, name, type, scalar)
<1> DEFINE p == Bag(name, "property", <<type, scalar>>)
           s == AddProperty(t, name, type, scalar)
<1>1. n \in 1..MaxDepth /\ n \in 0..(MaxDepth - 1)
  BY DepthAssumption
<1>2. name \in Names /\ name # ""
  BY ResponseNames
<1>3. p \in BagsTo[n] /\ Fine(p) /\ Name(p) = name /\ Neat(p)
  <2>1. p \in BagsTo[n]
    BY <1>1, <1>2, ScalarProperty
  <2>2. Fine(p)
    BY <1>1, <1>2, ScalarProperty
  <2>3. Name(p) = name
    BY PropertyFields
  <2>4. Neat(p)
    BY <1>1, <1>2, ScalarProperty
  <2> QED BY <2>1, <2>2, <2>3, <2>4
<1>4. s = AddToTable(t, name, p)
  BY DEF AddProperty
<1> HIDE DEF s, p
<1>5. /\ Table(s, n) /\ (Neat(t) => Neat(s))
      /\ \A k \in Names : Entry(s, k) = IF k = name /\ ~Full(Entry(t, k)) THEN p ELSE Entry(t, k)
  BY <1>1, <1>3, <1>4, ItemAdded
<1> QED BY <1>5 DEF s, p, Adds

LEMMA TextIsScalar ==
  ASSUME NEW text \in Texts
  PROVE  Text(text) \in Scalars /\ Text(text)[1] \in Accepted("string")
BY DEF Text, Scalars, Accepted

LEMMA NumberIsScalar ==
  ASSUME NEW n \in Int
  PROVE  /\ Number(n) \in Scalars /\ Number(n)[1] \in Accepted("int") /\ Number(n)[2] = n
         /\ Number(n)[1] \in {"int", "negative"}
<1>1. CASE n < 0
  <2>1. Number(n) = <<"negative", n>> /\ n \in Int \ Nat
    BY <1>1 DEF Number
  <2> QED BY <2>1 DEF Scalars, Accepted
<1>2. CASE ~(n < 0)
  <2>1. Number(n) = <<"int", n>> /\ n \in Nat
    BY <1>2 DEF Number
  <2> QED BY <2>1 DEF Scalars, Accepted
<1> QED BY <1>1, <1>2

(* A text, an int, and the mark of a newcomer.                             *)
LEMMA TextAdded ==
  ASSUME NEW n \in 1..(MaxDepth - 1), NEW t, Table(t, n), NEW name \in TextProperties,
         NEW text \in Texts
  PROVE  LET s == AddText(t, name, text)
         IN  Table(s, n) /\ (Neat(t) => Neat(s)) /\ Adds(s, t, name, "string", Text(text))
<1>1. name \in ResponseProperties /\ Registry[name].type = "string"
  BY PropertiesAssumption DEF ResponseProperties, KnownProperties
<1>2. AddText(t, name, text) = AddProperty(t, name, "string", Text(text))
  BY DEF AddText
<1> QED BY <1>1, <1>2, TextIsScalar, PropertyAdded

LEMMA IntAdded ==
  ASSUME NEW n \in 1..(MaxDepth - 1), NEW t, Table(t, n),
         NEW name \in IntProperties \cup {"process.ruid"}, NEW num \in Int
  PROVE  LET s == AddInt(t, name, num)
         IN  Table(s, n) /\ (Neat(t) => Neat(s)) /\ Adds(s, t, name, "int", Number(num))
<1>1. name \in ResponseProperties /\ (name \in DOMAIN Registry => Registry[name].type = "int")
  BY PropertiesAssumption DEF ResponseProperties, KnownProperties, OtherProperties
<1>2. AddInt(t, name, num) = AddProperty(t, name, "int", Number(num))
  BY DEF AddInt
<1> QED BY <1>1, <1>2, NumberIsScalar, PropertyAdded

LEMMA NewcomerAdded ==
  ASSUME NEW n \in 1..(MaxDepth - 1), NEW t, Table(t, n)
  PROVE  LET s == AddProperty(t, "process.newcomer", "bool", <<"bool", "true">>)
         IN  /\ Table(s, n) /\ (Neat(t) => Neat(s))
             /\ Adds(s, t, "process.newcomer", "bool", <<"bool", "true">>)
<1>1. "process.newcomer" \in ResponseProperties /\ "process.newcomer" \notin DOMAIN Registry
  BY PropertiesAssumption DEF ResponseProperties, OtherProperties
<1>2. <<"bool", "true">> \in Scalars /\ <<"bool", "true">>[1] \in Accepted("bool")
  BY DEF Scalars, Accepted
<1> QED BY <1>1, <1>2, PropertyAdded

-----------------------------------------------------------------------------
(* What is told of a process.                                              *)
Property(name, type, scalar) == Bag(name, "property", <<type, scalar>>)

LEMMA PropertyIsFull ==
  \A name, type, scalar : Full(Property(name, type, scalar))
BY BagFields DEF Full, Property

LEMMA Added ==
  ASSUME NEW s, NEW t, NEW name \in Names, NEW type, NEW scalar,
         Adds(s, t, name, type, scalar)
  PROVE  /\ Full(Entry(s, name))
         /\ ~Full(Entry(t, name)) => Entry(s, name) = Property(name, type, scalar)
         /\ \A k \in Names : k # name => Entry(s, k) = Entry(t, k)
BY PropertyIsFull DEF Adds, Property

LEMMA AddedElsewhere ==
  ASSUME NEW s, NEW t, NEW name, NEW type, NEW scalar,
         Adds(s, t, name, type, scalar), NEW k \in Names, k # name
  PROVE  Entry(s, k) = Entry(t, k)
BY DEF Adds

(* What a written table tells of a property that was inserted.             *)
LEMMA PropertyTold ==
  ASSUME NEW name \in Names, NEW type \in {"bool", "int", "string"},
         NEW s \in Scalars, s[1] \in Accepted(type)
  PROVE  /\ ToJson[Property(name, type, s)] = <<"scalar", s>>
         /\ Name(Property(name, type, s)) = name
<1> DEFINE p == Bag(name, "property", <<type, s>>)
<1>1. ToJson[p] = <<"scalar", s>>
  <2>1. p \in Bags
    BY ScalarProperty
  <2>2. Fine(p)
    BY ScalarProperty
  <2>3. Kind(p) = "property" /\ Body(p) = <<type, s>>
    BY PropertyFields
  <2> HIDE DEF p
  <2>4. ToJson[p] = <<"scalar", Body(p)[2]>>
    BY <2>1, <2>2, <2>3, FineByParts, PropertyWritten
  <2> QED BY <2>3, <2>4
<1>2. Name(p) = name
  BY PropertyFields
<1> QED BY <1>1, <1>2 DEF Property

LEMMA IntTold ==
  ASSUME NEW name \in Names, NEW n \in Int
  PROVE  /\ ToJson[Property(name, "int", Number(n))] = <<"scalar", Number(n)>>
         /\ Name(Property(name, "int", Number(n))) = name
BY NumberIsScalar, PropertyTold

LEMMA TextTold ==
  ASSUME NEW name \in Names, NEW text \in Texts
  PROVE  /\ ToJson[Property(name, "string", Text(text))] = <<"scalar", Text(text)>>
         /\ Name(Property(name, "string", Text(text))) = name
BY TextIsScalar, PropertyTold

(* What a neat table tells.                                                *)
LEMMA NeatTold ==
  ASSUME NEW t \in Bags, Kind(t) = "table", Neat(t), NEW k \in Names
  PROVE  /\ k \in Keys(ToJson[t]) <=> Full(Entry(t, k))
         /\ Full(Entry(t, k)) => FirstOf(ToJson[t], k) = ToJson[Entry(t, k)]
<1>1. \A j \in Names : Full(Body(t)[j]) => Name(Body(t)[j]) = j
  BY NeatByParts DEF NeatHere
<1>2. CASE Full(Body(t)[k])
  BY <1>1, <1>2, Told DEF Entry
<1>3. CASE ~Full(Body(t)[k])
  BY <1>1, <1>3, NotTold DEF Entry
<1> QED BY <1>2, <1>3

Process(t, info, newcomer, error) ==
  /\ Table(t, 1) /\ Neat(t)
  /\ Entry(t, "process.pid") = Property("process.pid", "int", Number(info.pid))
  /\ Full(Entry(t, "process.newcomer")) <=> newcomer
  /\ Full(Entry(t, "process.error")) <=> error

(* The names in what is told of a process.                                 *)
LEMMA ProcessNames ==
  /\ {"process.pid", "process.newcomer", "process.error", "process.ruid", "process.comm",
      "process.stat_comm", "process.exe", "process.cmdline"} \subseteq Names
  /\ {"process.comm", "process.stat_comm", "process.exe", "process.cmdline", "process.error"}
       \subseteq TextProperties
  /\ "process.pid" \in IntProperties
  /\ 1 \in 1..(MaxDepth - 1) /\ 1 \in 0..(MaxDepth - 1)
<1>1. {"process.pid", "process.newcomer", "process.error", "process.ruid", "process.comm",
       "process.stat_comm", "process.exe", "process.cmdline"} \subseteq ResponseProperties
  BY DEF ResponseProperties, KnownProperties, OtherProperties, TextProperties, IntProperties
<1>2. 1 \in 1..(MaxDepth - 1) /\ 1 \in 0..(MaxDepth - 1)
  BY DepthAssumption, ResponseDepthAssumption
<1>3. {"process.comm", "process.stat_comm", "process.exe", "process.cmdline", "process.error"}
        \subseteq TextProperties /\ "process.pid" \in IntProperties
  BY DEF TextProperties, IntProperties
<1> QED BY <1>1, <1>2, <1>3, ResponseNames

(* Inserting the text of a process keeps its pid and marks.                *)
LEMMA ProcessKept ==
  ASSUME NEW t, NEW s, NEW info, NEW newcomer, NEW error, Process(t, info, newcomer, error),
         Table(s, 1), Neat(t) => Neat(s),
         NEW name \in {"process.ruid", "process.comm", "process.stat_comm", "process.exe",
                       "process.cmdline"},
         NEW type, NEW scalar, Adds(s, t, name, type, scalar)
  PROVE  Process(s, info, newcomer, error)
<1>1. name # "process.pid" /\ name # "process.newcomer" /\ name # "process.error"
  OBVIOUS
<1>2. name \in Names
  BY ProcessNames
<1>3. \A k \in Names : k # name => Entry(s, k) = Entry(t, k)
  BY <1>2, Added
<1>4. /\ Entry(s, "process.pid") = Entry(t, "process.pid")
      /\ Entry(s, "process.newcomer") = Entry(t, "process.newcomer")
      /\ Entry(s, "process.error") = Entry(t, "process.error")
  BY <1>1, <1>3, ProcessNames
<1> QED BY <1>4 DEF Process

LEMMA ProcessText ==
  ASSUME NEW t, NEW info, NEW newcomer, NEW error, Process(t, info, newcomer, error),
         NEW name \in {"process.comm", "process.stat_comm", "process.exe", "process.cmdline"},
         NEW text \in Texts
  PROVE  /\ Process(AddText(t, name, text), info, newcomer, error)
         /\ \A condition : Process(AddIf(condition, t, name, text), info, newcomer, error)
<1> DEFINE s == AddText(t, name, text)
<1>1. name \in TextProperties /\ Table(t, 1)
  BY ProcessNames DEF Process
<1>2. Table(s, 1) /\ (Neat(t) => Neat(s)) /\ Adds(s, t, name, "string", Text(text))
  BY <1>1, ProcessNames, TextAdded
<1> HIDE DEF s
<1>3. Process(s, info, newcomer, error)
  BY <1>2, ProcessKept
<1> QED BY <1>3 DEF s, AddIf

LEMMA InfoFields ==
  ASSUME NEW info \in Infos
  PROVE  /\ info.pid \in Int /\ info.ruid \in Int
         /\ info.newcomer \in BOOLEAN /\ info.valid \in BOOLEAN
         /\ info.comm \in Texts /\ info.exe \in Texts /\ info.cmdLine \in Texts
BY ListingsAssumption

(* ProcessInfo::serialize() tells the pid, the newcomer and the error.     *)
LEMMA ProcessSerialized ==
  ASSUME NEW info \in Infos
  PROVE  Process(Serialized(info), info, info.newcomer, ~info.valid)
<1> DEFINE pid == AddInt(NewTable, "process.pid", info.pid)
           new == IF info.newcomer
                  THEN AddProperty(pid, "process.newcomer", "bool", <<"bool", "true">>)
                  ELSE pid
           ruid == AddInt(new, "process.ruid", info.ruid)
           ids == AddText(ruid, "process.comm", info.comm)
           comm == AddIf(info.comm # "", ids, "process.stat_comm", info.comm)
           exe == AddIf(info.exe # "", comm, "process.exe", info.exe)
           cmd == AddIf(info.cmdLine # "", exe, "process.cmdline", info.cmdLine)
           error == AddText(new, "process.error", "not read")
<1>1. Serialized(info) = IF info.valid THEN cmd ELSE error
  BY DEF Serialized
<1>2. Process(pid, info, FALSE, FALSE)
  <2>1. Table(NewTable, 1) /\ Neat(NewTable) /\ \A k \in Names : ~Full(Entry(NewTable, k))
    BY NewTableIs, ProcessNames
  <2>2. Table(pid, 1) /\ Neat(pid) /\ Adds(pid, NewTable, "process.pid", "int", Number(info.pid))
    BY <2>1, InfoFields, ProcessNames, IntAdded
  <2> HIDE DEF pid
  <2>3. /\ Entry(pid, "process.pid") = Property("process.pid", "int", Number(info.pid))
        /\ ~Full(Entry(pid, "process.newcomer")) /\ ~Full(Entry(pid, "process.error"))
    BY <2>1, <2>2, Added, ProcessNames
  <2> QED BY <2>2, <2>3 DEF Process
<1> HIDE DEF pid
<1>3. Process(new, info, info.newcomer, FALSE)
  <2>1. CASE info.newcomer
    <3> DEFINE s == AddProperty(pid, "process.newcomer", "bool", <<"bool", "true">>)
    <3>1. /\ Table(s, 1) /\ (Neat(pid) => Neat(s))
          /\ Adds(s, pid, "process.newcomer", "bool", <<"bool", "true">>)
      BY <1>2, ProcessNames, NewcomerAdded DEF Process
    <3>2. new = s
      BY <2>1
    <3> HIDE DEF s, new
    <3>3. /\ Full(Entry(s, "process.newcomer"))
          /\ Entry(s, "process.pid") = Entry(pid, "process.pid")
          /\ Entry(s, "process.error") = Entry(pid, "process.error")
      <4>1. "process.newcomer" \in Names /\ "process.pid" \in Names /\ "process.error" \in Names
        BY ProcessNames
      <4>2. Full(Entry(s, "process.newcomer"))
        BY <3>1, <4>1, Added
      <4>3. \A k \in Names : k # "process.newcomer" => Entry(s, k) = Entry(pid, k)
        BY <3>1, <4>1, Added
      <4> QED BY <4>1, <4>2, <4>3
    <3> QED BY <1>2, <2>1, <3>1, <3>2, <3>3 DEF Process
  <2>2. CASE ~info.newcomer
    <3>1. new = pid
      BY <2>2
    <3> HIDE DEF new
    <3> QED BY <1>2, <2>2, <3>1 DEF Process
  <2> QED BY <2>1, <2>2, InfoFields
<1> HIDE DEF new
<1>4. CASE info.valid
  <2>1. Process(ruid, info, info.newcomer, FALSE)
    <3>1. Table(ruid, 1) /\ (Neat(new) => Neat(ruid))
          /\ Adds(ruid, new, "process.ruid", "int", Number(info.ruid))
      BY <1>3, InfoFields, ProcessNames, IntAdded DEF Process
    <3> HIDE DEF ruid
    <3> QED BY <1>3, <3>1, ProcessKept
  <2> HIDE DEF ruid
  <2>2. Process(ids, info, info.newcomer, FALSE)
    BY <2>1, InfoFields, ProcessText
  <2> HIDE DEF ids
  <2>3. Process(comm, info, info.newcomer, FALSE)
    BY <2>2, InfoFields, ProcessText
  <2> HIDE DEF comm
  <2>4. Process(exe, info, info.newcomer, FALSE)
    BY <2>3, InfoFields, ProcessText
  <2> HIDE DEF exe
  <2>5. Process(cmd, info, info.newcomer, FALSE)
    BY <2>4, InfoFields, ProcessText
  <2> HIDE DEF cmd
  <2> QED BY <1>1, <1>4, <2>5 DEF Process
<1>5. CASE ~info.valid
  <2>1. Table(error, 1) /\ (Neat(new) => Neat(error))
        /\ Adds(error, new, "process.error", "string", Text("not read"))
    BY <1>3, TextsAssumption, ProcessNames, TextAdded DEF Process
  <2> HIDE DEF error, cmd, exe, comm, ids, ruid
  <2>2. /\ Full(Entry(error, "process.error"))
        /\ Entry(error, "process.pid") = Entry(new, "process.pid")
        /\ Entry(error, "process.newcomer") = Entry(new, "process.newcomer")
    <3>1. "process.newcomer" \in Names /\ "process.pid" \in Names /\ "process.error" \in Names
      BY ProcessNames
    <3>2. Full(Entry(error, "process.error"))
      BY <2>1, <3>1, Added
    <3>3. ASSUME NEW k \in Names, k # "process.error" PROVE Entry(error, k) = Entry(new, k)
      BY <2>1, <3>3 DEF Adds
    <3> QED BY <3>1, <3>2, <3>3
  <2>3. Process(error, info, info.newcomer, TRUE)
    BY <1>3, <2>1, <2>2 DEF Process
  <2> QED BY <1>1, <1>5, <2>3 DEF Process
<1> QED BY <1>4, <1>5, InfoFields

(* And how it is written.                                                  *)
LEMMA ProcessWritten ==
  ASSUME NEW info \in Infos
  PROVE  LET v == ToJson[Serialized(info)]
         IN  /\ Body(FirstOf(v, "process.pid"))[2] = info.pid
             /\ info.newcomer = ("process.newcomer" \in Keys(v))
             /\ info.valid = ("process.error" \notin Keys(v))
<1> DEFINE t == Serialized(info)
<1>1. Process(t, info, info.newcomer, ~info.valid)
  BY ProcessSerialized
<1> HIDE DEF t
<1>2. t \in Bags /\ Kind(t) = "table" /\ Neat(t)
  <2>1. 1 + 1 \in 0..MaxDepth
    BY ProcessNames, DepthAssumption
  <2> QED BY <1>1, <2>1, BagsGrow DEF Process, Table
<1>3. /\ "process.newcomer" \in Keys(ToJson[t]) <=> Full(Entry(t, "process.newcomer"))
      /\ "process.error" \in Keys(ToJson[t]) <=> Full(Entry(t, "process.error"))
  BY <1>2, ProcessNames, NeatTold
<1>4. FirstOf(ToJson[t], "process.pid") = <<"scalar", Number(info.pid)>>
  <2> DEFINE p == Property("process.pid", "int", Number(info.pid))
  <2>1. Entry(t, "process.pid") = p /\ Full(p)
    BY <1>1, PropertyIsFull DEF Process
  <2>2. FirstOf(ToJson[t], "process.pid") = ToJson[p]
    BY <1>2, <2>1, ProcessNames, NeatTold
  <2>3. ToJson[p] = <<"scalar", Number(info.pid)>>
    BY InfoFields, ProcessNames, IntTold
  <2> QED BY <2>2, <2>3
<1>5. Body(FirstOf(ToJson[t], "process.pid"))[2] = info.pid
  BY <1>4, InfoFields, NumberIsScalar DEF Body
<1>6. info.newcomer = ("process.newcomer" \in Keys(ToJson[t]))
  BY <1>1, <1>3, InfoFields DEF Process
<1>7. info.valid = ("process.error" \notin Keys(ToJson[t]))
  BY <1>1, <1>3, InfoFields DEF Process
<1> QED BY <1>5, <1>6, <1>7 DEF t

-----------------------------------------------------------------------------
(* The lists of processes.                                                 *)
LEMMA NextLevel ==
  ASSUME NEW n \in 0..(MaxDepth - 1)
  PROVE  n + 1 \in 0..MaxDepth
BY DepthAssumption

LEMMA SameLength ==
  ASSUME NEW S, NEW T, NEW s \in Seq(S), NEW b, b = [i \in DOMAIN s |-> b[i]],
         \A i \in DOMAIN s : b[i] \in T
  PROVE  b \in Seq(T)
<1>1. DOMAIN s = 1..Len(s) /\ Len(s) \in Nat
  OBVIOUS
<1> QED BY <1>1

(* An array of fine bags without names is fine.                            *)
LEMMA ArrayIsFine ==
  ASSUME NEW n \in 0..(MaxDepth - 1), NEW name \in ArrayProperties, NEW body \in Seq(BagsTo[n]),
         \A i \in DOMAIN body : Full(body[i]) /\ Name(body[i]) = "" /\ Fine(body[i])
  PROVE  LET a == Bag(name, "array", body)
         IN  /\ a \in BagsTo[n + 1] /\ Fine(a)
             /\ Kind(a) = "array" /\ Name(a) = name /\ Body(a) = body
             /\ (\A i \in DOMAIN body : Kind(body[i]) = "table" /\ Neat(body[i])) => Neat(a)
<1> DEFINE a == Bag(name, "array", body)
<1>1. n + 1 \in 0..MaxDepth
  BY NextLevel
<1>2. name \in Names /\ IsArrayProperty(name)
  <2>1. name \in ResponseProperties /\ name \in DOMAIN Registry /\ Registry[name].type = "array"
    BY PropertiesAssumption DEF ResponseProperties, KnownProperties
  <2> QED BY <2>1, ResponseNames DEF IsArrayProperty
<1>3. a \in BagsTo[n + 1]
  <2>1. a \in MoreBags(BagsTo[n])
    BY <1>2, ArrayIn
  <2> QED BY <2>1, BagsLevels
<1>4. a \in Bags
  BY <1>1, <1>3, BagsGrow
<1>5. Kind(a) = "array" /\ Name(a) = name /\ Body(a) = body
  BY BagFields
<1> HIDE DEF a
<1>6. \A c \in Children(a) : \E i \in DOMAIN body : c = body[i]
  BY <1>5 DEF Children, Range
<1>7. FineHere(a)
  <2>1. \A i \in DOMAIN Body(a) : Full(Body(a)[i]) /\ Name(Body(a)[i]) = ""
    BY <1>5
  <2> QED BY <1>2, <1>5, <2>1 DEF FineHere
<1>8. Fine(a)
  <2>1. \A c \in Children(a) : Fine(c)
    BY <1>6
  <2> QED BY <1>4, <1>7, <2>1, FineByParts
<1>9. ASSUME \A i \in DOMAIN body : Kind(body[i]) = "table" /\ Neat(body[i]) PROVE Neat(a)
  <2>1. \A i \in DOMAIN Body(a) : Kind(Body(a)[i]) = "table"
    BY <1>5, <1>9
  <2>2. NeatHere(a)
    BY <1>5, <2>1 DEF NeatHere
  <2>3. \A c \in Children(a) : Neat(c)
    BY <1>6, <1>9
  <2> QED BY <1>4, <2>2, <2>3, NeatByParts
<1> QED BY <1>3, <1>5, <1>8, <1>9 DEF a

ListOf(processes) ==
  Bag("process.process_list", "array", [i \in DOMAIN processes |-> Serialized(processes[i])])

Gone(removed) ==
  Bag("process.process_list", "array",
      [i \in DOMAIN removed |-> Bag("", "property", <<"int", Number(removed[i])>>)])

LEMMA TwoLevels == 1 \in 0..MaxDepth /\ 1 + 1 = 2 /\ 2 \in 0..(MaxDepth - 1) /\ 2 \in 1..MaxDepth
                   /\ 2 + 1 = 3 /\ 3 \in 0..(MaxDepth - 1) /\ 3 \in 1..(MaxDepth - 1)
                   /\ 3 \in 0..MaxDepth /\ 3 + 1 = 4 /\ 4 \in 0..MaxDepth /\ 2 \in 0..MaxDepth
BY DepthAssumption, ResponseDepthAssumption

LEMMA ProcessBag ==
  ASSUME NEW info \in Infos
  PROVE  LET b == Serialized(info)
         IN  b \in BagsTo[2] /\ Full(b) /\ Name(b) = "" /\ Fine(b) /\ Kind(b) = "table" /\ Neat(b)
BY ProcessSerialized, TwoLevels DEF Process, Table, Full

(* The list of the processes, and that of the pids that are gone.          *)
LEMMA ListIsFine ==
  ASSUME NEW processes \in Seq(Infos)
  PROVE  LET a == ListOf(processes)
         IN  /\ a \in BagsTo[3] /\ Fine(a) /\ Neat(a)
             /\ Kind(a) = "array" /\ Name(a) = "process.process_list"
             /\ Body(a) = [i \in DOMAIN processes |-> Serialized(processes[i])]
<1> DEFINE body == [i \in DOMAIN processes |-> Serialized(processes[i])]
           a == Bag("process.process_list", "array", body)
<1>1. ASSUME NEW i \in DOMAIN processes
      PROVE  /\ Serialized(processes[i]) \in BagsTo[2] /\ Full(Serialized(processes[i]))
             /\ Name(Serialized(processes[i])) = "" /\ Fine(Serialized(processes[i]))
             /\ Kind(Serialized(processes[i])) = "table" /\ Neat(Serialized(processes[i]))
  <2>1. processes[i] \in Infos
    OBVIOUS
  <2> QED BY <2>1, ProcessBag
<1>2. body \in Seq(BagsTo[2])
  <2>1. \A i \in DOMAIN processes : body[i] \in BagsTo[2]
    BY <1>1
  <2>2. body = [i \in DOMAIN processes |-> body[i]]
    OBVIOUS
  <2> HIDE DEF body
  <2> QED BY <2>1, <2>2, SameLength
<1>3. \A i \in DOMAIN body : Full(body[i]) /\ Name(body[i]) = "" /\ Fine(body[i])
  BY <1>1
<1>4. \A i \in DOMAIN body : Kind(body[i]) = "table" /\ Neat(body[i])
  BY <1>1
<1> HIDE DEF body
<1>5. "process.process_list" \in ArrayProperties
  BY DEF ArrayProperties
<1>6. /\ a \in BagsTo[2 + 1] /\ Fine(a)
      /\ Kind(a) = "array" /\ Name(a) = "process.process_list" /\ Body(a) = body
  <2>1. a \in BagsTo[2 + 1]
    BY <1>2, <1>3, <1>5, TwoLevels, ArrayIsFine
  <2>2. Fine(a)
    BY <1>2, <1>3, <1>5, TwoLevels, ArrayIsFine
  <2>3. Kind(a) = "array" /\ Name(a) = "process.process_list" /\ Body(a) = body
    BY BagFields
  <2> QED BY <2>1, <2>2, <2>3
<1>7. Neat(a)
  BY <1>2, <1>3, <1>4, <1>5, TwoLevels, ArrayIsFine
<1> QED BY <1>6, <1>7, TwoLevels DEF ListOf, body

LEMMA GoneIsFine ==
  ASSUME NEW removed \in Seq(Int)
  PROVE  LET a == Gone(removed)
         IN  a \in BagsTo[3] /\ Fine(a) /\ Kind(a) = "array" /\ Name(a) = "process.process_list"
<1> DEFINE body == [i \in DOMAIN removed |-> Bag("", "property", <<"int", Number(removed[i])>>)]
           a == Bag("process.process_list", "array", body)
<1>1. ASSUME NEW n \in Int
      PROVE  LET p == Bag("", "property", <<"int", Number(n)>>)
             IN  p \in BagsTo[2] /\ Full(p) /\ Name(p) = "" /\ Fine(p)
  <2> DEFINE p == Bag("", "property", <<"int", Number(n)>>)
  <2>1. /\ Number(n) \in Scalars /\ Number(n)[1] \in Accepted("int")
        /\ "int" \in {"bool", "int", "string"} /\ "int" \in Types
    BY NumberIsScalar DEF Types
  <2>2. Fine(p)
    BY <2>1, EmptyNameIn, ScalarProperty
  <2>3. Full(p)
    BY <2>1, EmptyNameIn, ScalarProperty
  <2>4. Name(p) = ""
    BY PropertyFields
  <2>5. \A m \in 1..MaxDepth : p \in BagsTo[m]
    BY <2>1, EmptyNameIn, ScalarProperty
  <2> QED BY <2>2, <2>3, <2>4, <2>5, TwoLevels
<1>2. \A i \in DOMAIN removed : removed[i] \in Int
  OBVIOUS
<1>3. body \in Seq(BagsTo[2])
  <2>1. \A i \in DOMAIN removed : body[i] \in BagsTo[2]
    BY <1>1, <1>2
  <2>2. body = [i \in DOMAIN removed |-> body[i]]
    OBVIOUS
  <2> HIDE DEF body
  <2> QED BY <2>1, <2>2, SameLength
<1>4. \A i \in DOMAIN body : Full(body[i]) /\ Name(body[i]) = "" /\ Fine(body[i])
  BY <1>1, <1>2
<1> HIDE DEF body
<1>5. "process.process_list" \in ArrayProperties
  BY DEF ArrayProperties
<1>6. /\ a \in BagsTo[2 + 1] /\ Fine(a)
      /\ Kind(a) = "array" /\ Name(a) = "process.process_list"
  BY <1>3, <1>4, <1>5, TwoLevels, ArrayIsFine
<1> QED BY <1>6, TwoLevels DEF Gone, body

-----------------------------------------------------------------------------
(* The responses.                                                          *)
LEMMA AnswerNames ==
  /\ {"request.id", "response.status", "response.srv_version", "process.process_list",
      "process.deleted_process_list"} \subseteq ResponseProperties \cap Names
  /\ {"response.status", "response.srv_version"} \subseteq TextProperties
  /\ "request.id" \in IntProperties
  /\ {"success", "v"} \subseteq Texts
<1>1. {"request.id", "response.status", "response.srv_version", "process.process_list",
       "process.deleted_process_list"} \subseteq ResponseProperties
  BY DEF ResponseProperties, KnownProperties, IntProperties, TextProperties, ArrayProperties
<1>2. {"response.status", "response.srv_version"} \subseteq TextProperties
      /\ "request.id" \in IntProperties
  BY DEF IntProperties, TextProperties
<1>3. {"success", "v"} \subseteq Texts
  BY TextsAssumption
<1> QED BY <1>1, <1>2, <1>3, ResponseNames

IdProperty == Property("request.id", "int", Number(id))
Success == Property("response.status", "string", Text("success"))

(* Every answer of a handler tells the id and the success.                 *)
LEMMA SucceededIs ==
  ASSUME NEW t, Table(t, 3), id \in Int,
         ~Full(Entry(t, "request.id")), ~Full(Entry(t, "response.status"))
  PROVE  LET s == Succeeded(t)
         IN  /\ Table(s, 3) /\ (Neat(t) => Neat(s))
             /\ Entry(s, "request.id") = IdProperty
             /\ Entry(s, "response.status") = Success
             /\ \A k \in Names \ {"request.id", "response.status"} : Entry(s, k) = Entry(t, k)
<1> DEFINE u == AddInt(t, "request.id", id)
           s == AddText(u, "response.status", "success")
<1>1. Table(u, 3) /\ (Neat(t) => Neat(u)) /\ Adds(u, t, "request.id", "int", Number(id))
  BY AnswerNames, TwoLevels, IntAdded
<1> HIDE DEF u
<1>2. Table(s, 3) /\ (Neat(u) => Neat(s))
      /\ Adds(s, u, "response.status", "string", Text("success"))
  BY <1>1, AnswerNames, TwoLevels, TextAdded
<1>3. Succeeded(t) = s
  BY DEF Succeeded, u
<1> HIDE DEF s
<1>4. "request.id" \in Names /\ "response.status" \in Names
  BY AnswerNames
<1>5. Entry(u, "request.id") = IdProperty
  BY <1>1, <1>4, Added DEF IdProperty
<1>6. \A k \in Names : k # "request.id" => Entry(u, k) = Entry(t, k)
  BY <1>1, <1>4, Added
<1>7. ~Full(Entry(u, "response.status"))
  BY <1>4, <1>6
<1>8. Entry(s, "response.status") = Success
  BY <1>2, <1>4, <1>7, Added DEF Success
<1>9. \A k \in Names : k # "response.status" => Entry(s, k) = Entry(u, k)
  BY <1>2, <1>4, Added
<1>10. Entry(s, "request.id") = IdProperty
  BY <1>4, <1>5, <1>9
<1>11. \A k \in Names \ {"request.id", "response.status"} : Entry(s, k) = Entry(t, k)
  BY <1>6, <1>9
<1> QED BY <1>1, <1>2, <1>3, <1>8, <1>10, <1>11

Listed == listed \in [processes : Seq(Infos), removed : Seq(Int)]

(* The names of the bags of a table: their keys, but for the second list.  *)
NamedAlike(t) ==
  \A k \in Names : Full(Entry(t, k)) =>
    Name(Entry(t, k)) = k \/ Name(Entry(t, k)) = "process.process_list"

(* ProcessManager's answer, before the id and the success.                 *)
LEMMA NeatIsNamed ==
  ASSUME NEW t \in Bags, Kind(t) = "table", Neat(t)
  PROVE  NamedAlike(t)
BY NeatByParts DEF NeatHere, NamedAlike, Entry

LEMMA ProcessListsAre ==
  ASSUME Listed
  PROVE  LET s == ProcessLists
         IN  /\ Table(s, 3) /\ NamedAlike(s)
             /\ key # "diff_processes" => Neat(s)
             /\ Entry(s, "process.process_list") = ListOf(listed.processes)
             /\ key = "diff_processes" =>
                  Entry(s, "process.deleted_process_list") = Gone(listed.removed)
             /\ ~Full(Entry(s, "request.id")) /\ ~Full(Entry(s, "response.status"))
<1> DEFINE list == ListOf(listed.processes)
           gone == Gone(listed.removed)
           t == AddToTable(NewTable, "process.process_list", list)
           s == AddToTable(t, "process.deleted_process_list", gone)
<1>1. ProcessLists = IF key = "diff_processes" THEN s ELSE t
  BY DEF ProcessLists, ListOf, Gone
<1>2. listed.processes \in Seq(Infos) /\ listed.removed \in Seq(Int)
  BY DEF Listed
<1>3. /\ list \in BagsTo[3] /\ Fine(list) /\ Neat(list)
      /\ Kind(list) = "array" /\ Name(list) = "process.process_list"
  BY <1>2, ListIsFine
<1>4. gone \in BagsTo[3] /\ Fine(gone) /\ Kind(gone) = "array" /\ Name(gone) = "process.process_list"
  BY <1>2, GoneIsFine
<1> HIDE DEF list, gone
<1>5. /\ "process.process_list" \in ResponseProperties /\ "process.process_list" \in Names
      /\ "process.deleted_process_list" \in ResponseProperties
      /\ "process.deleted_process_list" \in Names
      /\ "request.id" \in Names /\ "response.status" \in Names
  BY AnswerNames
<1>6. Table(NewTable, 3) /\ Neat(NewTable) /\ \A k \in Names : ~Full(Entry(NewTable, k))
  BY NewTableIs, TwoLevels
<1>7. /\ Table(t, 3) /\ Neat(t)
      /\ \A k \in Names : Entry(t, k) = IF k = "process.process_list" /\ ~Full(Entry(NewTable, k))
                                        THEN list ELSE Entry(NewTable, k)
  BY <1>3, <1>5, <1>6, TwoLevels, ItemAdded
<1> HIDE DEF t
<1>8. /\ Table(s, 3)
      /\ \A k \in Names : Entry(s, k) = IF k = "process.deleted_process_list" /\ ~Full(Entry(t, k))
                                        THEN gone ELSE Entry(t, k)
  BY <1>4, <1>5, <1>7, TwoLevels, ItemAdded
<1> HIDE DEF s
<1>9. /\ Entry(t, "process.process_list") = list
      /\ ~Full(Entry(t, "process.deleted_process_list"))
      /\ ~Full(Entry(t, "request.id")) /\ ~Full(Entry(t, "response.status"))
  BY <1>5, <1>6, <1>7
<1>10. /\ Entry(s, "process.deleted_process_list") = gone
       /\ \A k \in Names : k # "process.deleted_process_list" => Entry(s, k) = Entry(t, k)
  BY <1>5, <1>8, <1>9
<1>11. NamedAlike(t)
  <2>1. t \in Bags /\ Kind(t) = "table"
    BY <1>7, TwoLevels, BagsGrow DEF Table
  <2> QED BY <1>7, <2>1, NeatIsNamed
<1>12. NamedAlike(s)
  BY <1>4, <1>10, <1>11 DEF NamedAlike
<1>13. CASE key = "diff_processes"
  <2>1. ProcessLists = s
    BY <1>1, <1>13
  <2>2. /\ Entry(s, "process.process_list") = list
        /\ ~Full(Entry(s, "request.id")) /\ ~Full(Entry(s, "response.status"))
    BY <1>5, <1>9, <1>10
  <2> QED BY <1>8, <1>10, <1>12, <1>13, <2>1, <2>2 DEF list, gone
<1>14. CASE key # "diff_processes"
  <2>1. ProcessLists = t
    BY <1>1, <1>14
  <2> QED BY <1>7, <1>9, <1>11, <1>14, <2>1 DEF list
<1> QED BY <1>13, <1>14
(* A table of depth 4 is a bag.                                            *)
LEMMA TableIsBag ==
  ASSUME NEW t, Table(t, 3)
  PROVE  t \in BagsTo[4] /\ t \in Bags /\ Kind(t) = "table" /\ Name(t) = "" /\ Full(t) /\ Fine(t)
BY TwoLevels, BagsGrow DEF Table, Full

Answers(s) ==
  /\ Table(s, 3) /\ NamedAlike(s)
  /\ Entry(s, "request.id") = IdProperty
  /\ Entry(s, "response.status") = Success

(* The answers of the handlers.                                            *)
LEMMA SucceededAnswers ==
  ASSUME NEW t, Table(t, 3), NamedAlike(t), id \in Int,
         ~Full(Entry(t, "request.id")), ~Full(Entry(t, "response.status"))
  PROVE  Answers(Succeeded(t))
<1> DEFINE s == Succeeded(t)
<1>1. /\ Table(s, 3)
      /\ Entry(s, "request.id") = IdProperty
      /\ Entry(s, "response.status") = Success
      /\ \A k \in Names \ {"request.id", "response.status"} : Entry(s, k) = Entry(t, k)
  BY SucceededIs
<1>2. /\ Name(IdProperty) = "request.id" /\ Name(Success) = "response.status"
  BY BagFields DEF IdProperty, Success, Property
<1> HIDE DEF s
<1>3. NamedAlike(s)
  <2> SUFFICES ASSUME NEW k \in Names, Full(Entry(s, k))
               PROVE  Name(Entry(s, k)) = k \/ Name(Entry(s, k)) = "process.process_list"
    BY DEF NamedAlike
  <2>1. CASE k \in {"request.id", "response.status"}
    BY <1>1, <1>2, <2>1
  <2>2. CASE k \notin {"request.id", "response.status"}
    <3>1. Entry(s, k) = Entry(t, k)
      BY <1>1, <2>2
    <3> QED BY <3>1 DEF NamedAlike
  <2> QED BY <2>1, <2>2
<1> QED BY <1>1, <1>3 DEF s, Answers

LEMMA NewTableSucceeds ==
  ASSUME id \in Int
  PROVE  Answers(Succeeded(NewTable)) /\ Neat(Succeeded(NewTable))
<1>1. Table(NewTable, 3) /\ Neat(NewTable) /\ \A k \in Names : ~Full(Entry(NewTable, k))
  BY NewTableIs, TwoLevels
<1>2. NamedAlike(NewTable)
  BY <1>1 DEF NamedAlike
<1>3. "request.id" \in Names /\ "response.status" \in Names
  BY AnswerNames
<1>4. ~Full(Entry(NewTable, "request.id")) /\ ~Full(Entry(NewTable, "response.status"))
  BY <1>1, <1>3
<1> HIDE DEF NewTable
<1>5. Answers(Succeeded(NewTable))
  BY <1>1, <1>2, <1>4, SucceededAnswers
<1>6. Neat(Succeeded(NewTable))
  BY <1>1, <1>4, SucceededIs
<1> QED BY <1>5, <1>6

LEMMA VersionAnswers ==
  ASSUME NEW t, Answers(t), Neat(t)
  PROVE  LET s == AddText(t, "response.srv_version", "v") IN Answers(s) /\ Neat(s)
<1> DEFINE s == AddText(t, "response.srv_version", "v")
<1>1. Table(s, 3) /\ (Neat(t) => Neat(s))
      /\ Adds(s, t, "response.srv_version", "string", Text("v"))
  BY AnswerNames, TwoLevels, TextAdded DEF Answers
<1> HIDE DEF s
<1>2. NamedAlike(s)
  BY <1>1, TableIsBag, NeatIsNamed
<1>3. "request.id" \in Names /\ "response.status" \in Names
  BY AnswerNames
<1>4. Entry(s, "request.id") = Entry(t, "request.id")
  BY <1>1, <1>3, AddedElsewhere
<1>5. Entry(s, "response.status") = Entry(t, "response.status")
  BY <1>1, <1>3, AddedElsewhere
<1> QED BY <1>1, <1>2, <1>4, <1>5 DEF s, Answers

LEMMA ListsAnswer ==
  ASSUME Listed, id \in Int
  PROVE  LET s == Succeeded(ProcessLists)
         IN  /\ Answers(s)
             /\ key # "diff_processes" => Neat(s)
             /\ Entry(s, "process.process_list") = ListOf(listed.processes)
             /\ key = "diff_processes" =>
                  Entry(s, "process.deleted_process_list") = Gone(listed.removed)
<1> DEFINE t == ProcessLists
           s == Succeeded(t)
<1>1. /\ Table(t, 3) /\ NamedAlike(t)
      /\ key # "diff_processes" => Neat(t)
      /\ Entry(t, "process.process_list") = ListOf(listed.processes)
      /\ key = "diff_processes" =>
           Entry(t, "process.deleted_process_list") = Gone(listed.removed)
      /\ ~Full(Entry(t, "request.id")) /\ ~Full(Entry(t, "response.status"))
  BY ProcessListsAre
<1> HIDE DEF t
<1>2. Answers(s)
  BY <1>1, SucceededAnswers
<1>3. /\ Neat(t) => Neat(s)
      /\ \A k \in Names \ {"request.id", "response.status"} : Entry(s, k) = Entry(t, k)
  BY <1>1, SucceededIs
<1> HIDE DEF s
<1>4. /\ "process.process_list" \in Names \ {"request.id", "response.status"}
      /\ "process.deleted_process_list" \in Names \ {"request.id", "response.status"}
  BY AnswerNames
<1>5. /\ Entry(s, "process.process_list") = Entry(t, "process.process_list")
      /\ Entry(s, "process.deleted_process_list") = Entry(t, "process.deleted_process_list")
  BY <1>3, <1>4
<1> QED BY <1>1, <1>2, <1>3, <1>5 DEF s, t

(* What they are, for each command.                                        *)
LEMMA HandledIs ==
  ASSUME Listed, id \in Int
  PROVE  /\ Answers(Handled)
         /\ key # "diff_processes" => Neat(Handled)
         /\ key = "list_processes" =>
              Entry(Handled, "process.process_list") = ListOf(listed.processes)
         /\ key = "diff_processes" =>
              Entry(Handled, "process.deleted_process_list") = Gone(listed.removed)
<1>1. CASE key = "stop"
  <2>1. Handled = Succeeded(NewTable)
    BY <1>1 DEF Handled
  <2> HIDE DEF Handled
  <2> QED BY <1>1, <2>1, NewTableSucceeds
<1>2. CASE key = "version"
  <2>1. Handled = AddText(Succeeded(NewTable), "response.srv_version", "v")
    BY <1>2 DEF Handled
  <2> HIDE DEF Handled
  <2>2. Answers(Handled) /\ Neat(Handled)
    BY <2>1, NewTableSucceeds, VersionAnswers
  <2> QED BY <1>2, <2>2
<1>3. CASE key \notin {"stop", "version"}
  <2>1. Handled = Succeeded(ProcessLists)
    BY <1>3 DEF Handled
  <2> HIDE DEF Handled
  <2> QED BY <2>1, ListsAnswer
<1> QED BY <1>1, <1>2, <1>3

-----------------------------------------------------------------------------
(* What the answers tell.                                                  *)
LEMMA SuccessTold ==
  ASSUME NEW r, Answers(r), id \in Int
  PROVE  /\ ToJson[r] \in Json /\ Keyed[ToJson[r]]
         /\ Body(FirstOf(ToJson[r], "request.id"))[2] = id
         /\ Body(FirstOf(ToJson[r], "response.status"))[2] = "success"
<1>1. r \in BagsTo[4] /\ r \in Bags /\ Kind(r) = "table" /\ Full(r) /\ Fine(r)
  BY TableIsBag DEF Answers
<1>2. ToJson[r] \in JsonTo[4] /\ Keyed[ToJson[r]]
  BY <1>1, FineIsWritten, TwoLevels
<1>3. ToJson[r] \in Json
  BY <1>2, JsonGrows, TwoLevels
<1>4. "request.id" \in Names /\ "response.status" \in Names
  BY AnswerNames
<1>5. \A k \in Names : Full(Body(r)[k]) =>
        Name(Body(r)[k]) = k \/ Name(Body(r)[k]) = "process.process_list"
  BY DEF Answers, NamedAlike, Entry
<1>6. FirstOf(ToJson[r], "request.id") = ToJson[IdProperty]
  <2>1. Body(r)["request.id"] = IdProperty /\ Full(IdProperty) /\ Name(IdProperty) = "request.id"
    BY <1>4, IntTold, PropertyIsFull DEF Answers, Entry, IdProperty
  <2>2. \A j \in Names : Full(Body(r)[j]) /\ Name(Body(r)[j]) = "request.id" => j = "request.id"
    BY <1>5
  <2> QED BY <1>1, <1>4, <2>1, <2>2, Told
<1>7. FirstOf(ToJson[r], "response.status") = ToJson[Success]
  <2>1. Body(r)["response.status"] = Success
    BY DEF Answers, Entry
  <2>2. Full(Success) /\ Name(Success) = "response.status"
    BY PropertyIsFull, BagFields DEF Success, Property
  <2>3. \A j \in Names : Full(Body(r)[j]) /\ Name(Body(r)[j]) = "response.status"
                           => j = "response.status"
    BY <1>5
  <2> QED BY <1>1, <1>4, <2>1, <2>2, <2>3, Told
<1>8. ToJson[IdProperty] = <<"scalar", Number(id)>>
  BY <1>4, IntTold DEF IdProperty
<1>9. ToJson[Success] = <<"scalar", Text("success")>>
  BY <1>4, AnswerNames, TextTold DEF Success
<1>10. Body(FirstOf(ToJson[r], "request.id"))[2] = id
  BY <1>6, <1>8, NumberIsScalar DEF Body
<1>11. Body(FirstOf(ToJson[r], "response.status"))[2] = "success"
  BY <1>7, <1>9 DEF Body, Text
<1> QED BY <1>2, <1>3, <1>10, <1>11

(* The list a client gets has an object for every process.                 *)
LEMMA ListTold ==
  ASSUME NEW r, Answers(r), Neat(r), NEW processes \in Seq(Infos),
         Entry(r, "process.process_list") = ListOf(processes)
  PROVE  Body(FirstOf(ToJson[r], "process.process_list"))
           = [i \in DOMAIN processes |-> ToJson[Serialized(processes[i])]]
<1> DEFINE list == ListOf(processes)
           body == [i \in DOMAIN processes |-> Serialized(processes[i])]
<1>1. /\ list \in BagsTo[3] /\ Fine(list) /\ Kind(list) = "array" /\ Body(list) = body
  BY ListIsFine
<1>2. list \in Bags
  BY <1>1, BagsGrow, TwoLevels
<1>3. r \in Bags /\ Kind(r) = "table"
  BY TableIsBag DEF Answers
<1> HIDE DEF list
<1>4. FirstOf(ToJson[r], "process.process_list") = ToJson[list]
  <2>1. Full(list)
    BY <1>1 DEF Full
  <2>2. "process.process_list" \in Names
    BY AnswerNames
  <2> QED BY <1>3, <2>1, <2>2, NeatTold DEF list
<1>5. ToJson[list] = JsonArray([i \in DOMAIN Body(list) |-> ToJson[Body(list)[i]]])
  BY <1>1, <1>2, FineByParts, ArrayWritten
<1>6. Body(ToJson[list]) = [i \in DOMAIN body |-> ToJson[body[i]]]
  BY <1>1, <1>5 DEF JsonArray, Body
<1>7. [i \in DOMAIN body |-> ToJson[body[i]]]
        = [i \in DOMAIN processes |-> ToJson[Serialized(processes[i])]]
  OBVIOUS
<1> QED BY <1>4, <1>6, <1>7

(* Writing an answer throws nothing.                                       *)
LEMMA AnswerHasValues ==
  ASSUME NEW b, Fine(b)
  PROVE  HasValues(b)
<1>1. ASSUME NEW p \in Parts[b], Kind(p) = "property" PROVE Body(p) # NoValue
  <2>1. FineProperty(p)
    BY <1>1 DEF Fine, FineHere
  <2>2. Body(p) \in {"bool", "int", "string"} \X Scalars
    BY <2>1 DEF FineProperty
  <2>3. << >> \notin {"bool", "int", "string"} \X Scalars
    OBVIOUS
  <2> QED BY <2>2, <2>3 DEF NoValue
<1> QED BY <1>1 DEF HasValues

(* An answer is read back, and that to diff_processes misnamed.            *)
LEMMA AnswerReadBack ==
  ASSUME NEW r, Answers(r), Neat(r)
  PROVE  FromJson[<<"", ToJson[r]>>] = Registered[r]
BY TableIsBag, WrittenIsReadBack DEF Answers

LEMMA SecondListMisnamed ==
  ASSUME NEW r, Answers(r), NEW removed \in Seq(Int),
         Entry(r, "process.deleted_process_list") = Gone(removed)
  PROVE  ~NamedByKeys(r)
<1> DEFINE gone == Gone(removed)
<1>1. Kind(gone) = "array" /\ Name(gone) = "process.process_list"
  BY GoneIsFine
<1>2. Body(r)["process.deleted_process_list"] = gone
  BY DEF Entry
<1>3. r \in Parts[r] /\ Kind(r) = "table"
  BY TableIsBag, SelfIsPart DEF Answers
<1>4. "process.deleted_process_list" \in Names
  BY AnswerNames
<1> HIDE DEF gone
<1>5. Full(gone)
  BY <1>1 DEF Full
<1> QED BY <1>1, <1>2, <1>3, <1>4, <1>5 DEF NamedByKeys

(* The answer to a request that fails.                                     *)
LEMMA ObjectIn ==
  ASSUME NEW S, NEW members \in Seq(Names \X S)
  PROVE  Object(members) \in MoreJson(S)
BY DEF MoreJson, Object

LEMMA ScalarIsKeyed ==
  ASSUME NEW v \in Json, Kind(v) = "scalar"
  PROVE  Keyed[v]
<1>1. Keyed[v] = KeysIn(Keyed, v)
  BY KeyedUnfolds
<1> QED BY <1>1 DEF KeysIn

LEMMA FailTold ==
  ASSUME NEW n \in Int, NEW reason \in Texts
  PROVE  LET v == FailJson(n, reason)
         IN  /\ v \in Json /\ Keyed[v]
             /\ Body(FirstOf(v, "request.id"))[2] = n
             /\ Body(FirstOf(v, "response.status"))[2] = "fail"
<1> DEFINE v == FailJson(n, reason)
           number == <<"scalar", Number(n)>>
           status == <<"scalar", Text("fail")>>
           text == <<"scalar", Text(reason)>>
           members == << <<"request.id", number>>, <<"response.status", status>>,
                         <<"response.reason", text>> >>
<1>1. v = Object(members)
  BY DEF FailJson
<1>2. number \in JsonTo[1] /\ status \in JsonTo[1] /\ text \in JsonTo[1]
  <2>1. JsonTo[0 + 1] = MoreJson(JsonTo[0]) /\ 0 + 1 = 1
    BY JsonLevels, DepthAssumption, ResponseDepthAssumption
  <2>2. Number(n) \in Scalars
    BY NumberIsScalar
  <2>3. "fail" \in Texts
    BY TextsAssumption
  <2>4. Text("fail") \in Scalars /\ Text(reason) \in Scalars
    BY <2>3, TextIsScalar
  <2> QED BY <2>1, <2>2, <2>4 DEF MoreJson
<1>3. /\ "request.id" \in Names /\ "response.status" \in Names /\ "response.reason" \in Names
  <2>1. "response.reason" \in ResponseProperties
    BY DEF ResponseProperties, KnownProperties, TextProperties
  <2> QED BY <2>1, AnswerNames, ResponseNames
<1>4. /\ Kind(number) = "scalar" /\ Kind(status) = "scalar" /\ Kind(text) = "scalar"
      /\ Body(number)[2] = n /\ Body(status)[2] = "fail"
  BY NumberIsScalar DEF Kind, Body, Text
<1> HIDE DEF number, status, text
<1>5. members \in Seq(Names \X JsonTo[1])
  BY <1>2, <1>3
<1>6. v \in JsonTo[2]
  <2>1. v \in MoreJson(JsonTo[1])
    BY <1>1, <1>5, ObjectIn
  <2>2. JsonTo[1 + 1] = MoreJson(JsonTo[1])
    BY JsonLevels, ProcessNames
  <2> QED BY <2>1, <2>2, TwoLevels
<1>7. v \in Json
  BY <1>6, JsonGrows, TwoLevels
<1>8. Kind(v) = "object" /\ Body(v) = members
  BY <1>1 DEF Object, Kind, Body
<1>9. /\ DOMAIN members = 1..3
      /\ members[1][1] = "request.id" /\ members[1][2] = number
      /\ members[2][1] = "response.status" /\ members[2][2] = status
      /\ members[3][1] = "response.reason" /\ members[3][2] = text
  OBVIOUS
<1> HIDE DEF v, members
<1>10. Keyed[v]
  <2>1. number \in Json /\ status \in Json /\ text \in Json
    BY <1>2, JsonGrows, TwoLevels
  <2>2. Keyed[number] /\ Keyed[status] /\ Keyed[text]
    BY <1>4, <2>1, ScalarIsKeyed
  <2>3. ASSUME NEW i \in DOMAIN members
        PROVE  members[i][1] # "" /\ Keyed[members[i][2]]
    <3>1. i = 1 \/ i = 2 \/ i = 3
      BY <1>9
    <3>2. CASE i = 1
      BY <1>9, <2>2, <3>2
    <3>3. CASE i = 2
      BY <1>9, <2>2, <3>3
    <3>4. CASE i = 3
      BY <1>9, <2>2, <3>4
    <3> QED BY <3>1, <3>2, <3>3, <3>4
  <2>4. KeysIn(Keyed, v)
    BY <1>8, <2>3 DEF KeysIn
  <2> QED BY <1>7, <2>4, KeyedUnfolds
<1>11. FirstOf(v, "request.id") = number
  <2>1. {i \in DOMAIN Body(v) : Body(v)[i][1] = "request.id"} = {1}
    BY <1>8, <1>9
  <2>2. (CHOOSE i \in {1} : \A j \in {1} : i <= j) = 1
    OBVIOUS
  <2> QED BY <1>8, <1>9, <2>1, <2>2 DEF FirstOf
<1>12. FirstOf(v, "response.status") = status
  <2>1. {i \in DOMAIN Body(v) : Body(v)[i][1] = "response.status"} = {2}
    BY <1>8, <1>9
  <2>2. (CHOOSE i \in {2} : \A j \in {2} : i <= j) = 2
    OBVIOUS
  <2> QED BY <1>8, <1>9, <2>1, <2>2 DEF FirstOf
<1> QED BY <1>4, <1>7, <1>10, <1>11, <1>12 DEF v

-----------------------------------------------------------------------------
(* What the bag of a request says of its id and its command.               *)
LEMMA MemberOfRequest ==
  ASSUME NEW v \in Json, Kind(v) = "object", NEW name \in Names \ DOMAIN CutKeys
  PROVE  LET b == FromJson[<<"", v>>]
         IN  /\ b \in Bags /\ Kind(b) = "table"
             /\ name \notin Keys(v) => ~Full(Entry(b, name))
             /\ name \in Keys(v) =>
                  /\ FirstOf(v, name) \in Json
                  /\ Entry(b, name) = FromJson[<<name, FirstOf(v, name)>>]
                  /\ Full(Entry(b, name))
<1> DEFINE b == FromJson[<<"", v>>]
<1>1. <<"", v>> \in Readable(MaxDepth) /\ MaxDepth \in 0..MaxDepth
  <2>1. MaxDepth \in 0..MaxDepth
    BY DepthAssumption
  <2>2. <<"", v>> \in Names \X Json
    BY EmptyNameIn
  <2> QED BY <2>1, <2>2, ReadableGrows
<1>2. b \in Bags
  BY <1>1, FromJsonIsBag DEF Bags
<1>3. b = Bag("", "table", TableFromJson(FromJson, v))
  BY EmptyNameIn, FromJsonUnfolds DEF BagFromJson
<1>4. Kind(b) = "table" /\ Body(b) = TableFromJson(FromJson, v)
  BY ONLY <1>3, FieldsOf
<1> HIDE DEF b
<1>5. CString(name) = name
  BY DEF CString
<1>6. Entry(b, name) = IF name \in Keys(v) THEN FromJson[<<name, Member(v, name)>>] ELSE NoBag
  BY <1>4, <1>5 DEF Entry, TableFromJson
<1>7. ASSUME name \in Keys(v)
      PROVE  Member(v, name) = FirstOf(v, name) /\ FirstOf(v, name) \in Json
  <2>1. Body(v) \in Seq(Names \X Json)
    BY JsonClosed, JsonNode
  <2> QED BY <1>7, <2>1, Members
<1>8. ASSUME name \in Keys(v)
      PROVE  Full(Entry(b, name))
  <2>1. <<name, FirstOf(v, name)>> \in Readable(MaxDepth)
    BY <1>7, <1>8, ReadableGrows
  <2>2. Full(FromJson[<<name, FirstOf(v, name)>>])
    BY <1>1, <2>1, FromJsonIsBag
  <2> QED BY <1>6, <1>7, <1>8, <2>2
<1>9. name \notin Keys(v) => ~Full(Entry(b, name))
  BY <1>6, NoBagIsBag
<1> QED BY <1>2, <1>4, <1>6, <1>7, <1>8, <1>9 DEF b

(* A member of the request with the name of a known property.              *)
LEMMA PropertyOfRequest ==
  ASSUME NEW name \in Names, NEW v \in Json, name \in DOMAIN Registry
  PROVE  LET b == FromJson[<<name, v>>]
             type == Registry[name].type
         IN  /\ Kind(b) = "property" <=> Kind(v) = "scalar"
             /\ Kind(v) = "scalar" =>
                  Body(b) = IF Fits(type, v) THEN <<type, Body(v)>> ELSE NoValue
<1> DEFINE b == FromJson[<<name, v>>]
<1>1. b = BagFromJson(FromJson, name, v)
  BY FromJsonUnfolds
<1>2. Kind(v) \in {"scalar", "array", "object"}
  BY JsonClosed, JsonNode
<1> HIDE DEF b
<1>3. CASE Kind(v) = "object"
  <2>1. Kind(b) = "table"
    BY <1>1, <1>3, BagFields DEF BagFromJson
  <2> QED BY <1>3, <2>1 DEF b
<1>4. CASE Kind(v) = "array"
  <2>1. Kind(b) = "array"
    BY <1>1, <1>4, BagFields DEF BagFromJson
  <2> QED BY <1>4, <2>1 DEF b
<1>5. CASE Kind(v) = "scalar"
  <2>1. b = Bag(name, "property", PropertyFromJson(name, v))
    BY <1>1, <1>5 DEF BagFromJson
  <2>2. Kind(b) = "property" /\ Body(b) = PropertyFromJson(name, v)
    BY <2>1, PropertyFields
  <2>3. PropertyFromJson(name, v) = IF Fits(Registry[name].type, v)
                                    THEN <<Registry[name].type, Body(v)>> ELSE NoValue
    BY DEF PropertyFromJson, Typed
  <2> QED BY <1>5, <2>2, <2>3 DEF b
<1> QED BY <1>2, <1>3, <1>4, <1>5

RequestRead ==
  /\ request \in Json /\ Kind(request) = "object"
  /\ bag = FromJson[<<"", request>>]

(* What ReadId and FindCommand look at, by what the client sent.           *)
LEMMA SentIs ==
  ASSUME RequestRead, NEW type, NEW name \in KnownProperties, Registry[name].type = type
  PROVE  /\ Has(name) <=> Sent(name) # NoId
         /\ Has(name) =>
              /\ Sent(name) \in Json
              /\ HoldsProperty(name) <=> Kind(Sent(name)) = "scalar"
              /\ HoldsProperty(name) =>
                   /\ Holds(name, type) <=> Fits(type, Sent(name))
                   /\ Holds(name, type) => Body(Body(bag)[name])[2] = Body(Sent(name))
<1> DEFINE v == FirstOf(request, name)
           b == Entry(bag, name)
<1>1. name \in Names \ DOMAIN CutKeys /\ name \in DOMAIN Registry
  BY PropertiesAssumption
<1>2. /\ name \notin Keys(request) => ~Full(b)
      /\ name \in Keys(request) => v \in Json /\ b = FromJson[<<name, v>>] /\ Full(b)
  BY <1>1, MemberOfRequest DEF RequestRead
<1>3. Sent(name) = IF name \in Keys(request) THEN v ELSE NoId
  BY RequestsAssumption DEF Sent, RequestRead
<1>4. Has(name) <=> Full(b)
  BY DEF Has, Entry
<1>5. Has(name) <=> Sent(name) # NoId
  BY <1>2, <1>3, <1>4, RequestsAssumption
<1>6. ASSUME Has(name)
      PROVE  /\ Sent(name) \in Json
             /\ HoldsProperty(name) <=> Kind(Sent(name)) = "scalar"
             /\ HoldsProperty(name) =>
                  /\ Holds(name, type) <=> Fits(type, Sent(name))
                  /\ Holds(name, type) => Body(Body(bag)[name])[2] = Body(Sent(name))
  <2>1. Sent(name) = v /\ v \in Json /\ b = FromJson[<<name, v>>]
    BY <1>2, <1>3, <1>4, <1>6
  <2>2. /\ Kind(b) = "property" <=> Kind(v) = "scalar"
        /\ Kind(v) = "scalar" => Body(b) = IF Fits(type, v) THEN <<type, Body(v)>> ELSE NoValue
    BY <1>1, <2>1, PropertyOfRequest
  <2>3. HoldsProperty(name) <=> Kind(b) = "property"
    BY DEF HoldsProperty, Entry
  <2>4. Holds(name, type) <=> Body(b) # NoValue /\ Body(b)[1] = type
    BY DEF Holds, Entry
  <2>5. Body(Body(bag)[name]) = Body(b)
    BY DEF Entry
  <2> HIDE DEF v, b
  <2>6. \A x : <<type, x>> # NoValue /\ <<type, x>>[1] = type /\ <<type, x>>[2] = x
    BY DEF NoValue
  <2>7. ASSUME HoldsProperty(name)
        PROVE  /\ Holds(name, type) <=> Fits(type, v)
               /\ Holds(name, type) => Body(b)[2] = Body(v)
    <3>1. Body(b) = IF Fits(type, v) THEN <<type, Body(v)>> ELSE NoValue
      BY <2>2, <2>3, <2>7
    <3> QED BY <2>4, <2>6, <3>1
  <2> QED BY <2>1, <2>2, <2>3, <2>5, <2>7
<1> QED BY <1>5, <1>6

(* What fits an int and a string.                                          *)
LEMMA FittingInts ==
  ASSUME NEW v
  PROVE  /\ Fits("int", v) <=> Kind(v) = "scalar" /\ Body(v)[1] \in {"int", "negative"}
         /\ Fits("string", v) <=> Kind(v) = "scalar" /\ Body(v)[1] = "string"
BY DEF Fits, Accepted

LEMMA ScalarValues ==
  ASSUME NEW v \in Json, Kind(v) = "scalar"
  PROVE  /\ Body(v)[1] \in {"int", "negative"} => Body(v)[2] \in Int
         /\ Body(v)[1] = "string" => Body(v)[2] \in Texts
<1>1. Body(v) \in Scalars
  BY JsonClosed, JsonNode
<1> QED BY <1>1 DEF Scalars

-----------------------------------------------------------------------------
(* The inductive invariant.                                                *)
AllCommands == GlobalCommands \cup ProcessCommands

TypeOK ==
  /\ asserts \in BOOLEAN
  /\ pc \in {"idle", "parse", "id", "command", "handle", "respond", "answered", "terminated"}
  /\ request \in Requests \cup {NotJson}
  /\ handlers \subseteq AllCommands
  /\ known \in BOOLEAN
  /\ bag \in Bags /\ id \in Int /\ key \in Texts \cup {""}
  /\ Listed
  /\ response \in Bags
  /\ out \in Json \cup {Nothing}

(* The handlers read the bag of the request.                               *)
IsRead == pc \in {"id", "command", "handle", "respond"} => RequestRead

(* The id is the one that was sent, which is an int if there is one.       *)
IdIsRead ==
  /\ pc \in {"idle", "parse", "id"} => id = 0
  /\ pc \in {"command", "handle", "respond"} =>
       /\ id = SentId
       /\ Sent("request.id") = NoId \/ IsInt(Sent("request.id"))

(* So is the command, which has a handler when a response is written.      *)
Asked == Body(Sent("request.request"))[2]

KeyIsRead ==
  /\ pc \in {"handle", "respond"} => IsString(Sent("request.request")) /\ key = Asked
  /\ pc = "respond" => key \in AllCommands

(* An answer is a success or a failure, each with what led to it.          *)
Proper ==
  /\ IsString(Sent("request.request"))
  /\ Sent("request.id") = NoId \/ IsInt(Sent("request.id"))

OddCommand ==
  /\ Sent("request.request") # NoId
  /\ Kind(Sent("request.request")) = "scalar"
  /\ ~IsString(Sent("request.request"))

Reasons == {"exception", "Not a JSON object", "Unsupported request", "Ill-formed request"}

SuccessTells ==
  /\ response = Handled /\ out = ToJson[response]
  /\ Proper /\ id = SentId /\ key = Asked /\ key \in AllCommands

Served == Asked \in handlers /\ (Asked \in ProcessCommands => known)

FailureTells ==
  /\ \E n \in {0, SentId} : \E reason \in Reasons :
       out = FailJson(n, reason) /\ (n = SentId \/ OddCommand)
  /\ ~(Proper /\ Served)

IsAnswered == pc = "answered" => SuccessTells \/ FailureTells

IInv == TypeOK /\ IsRead /\ IdIsRead /\ KeyIsRead /\ IsAnswered /\ OnlyFaultsTerminate
(* What was sent, and the answer to it, while the request is the same.     *)
LEMMA SentKept ==
  ASSUME request' = request
  PROVE  /\ Sent("request.id")' = Sent("request.id")
         /\ Sent("request.request")' = Sent("request.request")
         /\ SentId' = SentId /\ Asked' = Asked
         /\ Proper' = Proper /\ OddCommand' = OddCommand
<1>1. /\ Sent("request.id")' = Sent("request.id")
      /\ Sent("request.request")' = Sent("request.request")
  BY DEF Sent
<1> QED BY <1>1 DEF SentId, Asked, Proper, OddCommand

LEMMA HandledKept ==
  ASSUME id' = id, key' = key, listed' = listed
  PROVE  Handled' = Handled
<1>1. ProcessLists' = ProcessLists
  BY DEF ProcessLists
<1>2. \A t : Succeeded(t)' = Succeeded(t)
  BY DEF Succeeded
<1> QED BY <1>1, <1>2 DEF Handled, Succeeded

(* The types of what was sent, and of the answer that fails.               *)
LEMMA SentIsJson ==
  ASSUME request \in Json \cup {NotJson}, NEW name
  PROVE  Sent(name) \in Json \cup {NoId}
<1>1. CASE request # NotJson /\ Kind(request) = "object" /\ name \in Keys(request)
  <2>1. Body(request) \in Seq(Names \X Json)
    BY <1>1, JsonClosed, JsonNode
  <2>2. FirstOf(request, name) \in Json
    BY <1>1, <2>1, Members
  <2> QED BY <1>1, <2>2 DEF Sent
<1>2. CASE ~(request # NotJson /\ Kind(request) = "object" /\ name \in Keys(request))
  BY <1>2 DEF Sent
<1> QED BY <1>1, <1>2

LEMMA SentIdIsInt ==
  ASSUME request \in Json \cup {NotJson}
  PROVE  SentId \in Int
<1> DEFINE w == Sent("request.id")
<1>1. w \in Json \cup {NoId}
  BY SentIsJson
<1>2. SentId = IF IsInt(w) THEN Body(w)[2] ELSE 0
  BY DEF SentId
<1> HIDE DEF w
<1>3. IsInt(w) => Body(w)[2] \in Int
  BY <1>1, ScalarValues DEF IsInt
<1> QED BY <1>2, <1>3

LEMMA RequestTypes ==
  ASSUME TypeOK
  PROVE  request \in Json \cup {NotJson}
BY RequestsAssumption DEF TypeOK

LEMMA FailureIsJson ==
  ASSUME NEW n \in Int, NEW reason \in Reasons
  PROVE  /\ FailJson(n, reason) \in Json /\ Keyed[FailJson(n, reason)]
         /\ Body(FirstOf(FailJson(n, reason), "request.id"))[2] = n
         /\ Body(FirstOf(FailJson(n, reason), "response.status"))[2] = "fail"
<1>1. reason \in Texts
  BY TextsAssumption DEF Reasons
<1> QED BY <1>1, FailTold

LEMMA ZeroIsInt == 0 \in Int
OBVIOUS

LEMMA ZeroOrInt ==
  ASSUME NEW a \in Int, NEW n \in {0, a}
  PROVE  n \in Int
OBVIOUS

(* A step that answers with a failure.                                     *)
LEMMA FailStep ==
  ASSUME TypeOK, UNCHANGED Local, NEW n \in {0, SentId}, NEW reason \in Reasons,
         Fail(n, reason), bag' \in Bags, id' \in Int, key' \in Texts \cup {""},
         n = SentId \/ OddCommand, ~(Proper /\ Served)
  PROVE  IInv'
<1>1. n \in Int
  <2>1. SentId \in Int
    BY SentIdIsInt, RequestTypes
  <2> QED BY ONLY <2>1, n \in {0, SentId}, ZeroOrInt
<1>2. out' = FailJson(n, reason) /\ pc' = "answered"
  BY DEF Fail
<1>3. out' \in Json
  BY <1>1, <1>2, FailureIsJson
<1>4. /\ asserts' = asserts /\ request' = request /\ handlers' = handlers
      /\ known' = known /\ listed' = listed /\ response' = response
  BY DEF Local, Frame
<1>5. TypeOK'
  BY <1>2, <1>3, <1>4 DEF TypeOK, Listed
<1>6. SentId' = SentId /\ Asked' = Asked /\ Proper' = Proper /\ OddCommand' = OddCommand
  BY <1>4, SentKept
<1>7. FailureTells'
  <2>1. \E m \in {0, SentId'} : \E r \in Reasons :
          out' = FailJson(m, r) /\ (m = SentId' \/ OddCommand')
    BY <1>2, <1>6
  <2>2. ~(Proper' /\ Served')
    BY <1>4, <1>6 DEF Served
  <2> QED BY <2>1, <2>2 DEF FailureTells
<1> QED BY <1>2, <1>5, <1>7 DEF IInv, IsRead, IdIsRead, KeyIsRead, IsAnswered,
        OnlyFaultsTerminate

(* A step that ends the program.                                           *)
LEMMA TerminateStep ==
  ASSUME TypeOK, UNCHANGED <<asserts, request, handlers, known, bag, id, key>>, Terminate,
         response' \in Bags, Listed',
         \/ Sent("request.id") # NoId /\ Kind(Sent("request.id")) # "scalar"
         \/ asserts /\ key = "diff_processes"
         \/ asserts /\ key \in ProcessCommands /\ ~known
         \/ key = "diff_processes" /\ listed'.removed # << >>
  PROVE  IInv'
<1>1. pc' = "terminated" /\ out' = out
  BY DEF Terminate
<1>2. TypeOK'
  BY <1>1 DEF TypeOK
<1>3. OnlyFaultsTerminate'
  BY SentKept DEF OnlyFaultsTerminate
<1> QED BY <1>1, <1>2, <1>3 DEF IInv, IsRead, IdIsRead, KeyIsRead, IsAnswered

(* The steps, one by one.                                                  *)
LEMMA InitStep ==
  ASSUME Init
  PROVE  IInv
<1>1. /\ pc = "idle" /\ asserts \in BOOLEAN /\ handlers = AllCommands /\ request = NotJson
      /\ known = TRUE /\ bag = NoBag /\ id = 0 /\ key = "" /\ listed = NothingListed
      /\ response = NewTable /\ out = Nothing
  BY DEF Init, AllCommands
<1>2. NothingListed \in [processes : Seq(Infos), removed : Seq(Int)]
  BY DEF NothingListed
<1>3. NewTable \in Bags
  BY NewTableIs, TableIsBag, TwoLevels
<1> HIDE DEF NothingListed, NewTable
<1>4. TypeOK
  <2>1. bag \in Bags /\ response \in Bags /\ Listed
    BY <1>1, <1>2, <1>3, NoBagIsBag DEF Listed
  <2>2. /\ asserts \in BOOLEAN /\ known \in BOOLEAN
        /\ request \in Requests \cup {NotJson} /\ handlers \subseteq AllCommands
    BY <1>1
  <2>3. pc \in {"idle", "parse", "id", "command", "handle", "respond", "answered", "terminated"}
    BY <1>1
  <2>4. id \in Int
    BY <1>1, ZeroIsInt, Zenon
  <2>5. key \in Texts \cup {""} /\ out \in Json \cup {Nothing}
    BY <1>1
  <2> QED BY <2>1, <2>2, <2>3, <2>4, <2>5 DEF TypeOK
<1> QED BY <1>1, <1>4 DEF IInv, IsRead, IdIsRead, KeyIsRead, IsAnswered, OnlyFaultsTerminate

LEMMA UnregisterStep ==
  ASSUME IInv, Unregister
  PROVE  IInv'
<1>1. PICK c \in handlers : handlers' = handlers \ {c}
  BY DEF Unregister
<1>2. /\ pc # "terminated" /\ pc' = pc /\ asserts' = asserts /\ request' = request /\ bag' = bag
      /\ known' = known /\ id' = id /\ key' = key /\ listed' = listed /\ response' = response /\ out' = out
  BY DEF Unregister
<1>3. /\ Sent("request.id")' = Sent("request.id")
      /\ Sent("request.request")' = Sent("request.request")
      /\ SentId' = SentId /\ Asked' = Asked /\ Proper' = Proper /\ OddCommand' = OddCommand
  BY <1>2, SentKept
<1>4. TypeOK'
  BY <1>1, <1>2 DEF IInv, TypeOK, Listed
<1>5. IsRead' /\ IdIsRead' /\ KeyIsRead'
  BY <1>2, <1>3 DEF IInv, IsRead, IdIsRead, KeyIsRead, RequestRead
<1>6. IsAnswered'
  <2>1. SuccessTells => SuccessTells'
    BY <1>2, <1>3, HandledKept DEF SuccessTells
  <2>2. FailureTells => FailureTells'
    BY <1>1, <1>2, <1>3 DEF FailureTells, Served
  <2> QED BY <1>2, <2>1, <2>2 DEF IInv, IsAnswered
<1> QED BY <1>2, <1>4, <1>5, <1>6 DEF IInv, OnlyFaultsTerminate

LEMMA EndSessionStep ==
  ASSUME IInv, EndSession
  PROVE  IInv'
<1>1. /\ pc # "terminated" /\ pc' = pc /\ asserts' = asserts /\ request' = request
      /\ handlers' = handlers /\ known /\ known' = FALSE /\ bag' = bag
      /\ id' = id /\ key' = key /\ listed' = listed /\ response' = response /\ out' = out
  BY DEF EndSession
<1>2. /\ Sent("request.id")' = Sent("request.id")
      /\ Sent("request.request")' = Sent("request.request")
      /\ SentId' = SentId /\ Asked' = Asked /\ Proper' = Proper /\ OddCommand' = OddCommand
  BY <1>1, SentKept
<1>3. TypeOK'
  BY <1>1 DEF IInv, TypeOK, Listed
<1>4. IsRead' /\ IdIsRead' /\ KeyIsRead'
  BY <1>1, <1>2 DEF IInv, IsRead, IdIsRead, KeyIsRead, RequestRead
<1>5. IsAnswered'
  <2>1. SuccessTells => SuccessTells'
    BY <1>1, <1>2, HandledKept DEF SuccessTells
  <2>2. FailureTells => FailureTells'
    BY <1>1, <1>2 DEF FailureTells, Served
  <2> QED BY <1>1, <2>1, <2>2 DEF IInv, IsAnswered
<1> QED BY <1>1, <1>3, <1>4, <1>5 DEF IInv, OnlyFaultsTerminate

LEMMA ReceiveStep ==
  ASSUME IInv, NEW r \in Requests, Receive(r)
  PROVE  IInv'
<1>1. /\ pc = "idle" /\ pc' = "parse" /\ request' = r
      /\ known' = TRUE
      /\ UNCHANGED <<asserts, handlers, bag, id, key, listed, response, out>>
  BY DEF Receive
<1>2. TypeOK'
  BY <1>1 DEF IInv, TypeOK, Listed
<1>3. id' = 0
  BY <1>1 DEF IInv, IdIsRead
<1> QED BY <1>1, <1>2, <1>3 DEF IInv, IsRead, IdIsRead, KeyIsRead, IsAnswered,
        OnlyFaultsTerminate

LEMMA ReturnStep ==
  ASSUME IInv, Return
  PROVE  IInv'
<1>1. /\ pc' = "idle" /\ request' = NotJson /\ bag' = NoBag /\ id' = 0 /\ key' = ""
      /\ listed' = NothingListed /\ response' = NewTable /\ out' = Nothing
      /\ asserts' = asserts /\ handlers' = handlers /\ known' = known
  BY DEF Return
<1>2. NothingListed \in [processes : Seq(Infos), removed : Seq(Int)]
  BY DEF NothingListed
<1>3. NewTable \in Bags
  BY NewTableIs, TableIsBag, TwoLevels
<1> HIDE DEF NothingListed, NewTable
<1>4. TypeOK'
  <2>1. bag' \in Bags /\ response' \in Bags /\ Listed'
    BY <1>1, <1>2, <1>3, NoBagIsBag DEF Listed
  <2>2. /\ asserts' \in BOOLEAN /\ known' \in BOOLEAN
        /\ request' \in Requests \cup {NotJson} /\ handlers' \subseteq AllCommands
    BY <1>1 DEF IInv, TypeOK
  <2>3. pc' \in {"idle", "parse", "id", "command", "handle", "respond", "answered", "terminated"}
    BY <1>1
  <2>4. id' \in Int
    BY <1>1, ZeroIsInt, Zenon
  <2>5. key' \in Texts \cup {""} /\ out' \in Json \cup {Nothing}
    BY <1>1
  <2> QED BY <2>1, <2>2, <2>3, <2>4, <2>5 DEF TypeOK
<1> QED BY <1>1, <1>4 DEF IInv, IsRead, IdIsRead, KeyIsRead, IsAnswered, OnlyFaultsTerminate
(* Two properties are known, by type.                                      *)
LEMMA Known ==
  /\ "request.id" \in KnownProperties /\ Registry["request.id"].type = "int"
  /\ "request.request" \in KnownProperties /\ Registry["request.request"].type = "string"
<1>1. "request.id" \in IntProperties /\ "request.request" \in TextProperties
  BY DEF IntProperties, TextProperties
<1> QED BY <1>1, PropertiesAssumption DEF KnownProperties

(* Without an object, nothing was sent.                                    *)
LEMMA NothingSent ==
  ASSUME request = NotJson \/ Kind(request) # "object"
  PROVE  SentId = 0 /\ ~Proper
<1>1. Sent("request.id") = NoId /\ Sent("request.request") = NoId
  BY DEF Sent
<1> QED BY <1>1 DEF SentId, Proper, IsInt, IsString

LEMMA ZeroIsSent ==
  ASSUME SentId = 0
  PROVE  0 \in {0, SentId} /\ (0 = SentId \/ OddCommand)
BY Zenon

LEMMA ParseThrowsStep ==
  ASSUME IInv, ParseThrows
  PROVE  IInv'
<1>1. request = NotJson /\ Throw /\ UNCHANGED <<Local, bag, id, key>>
  BY DEF ParseThrows
<1>2. SentId = 0 /\ ~Proper
  BY <1>1, NothingSent
<1>3. Fail(0, "exception") /\ "exception" \in Reasons
  BY <1>1 DEF Throw, Reasons
<1>4. TypeOK /\ bag' \in Bags /\ id' \in Int /\ key' \in Texts \cup {""}
  BY <1>1 DEF IInv, TypeOK
<1>5. UNCHANGED Local
  BY <1>1
<1> QED BY <1>2, <1>3, <1>4, <1>5, FailStep, ZeroIsSent

LEMMA ParseStep ==
  ASSUME IInv, Parse
  PROVE  IInv'
<1>1. /\ pc = "parse" /\ request # NotJson
      /\ bag' = FromJson[<<"", request>>]
      /\ UNCHANGED Local /\ id' = id /\ key' = key
  BY DEF Parse
<1>2. IF Kind(bag') = "table" THEN pc' = "id" /\ out' = out
                              ELSE Fail(0, "Not a JSON object")
  BY DEF Parse
<1>3. /\ asserts' = asserts /\ request' = request /\ handlers' = handlers
      /\ known' = known /\ listed' = listed /\ response' = response
  BY <1>1 DEF Local, Frame
<1>4. TypeOK /\ request \in Json
  BY <1>1, RequestTypes DEF IInv
<1>5. bag' = BagFromJson(FromJson, "", request)
  BY <1>1, <1>4, EmptyNameIn, FromJsonUnfolds
<1>6. bag' \in Bags
  <2>1. MaxDepth \in 0..MaxDepth
    BY DepthAssumption
  <2>2. <<"", request>> \in Names \X Json
    BY <1>4, EmptyNameIn
  <2>3. <<"", request>> \in Readable(MaxDepth)
    BY <2>1, <2>2, ReadableGrows
  <2> QED BY <1>1, <2>1, <2>3, FromJsonIsBag DEF Bags
<1>7. Kind(bag') = "table" <=> Kind(request) = "object"
  <2>1. CASE Kind(request) = "object"
    <3>1. bag' = Bag("", "table", TableFromJson(FromJson, request))
      BY <1>5, <2>1 DEF BagFromJson
    <3>2. Kind(bag') = "table"
      BY <3>1 DEF Bag, Kind
    <3> QED BY <2>1, <3>2
  <2>2. CASE Kind(request) = "array"
    <3>1. bag' = Bag("", "array", ArrayFromJson(FromJson, "", request))
      BY <1>5, <2>2 DEF BagFromJson
    <3>2. Kind(bag') = "array"
      BY <3>1 DEF Bag, Kind
    <3> QED BY <2>2, <3>2
  <2>3. CASE Kind(request) \notin {"object", "array"}
    <3>1. bag' = Bag("", "property", PropertyFromJson("", request))
      BY <1>5, <2>3 DEF BagFromJson
    <3>2. Kind(bag') = "property"
      BY <3>1 DEF Bag, Kind
    <3> QED BY <2>3, <3>2
  <2> QED BY <2>1, <2>2, <2>3
<1>8. id' \in Int /\ key' \in Texts \cup {""} /\ id' = 0
  BY <1>1 DEF IInv, TypeOK, IdIsRead
<1>9. CASE Kind(bag') = "table"
  <2>1. pc' = "id" /\ out' = out
    BY <1>2, <1>9
  <2>2. TypeOK'
    BY <1>3, <1>4, <1>6, <1>8, <2>1 DEF TypeOK, Listed
  <2>3. RequestRead'
    BY <1>1, <1>3, <1>4, <1>7, <1>9 DEF RequestRead
  <2> QED BY <1>8, <2>1, <2>2, <2>3
          DEF IInv, IsRead, IdIsRead, KeyIsRead, IsAnswered, OnlyFaultsTerminate
<1>10. CASE Kind(bag') # "table"
  <2>1. Fail(0, "Not a JSON object") /\ "Not a JSON object" \in Reasons
    BY <1>2, <1>10 DEF Reasons
  <2>2. SentId = 0 /\ ~Proper
    BY <1>7, <1>10, NothingSent
  <2> QED BY <1>1, <1>4, <1>6, <1>8, <2>1, <2>2, FailStep, ZeroIsSent
<1> QED BY <1>9, <1>10

LEMMA ReadIdStep ==
  ASSUME IInv, ReadId
  PROVE  IInv'
<1> DEFINE sent == Sent("request.id")
<1>1. pc = "id" /\ UNCHANGED Local /\ bag' = bag /\ key' = key
  BY DEF ReadId
<1>2. /\ asserts' = asserts /\ request' = request /\ handlers' = handlers
      /\ known' = known /\ listed' = listed /\ response' = response
  BY <1>1 DEF Local, Frame
<1>3. TypeOK /\ RequestRead /\ id = 0
  BY <1>1 DEF IInv, IsRead, IdIsRead
<1>4. /\ Has("request.id") <=> sent # NoId
      /\ Has("request.id") =>
           /\ sent \in Json
           /\ HoldsProperty("request.id") <=> Kind(sent) = "scalar"
           /\ HoldsProperty("request.id") =>
                /\ Holds("request.id", "int") <=> Fits("int", sent)
                /\ Holds("request.id", "int") =>
                     Body(Body(bag)["request.id"])[2] = Body(sent)
  BY <1>3, SentIs, Known
<1>5. SentId' = SentId /\ Sent("request.id")' = Sent("request.id")
  BY <1>2, SentKept
<1>6. bag' \in Bags /\ key' \in Texts \cup {""}
  BY <1>1, <1>3 DEF TypeOK
<1>7. ASSUME pc' = "command", out' = out, id' = SentId, sent = NoId \/ IsInt(sent)
      PROVE  IInv'
  <2>1. SentId \in Int
    BY <1>3, RequestTypes, SentIdIsInt
  <2>2. TypeOK'
    BY <1>1, <1>2, <1>3, <1>7, <2>1 DEF TypeOK, Listed
  <2>3. RequestRead'
    BY <1>1, <1>2, <1>3 DEF RequestRead
  <2>4. IdIsRead'
    BY <1>5, <1>7 DEF IdIsRead
  <2> QED BY <1>7, <2>2, <2>3, <2>4
          DEF IInv, IsRead, KeyIsRead, IsAnswered, OnlyFaultsTerminate
<1>8. CASE ~Has("request.id") /\ pc' = "command" /\ UNCHANGED <<id, out>>
  <2>1. SentId = 0
    BY <1>4, <1>8 DEF SentId, IsInt
  <2> QED BY <1>3, <1>4, <1>7, <1>8, <2>1
<1>9. CASE Has("request.id") /\ ~HoldsProperty("request.id") /\ Terminate /\ id' = id
  <2>1. sent # NoId /\ Kind(sent) # "scalar"
    BY <1>4, <1>9
  <2>2. response' \in Bags /\ Listed'
    BY <1>2, <1>3 DEF TypeOK, Listed
  <2> QED BY <1>1, <1>2, <1>3, <1>9, <2>1, <2>2, TerminateStep
<1>10. CASE /\ Has("request.id") /\ HoldsProperty("request.id")
            /\ Holds("request.id", "int")
            /\ id' = Body(Body(bag)["request.id"])[2][2]
            /\ pc' = "command" /\ out' = out
  <2>1. Fits("int", sent) /\ sent # NoId
    BY <1>4, <1>10
  <2>2. IsInt(sent)
    BY <2>1, FittingInts DEF IsInt
  <2>3. id' = Body(sent)[2]
    BY <1>4, <1>10
  <2>4. id' = SentId
    BY <2>2, <2>3 DEF SentId
  <2> QED BY <1>7, <1>10, <2>2, <2>4
<1>11. CASE /\ Has("request.id") /\ HoldsProperty("request.id")
            /\ ~Holds("request.id", "int")
            /\ Throw /\ id' = id
  <2>1. ~Fits("int", sent) /\ sent # NoId
    BY <1>4, <1>11
  <2>2. ~IsInt(sent)
    BY <2>1, FittingInts DEF IsInt
  <2>3. SentId = 0 /\ ~Proper
    BY <2>1, <2>2 DEF SentId, Proper
  <2>4. Fail(0, "exception") /\ "exception" \in Reasons
    BY <1>11 DEF Throw, Reasons
  <2>5. id' \in Int
    BY <1>3, <1>11 DEF TypeOK
  <2> QED BY <1>1, <1>3, <1>6, <2>3, <2>4, <2>5, FailStep, ZeroIsSent
<1> QED BY <1>8, <1>9, <1>10, <1>11 DEF ReadId

LEMMA FindCommandStep ==
  ASSUME IInv, FindCommand
  PROVE  IInv'
<1> DEFINE sent == Sent("request.request")
<1>1. pc = "command" /\ UNCHANGED Local /\ bag' = bag /\ id' = id
  BY DEF FindCommand
<1>2. /\ asserts' = asserts /\ request' = request /\ handlers' = handlers
      /\ known' = known /\ listed' = listed /\ response' = response
  BY <1>1 DEF Local, Frame
<1>3. /\ TypeOK /\ RequestRead /\ id = SentId
      /\ Sent("request.id") = NoId \/ IsInt(Sent("request.id"))
  BY <1>1 DEF IInv, IsRead, IdIsRead
<1>4. /\ Has("request.request") <=> sent # NoId
      /\ Has("request.request") =>
           /\ sent \in Json
           /\ HoldsProperty("request.request") <=> Kind(sent) = "scalar"
           /\ HoldsProperty("request.request") =>
                /\ Holds("request.request", "string") <=> Fits("string", sent)
                /\ Holds("request.request", "string") =>
                     Body(Body(bag)["request.request"])[2] = Body(sent)
  BY <1>3, SentIs, Known
<1>5. /\ SentId' = SentId /\ Asked' = Asked
      /\ Sent("request.id")' = Sent("request.id")
      /\ Sent("request.request")' = Sent("request.request")
  BY <1>2, SentKept
<1>6. bag' \in Bags /\ key \in Texts \cup {""} /\ id' \in Int
  BY <1>1, <1>3 DEF TypeOK
<1>7. SentId \in {0, SentId}
  BY Zenon
<1>8. CASE ~Has("request.request") /\ Fail(id, "Unsupported request") /\ key' = key
  <2>1. ~Proper
    BY <1>4, <1>8 DEF Proper, IsString
  <2>2. Fail(SentId, "Unsupported request") /\ "Unsupported request" \in Reasons
    BY <1>3, <1>8 DEF Reasons
  <2> QED BY <1>1, <1>3, <1>6, <1>7, <1>8, <2>1, <2>2, FailStep
<1>9. CASE /\ Has("request.request") /\ ~HoldsProperty("request.request")
           /\ Fail(id, "Ill-formed request") /\ key' = key
  <2>1. ~Proper
    BY <1>4, <1>9 DEF Proper, IsString
  <2>2. Fail(SentId, "Ill-formed request") /\ "Ill-formed request" \in Reasons
    BY <1>3, <1>9 DEF Reasons
  <2> QED BY <1>1, <1>3, <1>6, <1>7, <1>9, <2>1, <2>2, FailStep
<1>10. CASE /\ Has("request.request") /\ HoldsProperty("request.request")
            /\ Holds("request.request", "string")
            /\ key' = Body(Body(bag)["request.request"])[2][2]
            /\ pc' = "handle" /\ out' = out
  <2>1. /\ Fits("string", sent) /\ sent # NoId /\ sent \in Json
        /\ Body(Body(bag)["request.request"])[2] = Body(sent)
    BY <1>4, <1>10
  <2>2. IsString(sent)
    BY <2>1, FittingInts DEF IsString
  <2>3. key' = Body(sent)[2] /\ key' = Asked
    BY <1>10, <2>1 DEF Asked
  <2>4. key' \in Texts \cup {""}
    BY <2>1, <2>2, <2>3, ScalarValues DEF IsString
  <2>5. TypeOK'
    BY <1>2, <1>3, <1>6, <1>10, <2>4 DEF TypeOK, Listed
  <2>6. RequestRead'
    BY <1>1, <1>2, <1>3 DEF RequestRead
  <2>7. IdIsRead'
    BY <1>1, <1>3, <1>5, <1>10 DEF IdIsRead
  <2>8. KeyIsRead'
    BY <1>5, <1>10, <2>2, <2>3 DEF KeyIsRead
  <2> QED BY <1>10, <2>5, <2>6, <2>7, <2>8
          DEF IInv, IsRead, IsAnswered, OnlyFaultsTerminate
<1>11. CASE /\ Has("request.request") /\ HoldsProperty("request.request")
            /\ ~Holds("request.request", "string")
            /\ Throw /\ key' = key
  <2>1. ~Fits("string", sent) /\ sent # NoId /\ Kind(sent) = "scalar"
    BY <1>4, <1>11
  <2>2. ~IsString(sent)
    BY <2>1, FittingInts DEF IsString
  <2>3. ~Proper /\ OddCommand
    BY <2>1, <2>2 DEF Proper, OddCommand
  <2>4. Fail(0, "exception") /\ "exception" \in Reasons
    BY <1>11 DEF Throw, Reasons
  <2>5. 0 \in {0, SentId}
    BY Zenon
  <2> QED BY <1>1, <1>3, <1>6, <1>11, <2>3, <2>4, <2>5, FailStep
<1> QED BY <1>8, <1>9, <1>10, <1>11 DEF FindCommand

LEMMA HandleStep ==
  ASSUME IInv, Handle
  PROVE  IInv'
<1>1. /\ pc = "handle" /\ pc' = "respond" /\ key \in handlers
      /\ listed' \in Listings \cup {listed}
      /\ asserts' = asserts /\ request' = request /\ handlers' = handlers /\ known' = known
      /\ bag' = bag /\ id' = id /\ key' = key /\ response' = response /\ out' = out
  BY DEF Handle, Frame
<1>2. Listed'
  BY <1>1, ListingsAssumption DEF IInv, TypeOK, Listed
<1>3. TypeOK'
  BY <1>1, <1>2 DEF IInv, TypeOK
<1>4. /\ SentId' = SentId /\ Asked' = Asked
      /\ Sent("request.id")' = Sent("request.id")
      /\ Sent("request.request")' = Sent("request.request")
  BY <1>1, SentKept
<1>5. IsRead' /\ IdIsRead'
  BY <1>1, <1>4 DEF IInv, IsRead, IdIsRead, RequestRead
<1>6. KeyIsRead'
  BY <1>1, <1>4 DEF IInv, TypeOK, KeyIsRead
<1> QED BY <1>1, <1>3, <1>5, <1>6 DEF IInv, IsAnswered, OnlyFaultsTerminate

LEMMA HandleEndedStep ==
  ASSUME IInv, HandleEnded
  PROVE  IInv'
<1>1. /\ pc = "handle" /\ key \in ProcessCommands /\ ~known
      /\ UNCHANGED Local /\ bag' = bag /\ id' = id /\ key' = key
      /\ IF asserts THEN Terminate ELSE Fail(id, "Unsupported request")
  BY DEF HandleEnded
<1>2. /\ asserts' = asserts /\ request' = request /\ handlers' = handlers
      /\ known' = known /\ listed' = listed /\ response' = response
  BY <1>1 DEF Local, Frame
<1>3. TypeOK /\ id = SentId /\ key = Asked
  BY <1>1 DEF IInv, IdIsRead, KeyIsRead
<1>4. CASE asserts /\ Terminate
  <2>1. response' \in Bags /\ Listed'
    BY <1>2, <1>3 DEF TypeOK, Listed
  <2> QED BY <1>1, <1>2, <1>3, <1>4, <2>1, TerminateStep
<1>5. CASE Fail(id, "Unsupported request")
  <2>1. bag' \in Bags /\ id' \in Int /\ key' \in Texts \cup {""}
    BY <1>1, <1>3 DEF TypeOK
  <2>2. Fail(SentId, "Unsupported request") /\ "Unsupported request" \in Reasons
    BY <1>3, <1>5 DEF Reasons
  <2>3. SentId \in {0, SentId}
    BY Zenon
  <2>4. ~(Proper /\ Served)
    BY <1>1, <1>3 DEF Served
  <2> QED BY <1>1, <1>3, <2>1, <2>2, <2>3, <2>4, FailStep
<1> QED BY <1>1, <1>4, <1>5

LEMMA SweepCrashesStep ==
  ASSUME IInv, SweepCrashes
  PROVE  IInv'
<1>1. /\ key = "diff_processes" /\ Terminate
      /\ listed' \in Listings /\ listed'.removed # << >>
      /\ asserts' = asserts /\ request' = request /\ handlers' = handlers /\ known' = known
      /\ bag' = bag /\ id' = id /\ key' = key /\ response' = response
  BY DEF SweepCrashes, Frame
<1>2. TypeOK
  BY DEF IInv
<1>3. response' \in Bags /\ Listed'
  BY <1>1, <1>2, ListingsAssumption DEF TypeOK, Listed
<1> QED BY <1>1, <1>2, <1>3, TerminateStep

LEMMA NoHandlerStep ==
  ASSUME IInv, NoHandler
  PROVE  IInv'
<1>1. /\ pc = "handle" /\ key \notin handlers
      /\ UNCHANGED Local /\ bag' = bag /\ id' = id /\ key' = key
      /\ Fail(id, "Unsupported request")
  BY DEF NoHandler
<1>2. TypeOK /\ id = SentId /\ key = Asked
  BY <1>1 DEF IInv, IdIsRead, KeyIsRead
<1>3. bag' \in Bags /\ id' \in Int /\ key' \in Texts \cup {""}
  BY <1>1, <1>2 DEF TypeOK
<1>4. Fail(SentId, "Unsupported request") /\ "Unsupported request" \in Reasons
  BY <1>1, <1>2 DEF Reasons
<1>5. SentId \in {0, SentId}
  BY Zenon
<1>6. ~(Proper /\ Served)
  BY <1>1, <1>2 DEF Served
<1> QED BY <1>1, <1>2, <1>3, <1>4, <1>5, <1>6, FailStep

(* The assertion of the writer holds for a neat bag.                       *)
LEMMA NeatIsNamedByKeys ==
  ASSUME NEW b, Neat(b)
  PROVE  NamedByKeys(b)
BY DEF Neat, NeatHere, NamedByKeys

LEMMA RespondStep ==
  ASSUME IInv, Respond
  PROVE  IInv'
<1>1. /\ pc = "respond" /\ response' = Handled
      /\ asserts' = asserts /\ request' = request /\ handlers' = handlers /\ known' = known
      /\ bag' = bag /\ id' = id /\ key' = key /\ listed' = listed
  BY DEF Respond
<1>2. /\ TypeOK /\ Listed /\ id \in Int /\ id = SentId /\ key = Asked /\ key \in AllCommands
      /\ Proper
  BY <1>1 DEF IInv, TypeOK, IdIsRead, KeyIsRead, Proper
<1>3. Answers(Handled) /\ (key # "diff_processes" => Neat(Handled))
  BY <1>2, HandledIs
<1>4. /\ SentId' = SentId /\ Asked' = Asked /\ Proper' = Proper
      /\ Sent("request.id")' = Sent("request.id")
      /\ Sent("request.request")' = Sent("request.request")
      /\ Handled' = Handled
  BY <1>1, SentKept, HandledKept
<1>5. Handled \in Bags /\ HasValues(Handled)
  BY <1>3, TableIsBag, AnswerHasValues DEF Answers
<1>6. CASE asserts /\ ~NamedByKeys(response') /\ Terminate
  <2>1. key = "diff_processes"
    BY <1>1, <1>3, <1>6, NeatIsNamedByKeys
  <2>2. response' \in Bags /\ Listed'
    BY <1>1, <1>2, <1>5 DEF Listed
  <2> QED BY <1>1, <1>2, <1>6, <2>1, <2>2, TerminateStep
<1>7. CASE out' = ToJson[response'] /\ pc' = "answered"
  <2>1. ToJson[Handled] \in Json
    BY <1>2, <1>3, SuccessTold
  <2>2. TypeOK'
    BY <1>1, <1>2, <1>5, <1>7, <2>1 DEF TypeOK, Listed
  <2>3. SuccessTells'
    BY <1>1, <1>2, <1>4, <1>7 DEF SuccessTells
  <2> QED BY <1>7, <2>2, <2>3
          DEF IInv, IsRead, IdIsRead, KeyIsRead, IsAnswered, OnlyFaultsTerminate
<1> QED BY <1>1, <1>5, <1>6, <1>7 DEF Respond

(* No step breaks the invariant.                                           *)
LEMMA StutterStep ==
  ASSUME IInv, UNCHANGED vars
  PROVE  IInv'
<1>1. /\ asserts' = asserts /\ pc' = pc /\ request' = request /\ handlers' = handlers
      /\ known' = known /\ bag' = bag /\ id' = id /\ key' = key /\ listed' = listed
      /\ response' = response /\ out' = out
  BY DEF vars
<1>2. /\ Sent("request.id")' = Sent("request.id")
      /\ Sent("request.request")' = Sent("request.request")
      /\ SentId' = SentId /\ Asked' = Asked /\ Proper' = Proper /\ OddCommand' = OddCommand
  BY <1>1, SentKept
<1>3. TypeOK'
  BY <1>1 DEF IInv, TypeOK, Listed
<1>4. IsRead' /\ IdIsRead' /\ KeyIsRead'
  BY <1>1, <1>2 DEF IInv, IsRead, IdIsRead, KeyIsRead, RequestRead
<1>5. IsAnswered'
  <2>1. SuccessTells => SuccessTells'
    BY <1>1, <1>2, HandledKept DEF SuccessTells
  <2>2. FailureTells => FailureTells'
    BY <1>1, <1>2 DEF FailureTells, Served
  <2> QED BY <1>1, <2>1, <2>2 DEF IInv, IsAnswered
<1>6. OnlyFaultsTerminate'
  BY <1>1, <1>2 DEF IInv, OnlyFaultsTerminate
<1> QED BY <1>3, <1>4, <1>5, <1>6 DEF IInv

LEMMA NextStep ==
  ASSUME IInv, [Next]_vars
  PROVE  IInv'
<1>1. CASE Unregister
  BY <1>1, UnregisterStep
<1>2. ASSUME NEW r \in Requests, Receive(r) PROVE IInv'
  BY <1>2, ReceiveStep
<1>3. CASE Parse
  BY <1>3, ParseStep
<1>4. CASE ParseThrows
  BY <1>4, ParseThrowsStep
<1>5. CASE ReadId
  BY <1>5, ReadIdStep
<1>6. CASE FindCommand
  BY <1>6, FindCommandStep
<1>7. CASE Handle
  BY <1>7, HandleStep
<1>8. CASE NoHandler
  BY <1>8, NoHandlerStep
<1>9. CASE Respond
  BY <1>9, RespondStep
<1>10. CASE Return
  BY <1>10, ReturnStep
<1>11. CASE UNCHANGED vars
  BY <1>11, StutterStep
<1>12. CASE EndSession
  BY <1>12, EndSessionStep
<1>13. CASE HandleEnded
  BY <1>13, HandleEndedStep
<1>14. CASE SweepCrashes
  BY <1>14, SweepCrashesStep
<1> QED BY <1>1, <1>2, <1>3, <1>4, <1>5, <1>6, <1>7, <1>8, <1>9, <1>10, <1>11, <1>12,
           <1>13, <1>14 DEF Next

-----------------------------------------------------------------------------
(* What the invariant says of the handlers and of the answers.             *)
LEMMA HandlersGet ==
  ASSUME IInv
  PROVE  HandlersGetTheRequest
<1>1. ASSUME RequestRead
      PROVE  /\ Agrees[<<request, bag>>]
             /\ ~HasErrors[<<"", request>>] => Whole(bag)
  BY <1>1, EmptyNameIn, RequestIsRead DEF RequestRead
<1> QED BY <1>1 DEF IInv, IsRead, HandlersGetTheRequest

(* The two kinds of answers.                                               *)
LEMMA SuccessIs ==
  ASSUME IInv, SuccessTells
  PROVE  /\ Answers(response) /\ response = Handled /\ out = ToJson[response]
         /\ out \in Json /\ Keyed[out]
         /\ Got("request.id") = SentId /\ Got("response.status") = "success"
<1>1. Listed /\ id \in Int /\ id = SentId
  BY DEF IInv, TypeOK, SuccessTells
<1>2. response = Handled /\ out = ToJson[response]
  BY DEF SuccessTells
<1>3. Answers(response)
  BY <1>1, <1>2, HandledIs
<1> QED BY <1>1, <1>2, <1>3, SuccessTold DEF Got

LEMMA FailureIs ==
  ASSUME IInv, FailureTells
  PROVE  /\ out \in Json /\ Keyed[out]
         /\ Got("response.status") = "fail"
         /\ Got("request.id") \in {0, SentId}
         /\ Got("request.id") = SentId \/ OddCommand
<1>1. PICK n \in {0, SentId}, reason \in Reasons :
        out = FailJson(n, reason) /\ (n = SentId \/ OddCommand)
  BY DEF FailureTells
<1>2. n \in Int
  <2>1. SentId \in Int
    BY SentIdIsInt, RequestTypes DEF IInv
  <2> QED BY ONLY <2>1, n \in {0, SentId}, ZeroOrInt
<1> QED BY <1>1, <1>2, FailureIsJson DEF Got

(* The invariant implies each property.                                    *)
LEMMA AnswerMatched ==
  ASSUME IInv
  PROVE  AnswerIsMatched
<1> SUFFICES ASSUME pc = "answered"
             PROVE  /\ out \in Json /\ Keyed[out]
                    /\ Got("request.id") \in {0, SentId}
                    /\ Got("request.id") = SentId \/ OddCommand
  BY DEF AnswerIsMatched, OddCommand
<1>1. SuccessTells \/ FailureTells
  BY DEF IInv, IsAnswered
<1> QED BY <1>1, SuccessIs, FailureIs

LEMMA ListIsTold ==
  ASSUME IInv, SuccessTells, Asked = "list_processes"
  PROVE  LET told == Body(FirstOf(out, "process.process_list"))
         IN  /\ Len(told) = Len(listed.processes)
             /\ \A i \in DOMAIN told :
                  /\ Body(FirstOf(told[i], "process.pid"))[2] = listed.processes[i].pid
                  /\ listed.processes[i].newcomer
                       = ("process.newcomer" \in Keys(told[i]))
                  /\ listed.processes[i].valid
                       = ("process.error" \notin Keys(told[i]))
<1> DEFINE told == Body(FirstOf(out, "process.process_list"))
           processes == listed.processes
<1>1. Listed /\ id \in Int /\ key = "list_processes"
  BY DEF IInv, TypeOK, SuccessTells
<1>2. processes \in Seq(Infos)
  BY <1>1 DEF Listed
<1>3. /\ Answers(response) /\ Neat(response) /\ out = ToJson[response]
      /\ Entry(response, "process.process_list") = ListOf(processes)
  BY <1>1, HandledIs, SuccessIs
<1>4. told = [i \in DOMAIN processes |-> ToJson[Serialized(processes[i])]]
  BY <1>2, <1>3, ListTold
<1> HIDE DEF told, processes
<1>5. Len(told) = Len(processes)
  BY <1>2, <1>4
<1>6. ASSUME NEW i \in DOMAIN told
      PROVE  /\ Body(FirstOf(told[i], "process.pid"))[2] = processes[i].pid
             /\ processes[i].newcomer = ("process.newcomer" \in Keys(told[i]))
             /\ processes[i].valid = ("process.error" \notin Keys(told[i]))
  <2>1. processes[i] \in Infos /\ told[i] = ToJson[Serialized(processes[i])]
    BY <1>2, <1>4, <1>6
  <2> QED BY <2>1, ProcessWritten
<1> QED BY <1>5, <1>6 DEF told, processes

LEMMA OutcomeTold ==
  ASSUME IInv
  PROVE  AnswerTellsOutcome
<1> DEFINE proper == /\ IsString(Sent("request.request"))
                     /\ Sent("request.id") = NoId \/ IsInt(Sent("request.id"))
           asked == Body(Sent("request.request"))[2]
           served == asked \in handlers /\ (asked \in ProcessCommands => known)
           told == Body(FirstOf(out, "process.process_list"))
           Telling == /\ Len(told) = Len(listed.processes)
                      /\ \A i \in DOMAIN told :
                           /\ Body(FirstOf(told[i], "process.pid"))[2]
                                = listed.processes[i].pid
                           /\ listed.processes[i].newcomer
                                = ("process.newcomer" \in Keys(told[i]))
                           /\ listed.processes[i].valid
                                = ("process.error" \notin Keys(told[i]))
           status == Got("response.status")
<1>1. proper <=> Proper
  BY DEF Proper
<1>2. asked = Asked
  BY DEF Asked
<1>3. ASSUME SuccessTells, asked = "list_processes"
      PROVE  Telling
  BY <1>2, <1>3, ListIsTold
<1>4. SuccessTells => status = "success" /\ proper /\ asked \in AllCommands
  BY <1>1, <1>2, SuccessIs DEF SuccessTells
<1>5. FailureTells => status = "fail" /\ ~(proper /\ served)
  BY <1>1, <1>2, FailureIs DEF FailureTells, Served
<1>6. pc = "answered" => SuccessTells \/ FailureTells
  BY DEF IInv, IsAnswered
<1> HIDE DEF proper, asked, served, Telling, status
<1>7. pc = "answered" =>
        /\ status \in {"success", "fail"}
        /\ status = "success" => proper /\ asked \in GlobalCommands \cup ProcessCommands
        /\ status = "fail" => ~(proper /\ served)
        /\ status = "success" /\ asked = "list_processes" => Telling
  <2>1. "success" # "fail"
    OBVIOUS
  <2> QED BY <1>3, <1>4, <1>5, <1>6, <2>1 DEF AllCommands
<1> QED BY <1>7 DEF AnswerTellsOutcome, proper, asked, served, Telling, status

LEMMA AnswerRead ==
  ASSUME IInv
  PROVE  AnswerIsReadBack
<1> SUFFICES ASSUME pc = "answered", Got("response.status") = "success",
                    NamedByKeys(response)
             PROVE  FromJson[<<"", out>>] = Registered[response]
  BY DEF AnswerIsReadBack
<1>1. SuccessTells
  <2>1. "success" # "fail"
    OBVIOUS
  <2> QED BY <2>1, FailureIs DEF IInv, IsAnswered
<1>2. Answers(response) /\ response = Handled /\ out = ToJson[response]
  BY <1>1, SuccessIs
<1>3. Listed /\ id \in Int
  BY DEF IInv, TypeOK
<1>4. key # "diff_processes"
  <2> SUFFICES ASSUME key = "diff_processes" PROVE FALSE
    OBVIOUS
  <2>1. Entry(response, "process.deleted_process_list") = Gone(listed.removed)
    BY <1>2, <1>3, HandledIs
  <2>2. listed.removed \in Seq(Int)
    BY <1>3 DEF Listed
  <2> QED BY <1>2, <2>1, <2>2, SecondListMisnamed
<1>5. Neat(response)
  BY <1>2, <1>3, <1>4, HandledIs
<1> QED BY <1>2, <1>5, AnswerReadBack

-----------------------------------------------------------------------------
(* The specification keeps the invariant: the types, and what each step of *)
(* process() has found out by then.                                        *)
THEOREM RequestInvariant == Spec => []IInv
<1>1. Init => IInv
  BY InitStep
<1>2. IInv /\ [Next]_vars => IInv'
  BY NextStep
<1> QED BY <1>1, <1>2, PTL DEF Spec

(* The handlers get the request the client sent, as parsed by              *)
(* propertyBagFromJson(): its members and items at their places, and       *)
(* nothing missing unless the error handler was told.                      *)
THEOREM RequestsReachHandlers == Spec => []HandlersGetTheRequest
<1>1. IInv => HandlersGetTheRequest
  BY HandlersGet
<1> QED BY <1>1, RequestInvariant, PTL

(* process() returns a JSON object with the id of the request, but for a   *)
(* command that is a scalar and not a string, which it answers with 0.     *)
THEOREM AnswersAreMatched == Spec => []AnswerIsMatched
<1>1. IInv => AnswerIsMatched
  BY AnswerMatched
<1> QED BY <1>1, RequestInvariant, PTL

(* process() tells a success of proper requests with a known command only. *)
(* It tells a failure of no proper request whose handler is there and, for *)
(* ProcessManager, which fails a session that was ended, knows the session.*)
(* The answer to list_processes tells every process found, in their order. *)
THEOREM OutcomesAreTold == Spec => []AnswerTellsOutcome
<1>1. IInv => AnswerTellsOutcome
  BY OutcomeTold
<1> QED BY <1>1, RequestInvariant, PTL

(* A successful answer of propertyBagToJson(), unless two of its bags have *)
(* one name, is read back by propertyBagFromJson() as the bag the handler  *)
(* filled, but for the properties that are not registered.                 *)
THEOREM AnswersAreReadBack == Spec => []AnswerIsReadBack
<1>1. IInv => AnswerIsReadBack
  BY AnswerRead
<1> QED BY <1>1, RequestInvariant, PTL

(* A request ends the server by a fault of the code only: the accessor of  *)
(* the id, the assertion on the second array of diff_processes, the one on *)
(* a session that was ended, or the erased iterator when a process is gone.*)
THEOREM OnlyFaultsEnd == Spec => []OnlyFaultsTerminate
<1>1. IInv => OnlyFaultsTerminate
  BY DEF IInv
<1> QED BY <1>1, RequestInvariant, PTL
=============================================================================
