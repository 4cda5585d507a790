-------------------------------- MODULE MCVariant --------------------------------
(* The store with values of every type, and what their comparisons and          *)
(* conversions promise of whatever the Variants hold.                           *)
EXTENDS VariantStore, VariantValue

(* Narrow integers of two bits and wide ones of four; a double holds integers   *)
(* of two bits exactly                                                          *)
Widths == [bytes \in {1, 2, 4, 8} |-> IF bytes = 8 THEN 4 ELSE 2]

Integer(t, n) == Value(t, n, << >>)
Double(grains) == Value("DOUBLE", grains, << >>)
Bool(n) == Value("BOOL", n, << >>)
Text(tokens) == Value("STRING", 0, tokens)

Numbers ==
    {Integer("BYTE_1", n) : n \in {-1, 1}} \cup {Integer("BYTE_8", n) : n \in {-1, 7}} \cup
    {Integer("BYTE_2", -1), Integer("BYTE_4", 1)} \cup
    {Integer("UBYTE_1", 1), Integer("UBYTE_2", 3), Integer("UBYTE_4", 1)} \cup
    {Integer("UBYTE_8", n) : n \in {7, 8, 15}} \cup
    {Double(grains) : grains \in {6, 7}}
Texts == {Text(<<Numeral(-1)>>), Text(<<Word("true")>>)}
Containers ==
    LET one == Integer("BYTE_1", 1) two == Integer("BYTE_8", 7) text == Text(<<Word("true")>>)
    IN  {FromSequence("VECTOR", s) : s \in {<<one>>, <<two, one>>, <<text>>}} \cup
        {FromSequence("LIST", << >>), Pair(text, one),
         FromMap(<<Pair(Double(6), one), Pair(Double(7), two), Pair(Double(9), two)>>)}
Others == {Bool(1), Value("BYTEARRAY", 0, <<Word("true")>>), Value("CUSTOM", 1, << >>)}
Samples == Numbers \cup Texts \cup Others \cup Containers

-------------------------------------------------------------------------------
T == INSTANCE TLC
Symmetry == T!Permutations(Variants)

(* What the Variants of the client hold, all at once *)
Held == {ValueOf(v) : v \in Variants}
Exact(a) == a.type # "DOUBLE"

(* operator== is an equivalence between all that two Variants can hold and any  *)
(* third value, doubles left out: those are equal within a tolerance, which is  *)
(* symmetric only.  The Variant converts the integers, whose width and sign     *)
(* differ, before it compares them.                                             *)
EqualIsEquivalence ==
    \A a, b \in Held :
        /\ Equal(a, a) /\ (Equal(a, b) <=> Equal(b, a))
        /\ \A c \in Contents :
               Exact(a) /\ Exact(b) /\ Exact(c) /\ Equal(a, b) /\ Equal(b, c) => Equal(a, c)

(* What the code compares in one way, item by item: integers with a sign,       *)
(* integers without, or values of one type                                      *)
Scheme(a) ==
    IF IsUnsignedNumeric(a) THEN "unsigned"
    ELSE IF IsSignedNumeric(a) /\ Exact(a) THEN "signed" ELSE a.type
RECURSIVE SameScheme(_, _)
SameScheme(a, b) ==
    /\ Scheme(a) = Scheme(b) /\ Exact(a) /\ a.type # "UNKNOWN"
    /\ a.type \in {"VECTOR", "LIST", "MAP", "PAIR"} =>
          \A i \in DOMAIN a.items \cap DOMAIN b.items : SameScheme(a.items[i], b.items[i])

(* Values compared in one way, doubles left out, are ordered as a std::map      *)
(* needs it of its keys: one of <, ==, > holds, and < is transitive, although   *)
(* operator< is computed from the two others.                                   *)
OrderWithinScheme ==
    \A a, b \in Held : SameScheme(a, b) =>
        /\ ~Equal(a, b) => (Less(a, b) <=> ~Less(b, a))
        /\ \A c \in Contents :
               SameScheme(b, c) /\ SameScheme(a, c) /\ Less(a, b) /\ Less(b, c) => Less(a, c)

(* Integers of one sign compare by what they are, however wide they are; one    *)
(* with a sign and one without do so when the former is not negative.           *)
IntegersByValue ==
    \A a, b \in Held :
        IsInteger(a) /\ IsInteger(b) /\ (Scheme(a) = Scheme(b) \/ (a.n >= 0 /\ b.n >= 0)) =>
            (Equal(a, b) <=> a.n = b.n) /\ (Greater(a, b) <=> a.n > b.n)

(* The comparisons of a Variant are an equality and an order wherever its use   *)
(* as a key of VariantMap_t, a std::map, needs them, and numbers of different   *)
(* types compare by value, as tests/testcases/20_variant.cpp:941-946 expects.   *)
ComparisonsOrder == EqualIsEquivalence /\ OrderWithinScheme /\ IntegersByValue

(* What toString() writes of an integer or a boolean is read back by the        *)
(* conversions of the text, toString() of bytes gives the text they were made   *)
(* from, and toInt64() and toUInt64() agree modulo 2^64 on every integer.       *)
TextRoundTrip ==
    \A a \in Held :
        LET text == Text(ToString(a))
        IN  /\ Scheme(a) = "signed" => ToInt64(text) = ToInt64(a) /\ ToUInt64(text) = ToUInt64(a)
            /\ Scheme(a) = "unsigned" => ToUInt64(text) = ToUInt64(a)
            /\ Scheme(a) \in {"signed", "BOOL", "STRING"} => ToBool(text) = ToBool(a)
            /\ IsInteger(a) => ToUInt64(a) = AsUnsigned(ToInt64(a))
            /\ a.type = "STRING" => ToString(Value("BYTEARRAY", 0, ToByteArray(a))) = a.items

(* "returns true if string value is \"true\" or it represents a number different  *)
(* from 0" (variant.hpp:419)                                                    *)
NumeralIsTrue ==
    \A a \in Held : IsInteger(a) /\ a.n # 0 => ToBool(Text(ToString(a)))

(* "Variants of different types will always compare as not equal"               *)
(* (variant.hpp:600-601)                                                        *)
DifferentTypesNeverEqual == \A a, b \in Held : a.type # b.type => ~Equal(a, b)

(* "vector or list values are compared by size (A.size() > B.size())", "other   *)
(* types are not supported and false is always returned" (variant.hpp:619-620)  *)
GreaterAsDocumented ==
    \A a, b \in Held : a.type = b.type /\ ~IsNumeric(a) /\ a.type \notin {"BOOL", "STRING"} =>
        (Greater(a, b) <=> a.type \in {"VECTOR", "LIST"} /\ Len(a.items) > Len(b.items))

(* A std::map of the client keeps its entries in a Variant, and two keys that   *)
(* are equal are one; toVector(), toMap() and toPair() give back what the       *)
(* Variant was made from.                                                       *)
ContainersRoundTrip ==
    \A a, b \in Held :
        LET entries == <<Pair(a, b), Pair(b, a)>>
            same == [x \in {a, b} |-> x]
            whole == [x \in {entries[1], entries[2]} |-> x]
        IN  /\ SameScheme(a, b) /\ Less(a, b) =>
                   /\ FromMap(entries).items = entries
                   /\ LET map == ToMap(FromMap(entries), same, same)
                      IN  DOMAIN map = {a, b} /\ map[a] = b /\ map[b] = a
            /\ Equal(a, b) => Len(FromMap(entries).items) = 1
            /\ ToSequence(FromSequence("VECTOR", entries), "VECTOR", whole) = entries
            /\ ToPair(Pair(a, b), same, same, << >>) = <<a, b>>

(* What is converted to a text, to bytes or to a container and back is the      *)
(* value it was, for the conversions that have a way back.                      *)
RoundTrips == TextRoundTrip /\ ContainersRoundTrip
===============================================================================
