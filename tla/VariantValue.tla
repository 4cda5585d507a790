------------------------------ MODULE VariantValue ------------------------------
(* The values a hsmcpp::Variant can hold, with their conversions and           *)
(* comparisons (variant.cpp, variant.hpp), as operators without state.         *)
(*                                                                             *)
(* A value is a record: its Variant::Type, a number, and a sequence of items.  *)
(* The number is the integer, the boolean, the double (counted in grains, see  *)
(* One) or the identity of a value of a custom type.  The items are the        *)
(* elements of a container, or the tokens of a text or byte array, which have  *)
(* the same shape and a type that is no Variant::Type.                         *)
EXTENDS Integers, Sequences

Seqs == INSTANCE SequencesExt

CONSTANTS
    Width,      \* bits of an integer that has 1, 2, 4 or 8 bytes
    Mantissa,   \* bits of an integer that a double holds exactly
    One,        \* grains in the double 1.0
    Printed,    \* grains in the last digit that std::to_string prints
    Precision   \* comparePrecision, in grains

(* Width: Mantissa < Width[8]; comparePrecision is below the last printed digit *)
ASSUME ValueAssumption ==
    /\ Width \in [{1, 2, 4, 8} -> Nat \ {0}] /\ Mantissa \in 1 .. Width[8] - 1
    /\ {One, Printed, Precision} \subseteq Nat \ {0}
    /\ Precision < Printed /\ Printed < One

Value(t, n, items) == [type |-> t, n |-> n, items |-> items]
Empty == Value("UNKNOWN", 0, << >>)

-------------------------------------------------------------------------------
(* Types *)
Signed == [BYTE_1 |-> 1, BYTE_2 |-> 2, BYTE_4 |-> 4, BYTE_8 |-> 8]
Unsigned == [UBYTE_1 |-> 1, UBYTE_2 |-> 2, UBYTE_4 |-> 4, UBYTE_8 |-> 8]
Types == DOMAIN Signed \cup DOMAIN Unsigned \cup
         {"UNKNOWN", "DOUBLE", "BOOL", "STRING", "BYTEARRAY", "LIST", "VECTOR",
          "MAP", "PAIR", "CUSTOM"}

IsSignedNumeric(a) == a.type \in DOMAIN Signed \cup {"DOUBLE"}
IsUnsignedNumeric(a) == a.type \in DOMAIN Unsigned
IsNumeric(a) == IsSignedNumeric(a) \/ IsUnsignedNumeric(a)
IsInteger(a) == IsNumeric(a) /\ a.type # "DOUBLE"

-------------------------------------------------------------------------------
(* Numbers *)
Wide == 2 ^ Width[8]
Magnitude(n) == IF n < 0 THEN -n ELSE n
Sign(n) == IF n < 0 THEN -1 ELSE 1
AsUnsigned(n) == n % Wide
AsSigned(n) == IF AsUnsigned(n) >= Wide \div 2 THEN AsUnsigned(n) - Wide ELSE AsUnsigned(n)
Nearest(n, step) == step * ((n + step \div 2) \div step)

(* static_cast<double>: what the mantissa does not hold is rounded to the      *)
(* nearest value it does, a tie to the even one                                *)
IntegerAsDouble(n) ==
    LET m == Magnitude(n)
        lost == CHOOSE e \in 0 .. Width[8] :
                    m < 2 ^ (Mantissa + e) /\ (e = 0 \/ m >= 2 ^ (Mantissa + e - 1))
        step == 2 ^ lost
        kept == m \div step
        up == 2 * (m % step) + (kept % 2) > step
    IN  One * Sign(n) * step * (IF up THEN kept + 1 ELSE kept)

(* static_cast of a double to an integer drops the fraction *)
Truncated(grains) == Sign(grains) * (Magnitude(grains) \div One)

-------------------------------------------------------------------------------
(* Texts.  std::stoll and its kin read the numeral a text begins with and      *)
(* throw when there is none, or when it is out of range; the caller then       *)
(* returns 0.  std::stoull negates modulo 2^64 what follows a minus sign.      *)
Numeral(n) == Value("int", n, << >>)
Decimal(grains) == Value("decimal", Nearest(grains, Printed), << >>)
Word(w) == Value(w, 0, << >>)
Leads(text, kind) == text # << >> /\ text[1].type = kind

Stoll(text) ==
    LET n == IF Leads(text, "decimal") THEN Truncated(text[1].n)
             ELSE IF Leads(text, "int") THEN text[1].n ELSE 0
    IN  IF n \in -(Wide \div 2) .. Wide \div 2 - 1 THEN n ELSE 0
Stoull(text) ==
    LET n == IF Leads(text, "decimal") THEN Truncated(text[1].n)
             ELSE IF Leads(text, "int") THEN text[1].n ELSE 0
    IN  IF Magnitude(n) < Wide THEN AsUnsigned(n) ELSE 0
Stod(text) ==
    IF Leads(text, "decimal") THEN text[1].n
    ELSE IF Leads(text, "int") THEN IntegerAsDouble(text[1].n) ELSE 0

-------------------------------------------------------------------------------
(* Conversions *)
ToInt64(a) ==
    CASE IsInteger(a) \/ a.type = "BOOL" -> AsSigned(a.n)
      [] a.type = "DOUBLE" -> Truncated(a.n)
      [] a.type = "STRING" -> Stoll(a.items)
      [] OTHER -> 0

(* A negative double has no defined conversion; the values used have none      *)
ToUInt64(a) ==
    CASE IsInteger(a) \/ a.type = "BOOL" -> AsUnsigned(a.n)
      [] a.type = "DOUBLE" -> AsUnsigned(Truncated(a.n))
      [] a.type = "STRING" -> Stoull(a.items)
      [] OTHER -> 0

ToDouble(a) ==
    CASE IsInteger(a) \/ a.type = "BOOL" -> IntegerAsDouble(a.n)
      [] a.type = "DOUBLE" -> a.n
      [] a.type = "STRING" -> Stod(a.items)
      [] OTHER -> 0

ToBool(a) ==
    CASE a.type = "BOOL" -> a.n = 1
      [] a.type = "STRING" -> a.items = <<Word("true")>> \/ Stoll(a.items) # 0
      [] OTHER -> ToInt64(a) # 0

(* The items of a container with separators between them.  The code writes     *)
(* one when the text so far is not empty, so it leaves it out after an item    *)
(* that has no text.                                                           *)
Joined(texts) ==
    Seqs!FoldLeft(LAMBDA text, t : IF text = << >> THEN t ELSE text \o <<Word(", ")>> \o t,
             << >>, texts)

RECURSIVE ToString(_)
ToString(a) ==
    LET text == [i \in DOMAIN a.items |-> ToString(a.items[i])]
    IN  CASE IsInteger(a) -> <<Numeral(a.n)>>
          [] a.type = "DOUBLE" -> <<Decimal(a.n)>>
          [] a.type = "BOOL" -> <<Word(IF a.n = 1 THEN "true" ELSE "false")>>
          [] a.type \in {"STRING", "BYTEARRAY"} -> a.items
          [] a.type \in {"VECTOR", "LIST"} -> Joined(text)
          [] a.type = "MAP" ->
                 Joined([i \in DOMAIN a.items |->
                            ToString(a.items[i].items[1]) \o <<Word("=[")>> \o
                            ToString(a.items[i].items[2]) \o <<Word("]")>>])
          [] a.type = "PAIR" ->
                 <<Word("(")>> \o text[1] \o <<Word(", ")>> \o text[2] \o <<Word(")")>>
          [] OTHER -> << >>

(* The bytes of a number are one token with its size as Width gives it, which  *)
(* does not say whether the type has a sign                                    *)
Bytes(size, n) == <<Value("bytes", n % 2 ^ Width[size], [i \in 1 .. size |-> Empty])>>

RECURSIVE ToByteArray(_)
ToByteArray(a) ==
    CASE a.type \in DOMAIN Signed -> Bytes(Signed[a.type], a.n)
      [] a.type \in DOMAIN Unsigned -> Bytes(Unsigned[a.type], a.n)
      [] a.type = "DOUBLE" -> <<Value("double", a.n, << >>)>>
      [] a.type = "BOOL" -> Bytes(1, a.n)
      [] a.type \in {"STRING", "BYTEARRAY"} -> a.items
      [] a.type \in {"VECTOR", "LIST", "PAIR"} ->
             Seqs!FlattenSeq([i \in DOMAIN a.items |-> ToByteArray(a.items[i])])
      [] OTHER -> << >>

-------------------------------------------------------------------------------
(* Comparisons *)

(* std::lexicographical_compare, which only uses "less" *)
LexLess(s, t, less(_, _)) ==
    LET common == DOMAIN s \cap DOMAIN t
        apart == {i \in common : less(s[i], t[i]) \/ less(t[i], s[i])}
    IN  IF apart = {} THEN Len(s) < Len(t)
        ELSE LET i == CHOOSE j \in apart : \A k \in apart : j <= k IN less(s[i], t[i])

RECURSIVE Equal(_, _), Greater(_, _)

(* compareOperator = 0: operator== of the stored type *)
SameContent(a, b) ==
    a.n = b.n /\ Len(a.items) = Len(b.items) /\ \A i \in DOMAIN a.items : Equal(a.items[i], b.items[i])

Equal(a, b) ==
    CASE a.type = "UNKNOWN" \/ b.type = "UNKNOWN" -> a.type = b.type
      [] IsNumeric(a) /\ IsNumeric(b) ->
             IF "DOUBLE" \in {a.type, b.type}
             THEN Magnitude(ToDouble(a) - ToDouble(b)) < Precision
             ELSE IF IsUnsignedNumeric(a) \/ IsUnsignedNumeric(b)
             THEN ToUInt64(a) = ToUInt64(b)
             ELSE ToInt64(a) = ToInt64(b)
      [] OTHER -> a.type = b.type /\ SameContent(a, b)

Less(a, b) == ~Equal(a, b) /\ ~Greater(a, b)

(* The order of characters is any total order: numerals before words, say      *)
TokenRank(a) ==
    CASE a.type = "int" -> 1 [] a.type = "decimal" -> 2 [] a.type = "true" -> 3
      [] a.type = "false" -> 4 [] a.type = ", " -> 5 [] a.type = "word" -> 6
      [] OTHER -> 7
TokenLess(a, b) ==
    IF TokenRank(a) = TokenRank(b) THEN a.n < b.n ELSE TokenRank(a) < TokenRank(b)

(* operator< of std::pair, which looks at the second only when neither first is *)
(* less, and of the entries of a std::map                                      *)
PairLess(p, q) == Less(p[1], q[1]) \/ (~Less(q[1], p[1]) /\ Less(p[2], q[2]))
EntryLess(p, q) == PairLess(p.items, q.items)

(* compareOperator = 1: operator> of the stored type *)
GreaterContent(a, b) ==
    /\ ~SameContent(a, b)
    /\ CASE a.type \in {"STRING", "BYTEARRAY"} -> LexLess(b.items, a.items, TokenLess)
         [] a.type \in {"VECTOR", "LIST"} -> LexLess(b.items, a.items, Less)
         [] a.type = "MAP" -> LexLess(b.items, a.items, EntryLess)
         [] a.type = "PAIR" -> PairLess(b.items, a.items)
         [] OTHER -> a.n > b.n

GreaterSigned(a, b) ==
    CASE a.type = "UNKNOWN" \/ b.type = "UNKNOWN" -> FALSE
      [] IsNumeric(a) /\ IsNumeric(b) ->
             IF "DOUBLE" \in {a.type, b.type} THEN ToDouble(a) > ToDouble(b)
             ELSE ToInt64(a) > ToInt64(b)
      [] OTHER -> a.type = b.type /\ GreaterContent(a, b)

Greater(a, b) ==
    CASE a.type = "UNKNOWN" \/ b.type = "UNKNOWN" -> FALSE
      [] IsNumeric(a) /\ IsNumeric(b) ->
             IF "DOUBLE" \in {a.type, b.type} THEN ToDouble(a) > ToDouble(b)
             ELSE IF IsUnsignedNumeric(a) \/ IsUnsignedNumeric(b)
             THEN ToUInt64(a) > ToUInt64(b)
             ELSE ToInt64(a) > ToInt64(b)
      [] OTHER -> a.type = b.type /\ GreaterContent(a, b)

-------------------------------------------------------------------------------
(* Containers of the client's own types *)
FromSequence(t, s) == Value(t, 0, s)
Pair(a, b) == Value("PAIR", 0, <<a, b>>)

(* std::map::emplace: neither key is less than the other when one is there     *)
SameKey(a, b) == ~Less(a, b) /\ ~Less(b, a)
EmplaceAlways(m, p) ==
    SelectSeq(m, LAMBDA q : ~Less(p.items[1], q.items[1])) \o <<p>> \o
    SelectSeq(m, LAMBDA q : Less(p.items[1], q.items[1]))
Emplace(m, p) ==
    IF \E i \in DOMAIN m : SameKey(m[i].items[1], p.items[1]) THEN m
    ELSE SelectSeq(m, LAMBDA q : Less(q.items[1], p.items[1])) \o <<p>> \o
         SelectSeq(m, LAMBDA q : Less(p.items[1], q.items[1]))

(* Variant(std::map<K, V>): the entries in the order of the client's map *)
FromMap(entries) == Value("MAP", 0, Seqs!FoldLeft(Emplace, << >>, entries))

(* toVector() and toList() answer for their own type only; a converter is a *)
(* function on values                                                        *)
ToSequence(a, t, converter) ==
    IF a.type = t THEN [i \in DOMAIN a.items |-> converter[a.items[i]]] ELSE << >>

(* toMap(), as a function: of two entries whose keys convert to one, the client *)
(* gets the first                                                              *)
ToMap(a, converterKey, converterValue) ==
    LET entries == IF a.type = "MAP" THEN a.items ELSE << >>
        key(i) == converterKey[entries[i].items[1]]
        First(i) == \A j \in 1 .. i - 1 : key(j) # key(i)
    IN  [k \in {key(i) : i \in DOMAIN entries} |->
            converterValue[entries[CHOOSE i \in DOMAIN entries : key(i) = k /\ First(i)].items[2]]]

ToPair(a, converterFirst, converterSecond, default) ==
    IF a.type = "PAIR" THEN <<converterFirst[a.items[1]], converterSecond[a.items[2]]>>
    ELSE default
===============================================================================
