-------------------------------- MODULE Types --------------------------------
(***************************************************************************)
(* The types of include/common/stype.hpp and src/common/stype.cpp.  The    *)
(* TypePool interns types by equality, so that a type is a value here: a   *)
(* tuple of its kind and its parts.  "int" is the type of an integer       *)
(* literal before it is determined (TypePrime::kInt).                      *)
(***************************************************************************)
EXTENDS Integers, Sequences, SequencesExt

Prime(p) == <<"prime", p>>
Ref(mut, inner) == <<"ref", mut, inner>>
ArrayType(n, inner) == <<"array", n, inner>>
StructType(s) == <<"struct", s>>
EnumType(e) == <<"enum", e>>
TupleType(members) == <<"tuple", members>>
FunctionType(f) == <<"function", f>>
Never == <<"never">>
NoType == <<"none">>
Unit == TupleType(<<>>)
Bool == Prime("bool")
KInt == Prime("int")

SignedInts == {"i8", "i32", "i64", "isize"}
UnsignedInts == {"u8", "u32", "u64", "usize"}
IsPrime(t) == t[1] = "prime"
IsRef(t) == t[1] = "ref"
IsUnsigned(t) == IsPrime(t) /\ t[2] \in UnsignedInts
\* is_integer: a determined integer type.
IsInteger(t) == IsPrime(t) /\ t[2] \in SignedInts \cup UnsignedInts
IsNumber(t) == IsPrime(t) /\ t # Bool

\* is_convertible_from: a value of type from where one of type to is wanted.
RECURSIVE Convertible(_, _)
Convertible_RefsMix(to, from) ==
  \/ to = from
  \/ from = KInt /\ IsInteger(to)
  \/ to[1] = "ref" /\ from[1] = "ref" /\ Convertible(to[3], from[3])
  \/ to[1] = "array" /\ from[1] = "array" /\ to[2] = from[2] /\ Convertible(to[3], from[3])
  \/ /\ to[1] = "tuple" /\ from[1] = "tuple" /\ Len(to[2]) = Len(from[2])
     /\ \A k \in DOMAIN to[2] : Convertible(to[2][k], from[2][k])
Convertible(to, from) ==
  \/ to = from
  \/ from = KInt /\ IsInteger(to)
  \/ to[1] = "ref" /\ from[1] = "ref" /\ (to[2] => from[2]) /\ Convertible(to[3], from[3])
  \/ to[1] = "array" /\ from[1] = "array" /\ to[2] = from[2] /\ Convertible(to[3], from[3])
  \/ /\ to[1] = "tuple" /\ from[1] = "tuple" /\ Len(to[2]) = Len(from[2])
     /\ \A k \in DOMAIN to[2] : Convertible(to[2][k], from[2][k])
\* is_coercible_from
Coercible(to, from) == from = Never \/ Convertible(to, from)

\* need_indirect_pass: the value is passed by address.
Indirect(t) == t[1] \in {"array", "struct"} \/ (t[1] = "tuple" /\ t # Unit)

-----------------------------------------------------------------------------
PaddedTo_Down(n, align) == (n \div align) * align
PaddedTo(n, align) == ((n + align - 1) \div align) * align
\* Sizes and alignments in bytes; layouts gives those of the structs.
PrimeSize(p) ==
  CASE p \in {"bool", "i8", "u8"} -> 1
    [] p \in {"i32", "u32", "int"} -> 4
    [] p \in {"i64", "u64", "isize", "usize"} -> 8
RECURSIVE Align(_, _)
Align(layouts, t) ==
  CASE IsPrime(t) -> PrimeSize(t[2])
    [] IsRef(t) -> 8
    [] t[1] = "array" -> Align(layouts, t[3])
    [] t[1] = "struct" -> layouts[t[2]].align
    [] t[1] = "tuple" -> FoldSeq(LAMBDA m, a : IF Align(layouts, m) > a THEN Align(layouts, m) ELSE a, 0, t[2])
RECURSIVE Size(_, _)
\* The members of a tuple, or the fields of a struct, one after the other:
\* their offsets, the size so far and the largest alignment.
Place(layouts, t, so) ==
  LET align == Align(layouts, t)
      offset == IF align = 0 THEN 0 ELSE PaddedTo(so.size, align)
  IN [offsets |-> Append(so.offsets, offset),
      size |-> offset + Size(layouts, t),
      align |-> IF align > so.align THEN align ELSE so.align]
Fill(layouts, types) ==
  LET end == FoldLeft(LAMBDA so, t : Place(layouts, t, so), [offsets |-> <<>>, size |-> 0, align |-> 0], types)
  IN [end EXCEPT !.size = IF end.align = 0 THEN 0 ELSE PaddedTo(end.size, end.align)]
Size(layouts, t) ==
  CASE IsPrime(t) -> PrimeSize(t[2])
    [] IsRef(t) -> 8
    [] t[1] = "array" -> t[2] * Size(layouts, t[3])
    [] t[1] = "struct" -> layouts[t[2]].size
    [] t[1] = "tuple" -> Fill(layouts, t[2]).size
=============================================================================
