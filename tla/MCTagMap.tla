------------------------------ MODULE MCTagMap ------------------------------
(***************************************************************************)
(* TagMap with two classes, one a subclass of the other, and WrappedCBOR.  *)
(***************************************************************************)
EXTENDS TagMap

MCClassTags ==
  <<WrappedCBOR, ClassTag("4325", "Derived", "to_cbor", "from_cbor"),
    ClassTag("4326", "Base", "to_cbor", "from_cbor"),
    ClassTag("4326", "Other", "to_cbor", "from_cbor")>>

MCIsInstance(class, of) == class = of \/ (class = "Derived" /\ of = "Base")

RECURSIVE MCDepth(_, _)
MCDepth(objects, n) ==
  1 + Max({0} \cup {MCDepth(objects, m) : m \in Range(objects[n].items)})

(* The variable, a tree of two containers, and leaves that both share. *)
Leaves ==
  <<Plain,                             \* 4
    Object("instance", "Derived", <<12>>),
    Object("instance", "Base", <<4>>),
    Object("instance", "Stranger", <<4>>),
    Object("tag", "9", <<12>>),        \* unknown
    Object("tag", "4325", <<4>>),      \* known
    Object("tag", "24", <<11>>),
    Object("bytes", "", <<8>>),        \* 11
    Object("tuple", "", <<4>>),
    Object("tag", "9", <<6>>),         \* with an instance in it
    Object("instance", "Other", <<4>>),
    Object("tag", "24", <<4>>)>>       \* 15: no bytes

MCHeaps ==
  {<<Object("list", "", <<2>>), Object(outer, "", <<3, a>>),
     Object(inner, "", <<b, c>>)>> \o Leaves :
   outer \in {"list", "tuple"}, inner \in {"list", "dict"},
   a \in 3 .. 15, b \in 4 .. 15, c \in {4, 5, 9, 10}}
=============================================================================
