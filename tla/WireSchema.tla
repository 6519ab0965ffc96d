------------------------------ MODULE WireSchema ------------------------------
(***************************************************************************)
(* Fields of a generated message. "at" is where the field is on the wire:  *)
(* its number in the binary format, the keys it may have in JSON.          *)
(*                                                                         *)
(* An implicit field is not written when it has its type's zero value; an  *)
(* optional one is written when it is set; a repeated one item by item; a  *)
(* map entry by entry; of the alternatives of a oneof, the one that is set.*)
(***************************************************************************)
Field(rule, group, at, name, type) ==
    [rule |-> rule, group |-> group, at |-> at, name |-> name, type |-> type]

Implicit(at, name, type)     == Field("implicit", "", at, name, type)
Optional(at, name, type)     == Field("optional", "", at, name, type)
Repeated(at, name, type)     == Field("repeated", "", at, name, type)
Map(at, name, type)          == Field("map", "", at, name, type)
OneOf(group, at, name, type) == Field("oneof", group, at, name, type)
=============================================================================
