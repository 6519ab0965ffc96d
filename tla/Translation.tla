----------------------------- MODULE Translation -----------------------------
(***************************************************************************)
(* A message turned into the object another protocol version has for it.   *)
(* A translation is a set of rows: a field of the result, the field of the *)
(* source it is taken from, how its value is made, and what the source     *)
(* must have for it not to throw. A field no row names is left out.        *)
(***************************************************************************)
EXTENDS Naturals, Sequences

LOCAL INSTANCE SequencesExt

Row(to, from, how, must) == [to |-> to, from |-> from, how |-> how, must |-> must]

Made(how, must, names) == {Row(name, name, how, must) : name \in names}

Copy(names)       == Made("copy", "nothing", names)
NonEmpty(names)   == Made("nonEmpty", "nothing", names)     \* '' becomes undefined
OrZero(names)     == Made("orZero", "nothing", names)       \* ?? '', ?? false, ?? 0, ?? {}
Required(names)   == Made("copy", "be set", names)          \* throws when undefined
NonZero(names)    == Made("copy", "not be empty", names)    \* throws when undefined or ''
Case(names)       == Made("copy", "one be set", names)      \* of these, one must be there
By(how, name)     == Made(how, "nothing", {name})
Fixed(to, item)   == {Row(to, item, "fixed", "nothing")}

\* the rows with the names the result has for the fields
Named(to, rows) == {[row EXCEPT !.to = to] : row \in rows}

-----------------------------------------------------------------------------
Field(m, name) == IF name \in DOMAIN m THEN m[name] ELSE <<>>

IsFile(m) == Field(m, "raw") # <<>> \/ Field(m, "url") # <<>>

\* JSON that is no object is wrapped as { value: ... }, with a flag
Wraps(m) == Field(m, "data") \in {<<"zero">>, <<"null">>}
Flagged(m) == Field(m, "data_part_compat") # <<>>

\* the items of interfaces that 0.3 may be spoken on, those without a version included
Legacy(items) == LET kept == SelectSeq(items, LAMBDA i : i # "some") IN [i \in DOMAIN kept |-> "legacy"]

Value(row, m) ==
    LET items == Field(m, row.from)
    IN  CASE row.how = "copy" -> items
          [] row.how = "fixed" -> <<row.from>>
          [] row.how = "nonEmpty" -> IF items = <<"zero">> THEN <<>> ELSE items
          [] row.how = "orZero" -> IF items = <<>> THEN <<"zero">> ELSE items
          [] row.how = "not" -> IF items = <<"some">> THEN <<"zero">> ELSE <<"some">>
          [] row.how = "first" -> IF items = <<>> THEN <<"zero">> ELSE <<Head(items)>>
          [] row.how = "state" -> IF items = <<"some">> THEN items ELSE <<"zero">>
          [] row.how = "role" -> IF items = <<"some">> THEN items ELSE <<"agent">>
          [] row.how = "location" -> IF items = <<"some">> THEN items ELSE <<"header">>
          [] row.how = "ofFile" -> IF IsFile(m) /\ items # <<"zero">> THEN items ELSE <<>>
          [] row.how = "wrap" ->
                CASE items = <<"zero">> -> <<"wrapped zero">>
                  [] items = <<"null">> -> <<"wrapped null">>
                  [] OTHER -> items
          [] row.how = "unwrap" ->
                CASE Flagged(m) /\ items = <<"wrapped zero">> -> <<"zero">>
                  [] Flagged(m) /\ items = <<"wrapped null">> -> <<"null">>
                  [] OTHER -> items
          [] row.how = "flag" -> IF Wraps(m) THEN <<"some">> ELSE <<>>
          [] row.how = "besideFlag" -> IF Wraps(m) /\ items = <<>> THEN <<"zero">> ELSE items
          [] row.how = "withoutFlag" -> IF Flagged(m) /\ items = <<"zero">> THEN <<>> ELSE items
          [] row.how = "firstLegacy" -> IF Legacy(items) = <<>> THEN <<>> ELSE <<Head(Legacy(items))>>
          [] row.how = "otherLegacy" -> IF Legacy(items) = <<>> THEN <<>> ELSE Tail(Legacy(items))
          [] row.how = "primaryFirst" -> items \o Field(m, "additionalInterfaces")

Translated(rows, m) == [to \in {row.to : row \in rows} |-> Value(CHOOSE row \in rows : row.to = to, m)]

Throws(rows, m) ==
    LET must(what) == {row \in rows : row.must = what}
    IN  \/ \E row \in must("be set") : Value(row, m) = <<>>
        \/ \E row \in must("not be empty") : Value(row, m) \in {<<>>, <<"zero">>}
        \/ /\ must("one be set") # {}
           /\ \A row \in must("one be set") : Value(row, m) = <<>>
=============================================================================
