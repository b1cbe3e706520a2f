------------------------------- MODULE Codecs -------------------------------
(***************************************************************************)
(* The pure conversions against reference definitions: dates and instants  *)
(* as Calendar has them, and JSON text, which is decoded again.  The state *)
(* is the case under test.                                                 *)
(***************************************************************************)
EXTENDS Calendar, JsonCodec

CONSTANT LuaValues      \* the Lua values encoded

ASSUME CodecsAssumption == MaxDepth \in Nat

vars == <<case>>

JsonCase ==
    \E v \in LuaValues, o \in Options :
        case = [what |-> "json", value |-> v, options |-> o]

Init == DateCase \/ InstantCase \/ JsonCase

Next == WalkOn

Spec == Init /\ [][Next]_vars

----------------------------------------------------------------------------
\* What JSON text carries of a value, said from the keys and values of its
\* tables; how lua_array_size finds out and what the text looks like is not used.
RECURSIVE Encodable(_, _, _), Legible(_, _), Restores(_, _, _)

Indices(t) == {k[2] : k \in {k \in Keys(t) : Kind(k) = "int"}}
Places(t) == {<<"int", i>> : i \in 1..Border(t)}
HolesOf(t) == Places(t) \ Keys(t)

\* A table is a list if it is marked as one.  Without a mark it is if it has
\* nothing but positive integers as keys, Lua takes the largest of them for the
\* length, and a visit that starts at 1 ends at the largest.
IsList(t) ==
    \/ Meta(t) = "array"
    \/ /\ Meta(t) = "none" /\ Keys(t) # {}
       /\ \A k \in Keys(t) : Kind(k) = "int" /\ k[2] > 0
       /\ Border(t) = Max(Indices(t))
       /\ Head(Entries(t))[1] = <<"int", 1>> =>
             Last(Entries(t))[1] = <<"int", Max(Indices(t))>>

\* Without enable_sparse_array a list with a hole is written as an object.
InBrackets(t, o) == IsList(t) /\ (o.sparse \/ HolesOf(t) = {})

\* Lost: entries whose key is neither a string nor an integer, the entry with
\* the empty key, what a table marked as a list holds beside its places, a
\* foreign pointer that is the only element of a list, and the marks.
Unnamed(t) == {e \in ToSet(Entries(t)) : Kind(e[1]) \notin {"str", "int"}}
EmptyNamed(t) == {e \in ToSet(Entries(t)) : e[1] = <<"str", "">>}
BesideList(t, o) ==
    {e \in ToSet(Entries(t)) :
        Meta(t) = "array" /\ InBrackets(t, o) /\ e[1] \notin Places(t)}
LonePointer(t, o) ==
    {e \in ToSet(Entries(t)) :
        /\ InBrackets(t, o) /\ Places(t) = {e[1]} /\ Kind(e[2]) = "pointer"}

Carried(t, o) == ToSet(Entries(t)) \ (Unnamed(t) \cup BesideList(t, o))

\* Refused: functions, nesting beyond the limit, and integer keys of an object
\* without enable_number_key.
Encodable(v, depth, o) ==
    IF ~IsTable(v) THEN Kind(v) # "function"
    ELSE /\ depth < MaxDepth
         /\ \A e \in Carried(v, o) :
               /\ Encodable(e[2], depth + 1, o)
               /\ Kind(e[1]) = "int" => InBrackets(v, o) \/ o.numberKey

\* No JSON: NaN, a foreign pointer (nothing is written for it), a key that needs
\* an escape, and an object in which an entry without a name left its comma.
StrayComma(t, o) ==
    ~InBrackets(t, o) /\ Unnamed(t) # {} /\ Len(Entries(t)) > 1
Legible(v, o) ==
    IF ~IsTable(v) THEN v # <<"num", "NaN">> /\ Kind(v) # "pointer"
    ELSE /\ ~StrayComma(v, o)
         /\ \A e \in Carried(v, o) \ LonePointer(v, o) :
               Legible(e[2], o) /\ e[1] # <<"str", "quote">>

\* Changed: a key that is the notation of an integer, with enable_number_key (of
\* keys that become equal one stays); a hole of a list, which comes back as
\* json.null; a float without a fraction, and 0 for one that is no i64.
KeyBack(k, o) ==
    IF o.numberKey /\ Kind(k) = "str" /\ IsInteger(k[2])
      THEN <<"int", Integer(k[2])>> ELSE k
ScalarBack(v) ==
    CASE v = <<"num", "1.0">> -> <<"int", 1>>
      [] v = <<"num", "2^63">> -> <<"int", 0>>
      [] OTHER -> v

Restores(r, v, o) ==
    IF ~IsTable(v) THEN r = ScalarBack(v)
    ELSE LET kept == Carried(v, o) \ (EmptyNamed(v) \cup LonePointer(v, o))
             holes == IF InBrackets(v, o) THEN HolesOf(v) ELSE {}
         IN /\ IsTable(r)
            /\ {p[1] : p \in r[2]} = {KeyBack(e[1], o) : e \in kept} \cup holes
            /\ \A p, q \in r[2] : p[1] = q[1] => p = q
            /\ \A p \in r[2] :
                  \/ p[1] \in holes /\ p[2] = Null
                  \/ \E e \in kept : /\ KeyBack(e[1], o) = p[1]
                                     /\ Restores(p[2], e[2], o)

\* json.decode(json.encode(v)) gives every entry of v back, at every depth, but
\* for the losses and changes named above; encode fails for what is refused and
\* for nothing else; and the text is an array exactly for lists and, if asked
\* for, empty tables, so that no table with other keys is taken for a list and
\* loses them.  Nothing is claimed of the text of a value that is not Legible.
JsonReadsBack ==
    case.what = "json" =>
        LET v == case.value
            o == case.options
            e == Encode(v, 0, o)
        IN /\ e.ok <=> Encodable(v, 0, o)
           /\ e.ok /\ Legible(v, o) => Restores(ReadBack(e.out, o), v, o)
           /\ e.ok /\ IsTable(v) =>
                 (Starts(e.out, "[") <=>
                     \/ InBrackets(v, o)
                     \/ Entries(v) = <<>> /\ o.emptyAsArray)
=============================================================================
