------------------------------- MODULE MCDefaults -------------------------------
EXTENDS Defaults

Leaves ==
  {[k |-> x] : x \in {"int", "string", "time", "callback"}}
  \cup {[k |-> "enum", shape |-> "flat", ourstyle |-> b] : b \in BOOLEAN}
  \cup {[k |-> "enum", shape |-> s, ourstyle |-> TRUE] : s \in {"fields", "error"}}
  \cup {[k |-> "object", noargs |-> a, ext |-> x] : a, x \in BOOLEAN}

Around(types) == {[k |-> x, of |-> t] : x \in {"optional", "sequence", "map", "custom"}, t \in types}

FieldsOf(types) ==
  UNION {{[type |-> t, default |-> d] : d \in {Absent} \cup Accepted(t)} : t \in types}

Records(fields) ==
  {[k |-> "record", ext |-> x, fields |-> <<f>>] : x \in BOOLEAN, f \in fields}
Pair(f) == [k |-> "record", ext |-> FALSE,
            fields |-> <<[type |-> [k |-> "string"], default |-> Absent], f>>]

Layer1 == Around(Leaves)
Flat == Records(FieldsOf(Leaves)) \cup {Pair(f) : f \in FieldsOf(Layer1)}
Layer2 == Around(Layer1) \cup Records(FieldsOf(Flat))
Customs(types) == {[k |-> "custom", of |-> t] : t \in types}
Optionals(types) == {[k |-> "optional", of |-> t] : t \in types}

MCFields ==
  {f \in FieldsOf(Leaves \cup Layer1 \cup Flat \cup Layer2 \cup Optionals(Flat)
                  \cup Optionals(Optionals(Layer1))
                  \cup Optionals(Customs(Optionals(Leaves)))) : f.default # Absent}
=================================================================================
