------------------------------ MODULE MCGenerated ------------------------------
(* The types and flags that a schema of uapi may give a property, and two or *)
(* three values of each type.                                               *)
EXTENDS GeneratedResource

\* The unions are those of the schemas: with null, a number or a keyword, and a
\* scalar that a writer may send for a list.
SpecTypes == {<<"string">>, <<"string", "null">>, <<"null", "string">>,
              <<"integer">>, <<"integer", "null">>,
              <<"boolean">>, <<"boolean", "null">>,
              <<"array">>, <<"array", "null">>, <<"string", "array", "null">>,
              <<"integer", "string">>, <<"integer", "string", "null">>, <<"object">>}

SpecFlags == {{"readOnly"}, {"writable"}, {"writable", "writeOnly"},
              {"writable", "required"}, {"writable", "clearOnOmit"},
              {"writable", "deprecated"}, {}}

\* uapi marks only what reads back null as clear-on-omit, and answers null for a
\* list that is absent.
SpecProperties ==
  {p \in {Property(t, f) : t \in SpecTypes, f \in SpecFlags} :
     "clearOnOmit" \in p.flags => Admits(p, "null")}

SpecScalars == [string  |-> {Value("string", <<"a">>), Value("string", <<"auto">>),
                            Value("string", <<"36">>)},
                integer |-> {Value("integer", <<"0">>), Value("integer", <<"36">>)},
                boolean |-> {Value("boolean", <<"false">>), Value("boolean", <<"true">>)}]
SpecLists == {Empty, Value("array", <<"a">>), Value("array", <<"a", "b">>)}
=============================================================================
