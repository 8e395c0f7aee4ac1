------------------------- MODULE MCGreenhouseFiller -------------------------
(* Bounded instances of GreenhouseFiller for TLC.                          *)
EXTENDS GreenhouseFiller, TLC

C(strategy, key, name, required) ==
  [strategy |-> strategy, key |-> key, name |-> name, required |-> required,
   group |-> 0, wanted |-> TRUE]
Option(name, required, wanted) ==
  [C("select_radio", "answered", name, required) EXCEPT !.group = 1, !.wanted = wanted]

Text(n) == C("fill", "answered", n, TRUE)
Combobox(n) == C("select_combobox", "answered", n, TRUE)
Submit == C("click", "submit_button", "no name", FALSE)

\* One control of each strategy and key that behaves differently.
FieldsNamed(n) ==
  {Text(n), C("fill", "answered", n, FALSE), C("fill", "blank", n, FALSE),
   C("fill", "unknown", n, TRUE), Combobox(n), C("select_combobox", "blank", n, TRUE),
   C("select_native", "answered", n, TRUE), C("inert", "answered", n, TRUE),
   C("upload_file", "answered", n, TRUE), C("upload_file", "blank", n, FALSE)}

\* Each of them before a text field; two of one name, or one without; an input of type
\* submit; and radio groups.
MCForms ==
  {<<a, Text("two"), Submit>> : a \in FieldsNamed("one")}
    \union {<<a, b, Submit>> :
               a \in {Text("one"), Combobox("one")},
               b \in {Text("one"), Combobox("one"), C("fill", "unknown", "no name", TRUE)}}
    \union {<<a, C("fill", "submit_button", "two", FALSE), Submit>> :
               a \in {Text("one"), Text("two")}}
    \union {<<Option("one", r, v), Option("two", r, w), Submit>> :
                 r \in BOOLEAN, v \in BOOLEAN, w \in BOOLEAN}
=============================================================================
