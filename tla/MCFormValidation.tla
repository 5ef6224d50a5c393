-------------------------- MODULE MCFormValidation --------------------------
(***************************************************************************)
(* FormValidation for TLC.  One family of pages has a single field with    *)
(* each way to declare constraints; the others have two fields that        *)
(* interact.                                                               *)
(***************************************************************************)
EXTENDS FormValidation, TLC

a == [model |-> "Input", base |-> "A"]
b == [model |-> "Input", base |-> "B"]
x == [model |-> "Other", base |-> "A"]  \* the same base as a, in another model

MCFields == {a, b, x}

\* The methods of jquery.validate.js, and those of additional-methods.js that an
\* adapter names.
MCMethods == {"required", "email", "url", "date", "number", "digits", "minlength", "maxlength",
              "rangelength", "min", "max", "range", "equalTo", "remote",
              "accept", "creditcard", "extension"}

Text(attrs) == [checkbox |-> FALSE, attrs |-> attrs]
Bare == Text(<<>>)

\* Values: words of one to five characters, numbers, and an instance of every format.
Word(n)   == [Empty EXCEPT !.len = n]
Number(n) == [Empty EXCEPT !.len = IF n < 10 THEN 1 ELSE 2, !.num = n, !.whole = {"number", "digits"}]
Odd       == [Empty EXCEPT !.len = 3, !.nonalpha = 2]
Formats   == [Empty EXCEPT !.len = 4, !.nonalpha = 1, !.whole = {"pattern", "list"} \union BoolAdapters]

Inputs == {Empty, Word(1), Word(3), Word(5), Number(9), Number(10), Number(30), Odd, Formats}

\* The ways to declare constraints on one field.
Declarations ==
  {t :> <<>> : t \in BoolAdapters}
  \union {"required" :> <<>>, "regex" :> [pattern |-> "pattern"], "accept" :> [mimtype |-> "list"],
          "extension" :> [extension |-> "list"], "fileextensions" :> [extensions |-> "list"],
          "length" :> [min |-> 2, max |-> 4], "length" :> [max |-> 4], "length" :> [min |-> 2],
          "range" :> [min |-> 10, max |-> 20], "range" :> [min |-> 10], "range" :> [max |-> 10],
          "minlength" :> [min |-> 2], "minlength" :> [max |-> 4], "maxlength" :> [max |-> 4],
          "password" :> [min |-> 2, nonalphamin |-> 1, regex |-> "pattern"],
          ("password" :> [min |-> 2]) @@ ("minlength" :> [min |-> 4]),
          ("required" :> <<>>) @@ ("regex" :> [pattern |-> "pattern"]) @@ ("length" :> [max |-> 4])}

Page(ea, eb, ex, static, scripted, in) == [element |-> (a :> ea) @@ (b :> eb) @@ (x :> ex), static |-> static, scripted |-> scripted,
                                 inputs |-> (a :> in[1]) @@ (b :> in[2]) @@ (x :> in[3])]

SinglePages ==
  {Page(Text(d), Bare, Bare, {a}, FALSE, <<Inputs, {}, {}>>) : d \in Declarations}
  \union {Page([checkbox |-> TRUE, attrs |-> "required" :> <<>>], Bare, Bare, {a}, FALSE, <<{Empty, Word(1)}, {}, {}>>)}

Taken == Word(3)
Free  == Word(4)
Own   == "remote" :> <<>>

\* A remote field that sends another one too, as sibling of the same model.
SiblingPage ==
  Page(Text("remote" :> [additionalfields |-> {[model |-> "*", base |-> "A"], [model |-> "*", base |-> "B"]}]),
       Text("required" :> <<>>), Bare, {a, b}, FALSE, <<{Empty, Free}, {Taken, Free}, {}>>)

\* Two remote fields.
RemotePage == Page(Text(Own), Text(Own), Bare, {a, b}, FALSE, <<{Empty, Taken, Free}, {Free, Taken}, {}>>)

\* A confirmation, and a field of the same base name that is not meant.
ConfirmPage ==
  Page(Text("required" :> <<>>), Text("equalto" :> [other |-> [model |-> "*", base |-> "A"]]), Bare,
       {a, b, x}, FALSE, <<{Free, Taken}, {Free, Taken}, {Taken}>>)

\* A required field that a script inserts later.
DynamicPage == Page(Text("required" :> <<>>), Text("required" :> <<>>), Bare, {a}, TRUE, <<{Free}, {Free}, {}>>)

\* A confirmation that may be parsed before a script inserts the field it repeats.
LateConfirmPage ==
  Page(Text("equalto" :> [other |-> [model |-> "*", base |-> "B"]]), Bare, Bare, {a}, TRUE, <<{Free}, {Free}, {}>>)

MCPages == SinglePages \union {SiblingPage, RemotePage, ConfirmPage, DynamicPage, LateConfirmPage}

\* The server has a name that is taken, for itself or together with another field.
MCAccepted == {q \in UNION {[F -> {Empty, Taken, Free}] : F \in {{a}, {b}, {a, b}}} :
                 \A f \in DOMAIN q : q[f] # Taken}

=============================================================================
