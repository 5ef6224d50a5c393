------------------------- MODULE UnobtrusiveAdapters -------------------------
(***************************************************************************)
(* How jquery.validate.unobtrusive.js turns the data-val-* attributes of a *)
(* form element into rules of jQuery Validate, and how jQuery Validate     *)
(* evaluates those rules (WebApp_Identity/wwwroot/lib).                    *)
(*                                                                         *)
(* An element is [checkbox, attrs]: attrs maps the adapters it declares    *)
(* (data-val-<adapter>) to their parameters (data-val-<adapter>-<param>).  *)
(* A name is [model, base]: "Input.Email" is the base "Email" under the    *)
(* model "Input", and "*." in a parameter is the model "*".  A value is    *)
(* what the rules can tell apart: its length, the number it spells, its    *)
(* non-word characters, and the patterns and formats it is an instance of. *)
(* Rules are a sequence, in the order the adapters wrote them, of a rule   *)
(* name and its argument; an undefined argument is <<>>.                   *)
(***************************************************************************)
EXTENDS Integers, Sequences, FiniteSets

CONSTANT Methods  \* the validation methods that jquery.validate.js, and additional-methods.js if the page loads it, define

\* "undefined" is what adapters name a rule they have no name for.
ASSUME MethodsAssumption == "undefined" \notin Methods

Empty == [len |-> 0, num |-> 0, nonalpha |-> 0, whole |-> {}]

BoolAdapters == {"creditcard", "date", "digits", "email", "number", "url"}

\* The adapters in the order they are registered.
Adapters ==
  (IF "extension" \in Methods THEN <<"accept", "extension">> ELSE <<"extension">>)
  \o <<"regex", "creditcard", "date", "digits", "email", "number", "url", "length", "range",
       "minlength", "maxlength", "equalto", "required", "remote", "password", "fileextensions">>

RegisteredAdapters == {Adapters[i] : i \in DOMAIN Adapters}

\* The methods after the three addMethod calls of the library.
Registered == Methods \union {"__dummy__", "regex", "nonalphamin"}

RuleNames(rules) == {rules[i].rule : i \in DOMAIN rules}

\* The value of an attribute, undefined when the element does not have it.
Param(params, p) == IF p \in DOMAIN params THEN <<params[p]>> ELSE <<>>

-----------------------------------------------------------------------------
(* Adapters *)

SetValidationValues(rules, ruleName, arg) ==
  IF ruleName \in RuleNames(rules)
  THEN [i \in DOMAIN rules |-> IF rules[i].rule = ruleName THEN [rule |-> ruleName, arg |-> arg] ELSE rules[i]]
  ELSE Append(rules, [rule |-> ruleName, arg |-> arg])

AppendModelPrefixNone(ref, prefix) == ref

AppendModelPrefix(ref, prefix) == IF ref.model = "*" THEN [ref EXCEPT !.model = prefix] ELSE ref

AddBool(rules, ruleName) == SetValidationValues(rules, ruleName, <<TRUE>>)

AddMinMax(rules, params, minRule, maxRule, minMaxRule) ==
  LET min == Param(params, "min")
      max == Param(params, "max")
  IN CASE min # <<>> /\ max # <<>> -> SetValidationValues(rules, minMaxRule, min \o max)
       [] min # <<>> /\ max =  <<>> -> SetValidationValues(rules, minRule, min)
       [] min =  <<>> /\ max # <<>> -> SetValidationValues(rules, maxRule, max)
       [] OTHER -> rules

AddSingleVal(rules, params, attribute, ruleName) ==
  SetValidationValues(rules, ruleName, Param(params, attribute))

\* The rule compares with an element of the form; without such an element the
\* argument is undefined.
EqualTo(rules, params, name, dom) ==
  LET other == AppendModelPrefix(params.other, name.model)
  IN SetValidationValues(rules, "equalTo", IF other \in dom THEN <<other>> ELSE <<>>)

RequiredAlways(rules, e) == SetValidationValues(rules, "required", <<TRUE>>)

\* jQuery Validate's "required" means "checked" for a checkbox: no rule for it.
Required(rules, e) == IF e.checkbox THEN rules ELSE SetValidationValues(rules, "required", <<TRUE>>)

\* The fields whose values are sent: the additional ones, or the field itself.
Remote(rules, params, name) ==
  LET listed == IF "additionalfields" \in DOMAIN params THEN params.additionalfields ELSE {name}
  IN SetValidationValues(rules, "remote", <<{AppendModelPrefix(ref, name.model) : ref \in listed}>>)

Password(rules, params) ==
  LET set(rs, p, ruleName) == IF p \in DOMAIN params THEN AddSingleVal(rs, params, p, ruleName) ELSE rs
  IN set(set(set(rules, "min", "minlength"), "nonalphamin", "nonalphamin"), "regex", "regex")

Adapt(rules, adapter, e, name, dom) ==
  LET params == e.attrs[adapter]
  IN CASE adapter \in BoolAdapters    -> AddBool(rules, adapter)
       [] adapter = "accept"         -> AddSingleVal(rules, params, "mimtype", "accept")
       [] adapter = "extension"      -> AddSingleVal(rules, params, "extension",
                                          IF "extension" \in Methods THEN "extension" ELSE "accept")
       [] adapter = "regex"          -> AddSingleVal(rules, params, "pattern", "regex")
       [] adapter = "length"         -> AddMinMax(rules, params, "minlength", "maxlength", "rangelength")
       [] adapter = "range"          -> AddMinMax(rules, params, "min", "max", "range")
       [] adapter = "minlength"      -> AddMinMax(rules, params, "minlength", "undefined", "undefined")
       [] adapter = "maxlength"      -> AddMinMax(rules, params, "minlength", "maxlength", "undefined")
       [] adapter = "equalto"        -> EqualTo(rules, params, name, dom)
       [] adapter = "required"       -> Required(rules, e)
       [] adapter = "remote"         -> Remote(rules, params, name)
       [] adapter = "password"       -> Password(rules, params)
       [] adapter = "fileextensions" -> AddSingleVal(rules, params, "extensions", "extension")

\* The rules of an element after the first i adapters: those it declares add theirs.
Parsing(e, name, dom) ==
  LET rules[i \in 0..Len(Adapters)] ==
        IF i = 0 THEN <<>>
        ELSE IF Adapters[i] \in DOMAIN e.attrs THEN Adapt(rules[i - 1], Adapters[i], e, name, dom)
        ELSE rules[i - 1]
  IN rules

\* parseElement: all adapters, and a rule that always holds.
ParseElement(e, name, dom) ==
  SetValidationValues(Parsing(e, name, dom)[Len(Adapters)], "__dummy__", <<TRUE>>)

\* The rules a validator gets: $.extend copies no undefined argument.
Copied(rules) == {i \in DOMAIN rules : rules[i].arg # <<>>}

-----------------------------------------------------------------------------
(* Evaluation of the rules *)

HasRemote(rules) == "remote" \in RuleNames(rules)

\* The fields a remote rule sends.
RemoteFields(rules) == UNION {rules[i].arg[1] : i \in {j \in DOMAIN rules : rules[j].rule = "remote"}}

\* The rules that check() evaluates itself: rules() puts remote last, and required
\* first.
Locals(rules) == {i \in Copied(rules) : rules[i].rule # "remote"}

Precedes(rules, i, j) == rules[i].rule = "required" \/ (rules[j].rule # "required" /\ i < j)

Optional(v) == v.len = 0

Digits(n) == IF n < 10 THEN <<n>> ELSE <<n \div 10, n % 10>>

\* The JavaScript comparison of two strings of digits.
TextAtLeast(a, b) ==
  LET s == Digits(a)
      t == Digits(b)
  IN s = t \/ \E i \in DOMAIN s : /\ \A j \in 1..(i - 1) : j <= Len(t) /\ s[j] = t[j]
                                  /\ i > Len(t) \/ s[i] > t[i]

\* What the methods say of a nonempty value.  normalizeRules makes numbers of the
\* arguments of minlength, maxlength, rangelength and range, not of min and max.
MethodAccepts(rule, arg, v) ==
  CASE rule = "minlength"   -> v.len >= arg[1]
    [] rule = "maxlength"   -> v.len <= arg[1]
    [] rule = "rangelength" -> arg[1] <= v.len /\ v.len <= arg[2]
    [] rule = "range"       -> arg[1] <= v.num /\ v.num <= arg[2]
    [] rule = "min"         -> TextAtLeast(v.num, arg[1])
    [] rule = "max"         -> TextAtLeast(arg[1], v.num)
    [] rule \in BoolAdapters                    -> rule \in v.whole
    [] rule \in {"regex", "extension", "accept"} -> arg[1] \in v.whole

\* Whether a rule holds: all but a few methods accept the empty value.
RuleHolds(r, v, values) ==
  CASE r.rule = "__dummy__"   -> TRUE
    [] r.rule = "required"    -> ~Optional(v)
    [] r.rule = "equalTo"     -> v = values[r.arg[1]]
    [] r.rule = "nonalphamin" -> v.nonalpha > 0 /\ v.nonalpha >= r.arg[1]
    [] OTHER                  -> Optional(v) \/ MethodAccepts(r.rule, r.arg, v)

\* check() up to a remote rule: the first rule that fails, or has no method,
\* decides.  A sole rule that passes an empty value leaves no verdict at all.
LocalVerdict(rules, v, values) ==
  LET unknown == {i \in Locals(rules) : rules[i].rule \notin Registered}
      failing == {i \in Locals(rules) \ unknown : ~RuleHolds(rules[i], v, values)}
      silent == {i \in Copied(rules) : rules[i].rule \notin {"__dummy__", "required", "equalTo", "nonalphamin", "regex"}}
  IN IF \E i \in unknown : \A j \in (unknown \union failing) \ {i} : Precedes(rules, i, j) THEN "throws"
     ELSE IF unknown \union failing # {} THEN "error"
     ELSE IF Optional(v) /\ \E i \in silent : Copied(rules) = {i} THEN "silent" ELSE "ok"

-----------------------------------------------------------------------------
(* What the attributes announce *)

Within(n, params) == /\ "min" \in DOMAIN params => params.min <= n
                     /\ "max" \in DOMAIN params => n <= params.max

\* The field a reference means: "*.B" is the sibling B, in the same model.
Meant(ref, name) == IF ref.model = "*" THEN [name EXCEPT !.base = ref.base] ELSE ref

\* Whether a value obeys a declared attribute, as the comments of the adapters and
\* the messages of jquery.validate.js describe it.  The nonalphamin of a password
\* is a demand on the empty value too; equalto always is one.
Obeys(adapter, e, name, v, values) ==
  LET params == e.attrs[adapter]
      instance(p) == p \in DOMAIN params => params[p] \in v.whole
  IN CASE adapter = "required" -> e.checkbox \/ ~Optional(v)
       [] adapter = "equalto"  -> v = values[Meant(params.other, name)]
       [] adapter = "password" ->
            /\ "nonalphamin" \in DOMAIN params => v.nonalpha >= params.nonalphamin
            /\ "min" \in DOMAIN params => Optional(v) \/ v.len >= params.min
            /\ Optional(v) \/ instance("regex")
       [] adapter \in {"length", "minlength", "maxlength"} -> Optional(v) \/ Within(v.len, params)
       [] adapter = "range"          -> Optional(v) \/ Within(v.num, params)
       [] adapter \in BoolAdapters   -> Optional(v) \/ adapter \in v.whole
       [] adapter = "regex"          -> Optional(v) \/ instance("pattern")
       [] adapter = "accept"         -> Optional(v) \/ instance("mimtype")
       [] adapter = "extension"      -> Optional(v) \/ instance("extension")
       [] adapter = "fileextensions" -> Optional(v) \/ instance("extensions")
       [] adapter = "remote"         -> TRUE

ObeysAll(e, name, v, values) == \A a \in DOMAIN e.attrs : Obeys(a, e, name, v, values)

\* Two attributes whose adapters write the same rule: the later one wins.
Conflicting(e, name, dom) ==
  \E a, b \in DOMAIN e.attrs :
    a # b /\ RuleNames(Adapt(<<>>, a, e, name, dom)) \intersect RuleNames(Adapt(<<>>, b, e, name, dom)) # {}

\* A range with one bound becomes a comparison of strings.
OneSided(e) ==
  "range" \in DOMAIN e.attrs /\ ("min" \in DOMAIN e.attrs["range"]) # ("max" \in DOMAIN e.attrs["range"])

=============================================================================
