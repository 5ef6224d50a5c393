------------------------ MODULE FormValidation_proofs ------------------------
(***************************************************************************)
(* Theorems about FormValidation, for any fields, pages, markup, scripts   *)
(* and server, and any number of lost requests.                            *)
(*                                                                         *)
(* The first sections follow the attributes of one element: what each      *)
(* adapter writes, that parsing leaves the rules of all of them, and that  *)
(* these rules say what the attributes announce.  The others follow the    *)
(* requests, the messages and the submission of the form.                  *)
(***************************************************************************)
EXTENDS FormValidation, FiniteSetTheorems, SequenceTheorems, WellFoundedInduction, TLAPS

-----------------------------------------------------------------------------
(* Sequences and induction *)

\* Natural induction for sets: the form of it that needs no operator.
LEMMA SetInduction ==
  ASSUME NEW S, 0 \in S, \A n \in Nat : n \in S => n + 1 \in S
  PROVE  Nat \subseteq S
  <1> SUFFICES ASSUME Nat \ S # {} PROVE FALSE
    OBVIOUS
  <1>1. PICK x \in Nat \ S : \A y \in Nat \ S : ~(<<y, x>> \in OpToRel(<, Nat))
    BY WFMin, NatLessThanWellFounded
  <1>2. \A y \in Nat \ S : ~(y < x)
    BY <1>1 DEF OpToRel
  <1>3. x - 1 \in Nat /\ x - 1 < x /\ x = (x - 1) + 1
    BY x # 0
  <1> QED
    BY <1>2, <1>3

\* A nonempty set of naturals has a least member.
LEMMA Least ==
  ASSUME NEW S \in SUBSET Nat, S # {}
  PROVE  \E x \in S : \A y \in S : x <= y
  <1>1. PICK x \in S : \A y \in S : ~(<<y, x>> \in OpToRel(<, Nat))
    BY WFMin, NatLessThanWellFounded
  <1>2. \A y \in S : ~(y < x)
    BY <1>1 DEF OpToRel
  <1> QED
    BY <1>2

\* The rules of a sequence, without their order.
Written(rules) == {rules[i] : i \in DOMAIN rules}

\* Rules are a sequence of them.
IsRules(rules) == rules \in Seq(Written(rules))

\* No rules are written at first.
LEMMA NoRules == IsRules(<<>>) /\ Written(<<>>) = {}
  BY DEF IsRules, Written

\* setValidationValues adds a rule, or replaces the one of that name.
LEMMA SetWrites ==
  ASSUME NEW rules, IsRules(rules), NEW ruleName, NEW arg
  PROVE  LET set == SetValidationValues(rules, ruleName, arg) IN
         /\ IsRules(set)
         /\ Written(set) = {r \in Written(rules) : r.rule # ruleName} \union {[rule |-> ruleName, arg |-> arg]}
  <1> DEFINE new == [rule |-> ruleName, arg |-> arg]
             set == SetValidationValues(rules, ruleName, arg)
             all == {r \in Written(rules) : r.rule # ruleName} \union {new}
  <1>0. Len(rules) \in Nat /\ DOMAIN rules = 1..Len(rules)
    BY LenProperties DEF IsRules
  <1>1. CASE ruleName \in RuleNames(rules)
    <2>1. set = [i \in DOMAIN rules |-> IF rules[i].rule = ruleName THEN new ELSE rules[i]]
      BY <1>1 DEF SetValidationValues
    <2>2. Written(set) = all
      BY <1>1, <2>1 DEF Written, RuleNames
    <2>3. set \in Seq(Written(set))
      BY <1>0, <2>1 DEF Written
    <2> QED
      BY <2>2, <2>3 DEF IsRules
  <1>2. CASE ruleName \notin RuleNames(rules)
    <2>1. set = Append(rules, new)
      BY <1>2 DEF SetValidationValues
    <2>2. /\ DOMAIN set = 1..(Len(rules) + 1)
          /\ \A i \in 1..Len(rules) : set[i] = rules[i]
          /\ set[Len(rules) + 1] = new
      BY <1>0, <2>1, AppendProperties DEF IsRules
    <2>3. Written(set) = Written(rules) \union {new}
      BY <1>0, <2>2 DEF Written
    <2>4. \A r \in Written(rules) : r.rule # ruleName
      BY <1>2 DEF Written, RuleNames
    <2>5. Written(rules) \subseteq Written(set)
      BY <2>3
    <2>6. set \in Seq(Written(set))
      <3>1. rules \in Seq(Written(set)) /\ new \in Written(set)
        BY <2>3, SeqMonotonic DEF IsRules
      <3> QED
        BY <2>1, <3>1, AppendProperties
    <2> QED
      BY <2>3, <2>4, <2>6 DEF IsRules
  <1> QED
    BY <1>1, <1>2

-----------------------------------------------------------------------------
(* What the adapters write *)

\* The names of all adapters there can be.
KnownAdapters ==
  BoolAdapters \union {"accept", "extension", "regex", "length", "range", "minlength", "maxlength", "equalto",
                       "required", "remote", "password", "fileextensions"}

\* The order of registration names just these adapters.
LEMMA AdaptersKnown ==
  /\ Adapters \in Seq(KnownAdapters)
  /\ RegisteredAdapters \subseteq KnownAdapters
  <1>1. Adapters \in Seq(KnownAdapters)
    <2> DEFINE first == IF "extension" \in Methods THEN <<"accept", "extension">> ELSE <<"extension">>
               rest  == <<"regex", "creditcard", "date", "digits", "email", "number", "url", "length", "range",
                          "minlength", "maxlength", "equalto", "required", "remote", "password", "fileextensions">>
    <2>1. first \in Seq(KnownAdapters)
      <3>1. <<"accept", "extension">> \in Seq(KnownAdapters) /\ <<"extension">> \in Seq(KnownAdapters)
        BY DEF KnownAdapters
      <3> QED
        BY <3>1
    <2>2. rest \in Seq(KnownAdapters)
      BY DEF KnownAdapters, BoolAdapters
    <2> QED
      BY <2>1, <2>2, ConcatProperties DEF Adapters
  <1> QED
    BY <1>1, LenProperties, ElementOfSeq DEF RegisteredAdapters

\* What the password adapter writes: a rule for each parameter that is there.
PasswordRule(params, p, ruleName) ==
  IF p \in DOMAIN params THEN {[rule |-> ruleName, arg |-> Param(params, p)]} ELSE {}

PasswordRules(params) ==
  PasswordRule(params, "min", "minlength") \union PasswordRule(params, "nonalphamin", "nonalphamin")
  \union PasswordRule(params, "regex", "regex")

\* Its three calls of setValidationValues amount to just these rules.
LEMMA PasswordWrites ==
  ASSUME NEW rules, IsRules(rules), NEW params
  PROVE  LET set == Password(rules, params)
             own == PasswordRules(params)
         IN /\ IsRules(set)
            /\ Written(set) = {r \in Written(rules) : \A w \in own : w.rule # r.rule} \union own
  <1> DEFINE Set(rs, p, n) == IF p \in DOMAIN params THEN AddSingleVal(rs, params, p, n) ELSE rs
             Of(p, n) == PasswordRule(params, p, n)
             Over(rs, p, n) == {r \in Written(rs) : \A w \in Of(p, n) : w.rule # r.rule} \union Of(p, n)
  <1>0. \A p, n : \A r \in Of(p, n) : r.rule = n
    BY DEF PasswordRule
  <1>1. ASSUME NEW rs, IsRules(rs), NEW p, NEW n
        PROVE  IsRules(Set(rs, p, n)) /\ Written(Set(rs, p, n)) = Over(rs, p, n)
    <2>1. CASE p \in DOMAIN params
      <3>1. Set(rs, p, n) = SetValidationValues(rs, n, Param(params, p)) /\ Of(p, n) = {[rule |-> n, arg |-> Param(params, p)]}
        BY <2>1 DEF AddSingleVal, PasswordRule
      <3> HIDE DEF Set, Of
      <3> QED
        BY <1>1, <3>1, SetWrites
    <2>2. CASE p \notin DOMAIN params
      BY <1>1, <2>2 DEF PasswordRule
    <2> QED
      BY <2>1, <2>2
  <1> DEFINE one == Set(rules, "min", "minlength")
             two == Set(one, "nonalphamin", "nonalphamin")
             three == Set(two, "regex", "regex")
  <1>2. Password(rules, params) = three
    BY DEF Password
  <1> HIDE DEF Set, Of
  <1>3. IsRules(one) /\ Written(one) = Over(rules, "min", "minlength")
    BY <1>1
  <1> HIDE DEF one
  <1>4. IsRules(two) /\ Written(two) = Over(one, "nonalphamin", "nonalphamin")
    BY <1>1, <1>3
  <1> HIDE DEF two
  <1>5. IsRules(three) /\ Written(three) = Over(two, "regex", "regex")
    BY <1>1, <1>4
  <1> HIDE DEF three
  <1>6. PasswordRules(params) = Of("min", "minlength") \union Of("nonalphamin", "nonalphamin") \union Of("regex", "regex")
    BY DEF PasswordRules, Of
  <1>7. Written(three) = {r \in Written(rules) : \A w \in PasswordRules(params) : w.rule # r.rule} \union PasswordRules(params)
    <2> HIDE DEF Over
    <2>1. ASSUME NEW r PROVE r \in Written(three) <=> r \in PasswordRules(params) \/ (r \in Written(rules) /\ \A w \in PasswordRules(params) : w.rule # r.rule)
      BY <1>3, <1>4, <1>5, <1>6, <1>0 DEF Over
    <2> QED
      BY <2>1
  <1> QED
    BY <1>2, <1>5, <1>7

\* The rules of an adapter on its own.
Writes(a, e, name, dom) == Written(Adapt(<<>>, a, e, name, dom))

\* An adapter replaces the rules it writes, whatever the others wrote.
LEMMA AdaptWrites ==
  ASSUME NEW rules, IsRules(rules), NEW a \in KnownAdapters, NEW e, NEW name, NEW dom
  PROVE  LET own == Writes(a, e, name, dom)
             adapted == Adapt(rules, a, e, name, dom)
         IN /\ IsRules(adapted)
            /\ Written(adapted) = {r \in Written(rules) : \A w \in own : w.rule # r.rule} \union own
  <1> DEFINE params == e.attrs[a]
             own == Writes(a, e, name, dom)
             adapted == Adapt(rules, a, e, name, dom)
             Goal == /\ IsRules(adapted)
                     /\ Written(adapted) = {r \in Written(rules) : \A w \in own : w.rule # r.rule} \union own
  <1>1. ASSUME NEW n, NEW arg, adapted = SetValidationValues(rules, n, arg),
               Adapt(<<>>, a, e, name, dom) = SetValidationValues(<<>>, n, arg)
        PROVE  Goal
    <2>1. own = {[rule |-> n, arg |-> arg]}
      BY <1>1, NoRules, SetWrites DEF Writes
    <2> QED
      BY <1>1, <2>1, SetWrites
  <1>2. ASSUME adapted = rules, Adapt(<<>>, a, e, name, dom) = <<>> PROVE Goal
    BY <1>2, NoRules DEF Writes
  <1>3. CASE a \in BoolAdapters
    <2>1. CASE a = "creditcard"
      BY <1>1, <2>1 DEF Adapt, AddBool, BoolAdapters
    <2>2. CASE a = "date"
      BY <1>1, <2>2 DEF Adapt, AddBool, BoolAdapters
    <2>3. CASE a = "digits"
      BY <1>1, <2>3 DEF Adapt, AddBool, BoolAdapters
    <2>4. CASE a = "email"
      BY <1>1, <2>4 DEF Adapt, AddBool, BoolAdapters
    <2>5. CASE a = "number"
      BY <1>1, <2>5 DEF Adapt, AddBool, BoolAdapters
    <2>6. CASE a = "url"
      BY <1>1, <2>6 DEF Adapt, AddBool, BoolAdapters
    <2> QED
      BY <1>3, <2>1, <2>2, <2>3, <2>4, <2>5, <2>6 DEF BoolAdapters
  <1>4. CASE a = "accept"
    BY <1>1, <1>4 DEF Adapt, AddSingleVal, BoolAdapters
  <1>5. CASE a = "extension"
    BY <1>1, <1>5 DEF Adapt, AddSingleVal, BoolAdapters
  <1>6. CASE a = "regex"
    BY <1>1, <1>6 DEF Adapt, AddSingleVal, BoolAdapters
  <1>7. ASSUME NEW minRule, NEW maxRule, NEW minMaxRule,
               adapted = AddMinMax(rules, params, minRule, maxRule, minMaxRule),
               Adapt(<<>>, a, e, name, dom) = AddMinMax(<<>>, params, minRule, maxRule, minMaxRule)
        PROVE  Goal
    <2> HIDE DEF Goal, own, adapted
    <2>1. CASE Param(params, "min") # <<>> /\ Param(params, "max") # <<>>
      BY <1>1, <1>7, <2>1 DEF AddMinMax
    <2>2. CASE Param(params, "min") # <<>> /\ Param(params, "max") = <<>>
      BY <1>1, <1>7, <2>2 DEF AddMinMax
    <2>3. CASE Param(params, "min") = <<>> /\ Param(params, "max") # <<>>
      BY <1>1, <1>7, <2>3 DEF AddMinMax
    <2>4. CASE Param(params, "min") = <<>> /\ Param(params, "max") = <<>>
      BY <1>2, <1>7, <2>4 DEF AddMinMax
    <2> QED
      BY <2>1, <2>2, <2>3, <2>4
  <1>8. CASE a \in {"length", "range", "minlength", "maxlength"}
    BY <1>7, <1>8 DEF Adapt, BoolAdapters
  <1>9. CASE a = "equalto"
    BY <1>1, <1>9 DEF Adapt, EqualTo, BoolAdapters
  <1>10. CASE a = "required"
    BY <1>1, <1>2, <1>10 DEF Adapt, Required, BoolAdapters
  <1>11. CASE a = "remote"
    BY <1>1, <1>11 DEF Adapt, Remote, BoolAdapters
  <1>12. CASE a = "fileextensions"
    BY <1>1, <1>12 DEF Adapt, AddSingleVal, BoolAdapters
  <1>13. CASE a = "password"
    <2>1. Adapt(rules, a, e, name, dom) = Password(rules, params) /\ Adapt(<<>>, a, e, name, dom) = Password(<<>>, params)
      BY <1>13 DEF Adapt, BoolAdapters
    <2>2. own = PasswordRules(params)
      BY <2>1, NoRules, PasswordWrites DEF Writes
    <2> QED
      BY <2>1, <2>2, PasswordWrites
  <1> QED
    BY <1>3, <1>4, <1>5, <1>6, <1>8, <1>9, <1>10, <1>11, <1>12, <1>13 DEF KnownAdapters

\* A rule written into no rules is the only one.
LEMMA WritesOne ==
  ASSUME NEW a, NEW e, NEW name, NEW dom, NEW n, NEW arg,
         Adapt(<<>>, a, e, name, dom) = SetValidationValues(<<>>, n, arg)
  PROVE  Writes(a, e, name, dom) = {[rule |-> n, arg |-> arg]}
  BY NoRules, SetWrites DEF Writes

\* What AddMinMax writes for its parameters.
MinMaxRules(params, minRule, maxRule, minMaxRule) ==
  LET min == Param(params, "min")
      max == Param(params, "max")
  IN {[rule |-> minMaxRule, arg |-> arg] : arg \in {x \in {min \o max} : min # <<>> /\ max # <<>>}}
     \union {[rule |-> minRule, arg |-> arg] : arg \in {x \in {min} : min # <<>> /\ max = <<>>}}
     \union {[rule |-> maxRule, arg |-> arg] : arg \in {x \in {max} : min = <<>> /\ max # <<>>}}

\* The rules of each adapter: those of addBool,
LEMMA BoolWrites ==
  ASSUME NEW a, NEW e, NEW name, NEW dom
  PROVE  LET params == e.attrs[a]
             own == Writes(a, e, name, dom)
         IN a \in BoolAdapters => own = {[rule |-> a, arg |-> <<TRUE>>]}
  <1> DEFINE params == e.attrs[a]
             own == Writes(a, e, name, dom)
  <1>0. ASSUME NEW n, NEW arg, Adapt(<<>>, a, e, name, dom) = SetValidationValues(<<>>, n, arg)
        PROVE  own = {[rule |-> n, arg |-> arg]}
    BY <1>0, WritesOne
  <1>1. ASSUME a \in BoolAdapters PROVE own = {[rule |-> a, arg |-> <<TRUE>>]}
    <2>1. CASE a = "creditcard"
      BY <1>0, <2>1 DEF Adapt, AddBool, BoolAdapters
    <2>2. CASE a = "date"
      BY <1>0, <2>2 DEF Adapt, AddBool, BoolAdapters
    <2>3. CASE a = "digits"
      BY <1>0, <2>3 DEF Adapt, AddBool, BoolAdapters
    <2>4. CASE a = "email"
      BY <1>0, <2>4 DEF Adapt, AddBool, BoolAdapters
    <2>5. CASE a = "number"
      BY <1>0, <2>5 DEF Adapt, AddBool, BoolAdapters
    <2>6. CASE a = "url"
      BY <1>0, <2>6 DEF Adapt, AddBool, BoolAdapters
    <2> QED
      BY <1>1, <2>1, <2>2, <2>3, <2>4, <2>5, <2>6 DEF BoolAdapters
  <1> QED
    BY <1>1

\* of addSingleVal,
LEMMA SingleWrites ==
  ASSUME NEW a, NEW e, NEW name, NEW dom
  PROVE  LET params == e.attrs[a]
             own == Writes(a, e, name, dom)
         IN /\ a = "accept" => own = {[rule |-> "accept", arg |-> Param(params, "mimtype")]}
            /\ a = "extension" => \E n \in {"extension", "accept"} : own = {[rule |-> n, arg |-> Param(params, "extension")]}
            /\ a = "regex" => own = {[rule |-> "regex", arg |-> Param(params, "pattern")]}
            /\ a = "fileextensions" => own = {[rule |-> "extension", arg |-> Param(params, "extensions")]}
  <1> DEFINE params == e.attrs[a]
             own == Writes(a, e, name, dom)
  <1>2. ASSUME a = "accept" PROVE own = {[rule |-> "accept", arg |-> Param(params, "mimtype")]}
    BY <1>2, WritesOne DEF Adapt, AddSingleVal, BoolAdapters
  <1>3. ASSUME a = "extension" PROVE \E n \in {"extension", "accept"} : own = {[rule |-> n, arg |-> Param(params, "extension")]}
    <2> DEFINE n == IF "extension" \in Methods THEN "extension" ELSE "accept"
    <2>1. Adapt(<<>>, a, e, name, dom) = SetValidationValues(<<>>, n, Param(params, "extension"))
      BY <1>3 DEF Adapt, AddSingleVal, BoolAdapters
    <2>2. n \in {"extension", "accept"}
      OBVIOUS
    <2> HIDE DEF n
    <2> QED
      BY <2>1, <2>2, WritesOne
  <1>4. ASSUME a = "regex" PROVE own = {[rule |-> "regex", arg |-> Param(params, "pattern")]}
    BY <1>4, WritesOne DEF Adapt, AddSingleVal, BoolAdapters
  <1>13. ASSUME a = "fileextensions" PROVE own = {[rule |-> "extension", arg |-> Param(params, "extensions")]}
    BY <1>13, WritesOne DEF Adapt, AddSingleVal, BoolAdapters
  <1> QED
    BY <1>2, <1>3, <1>4, <1>13

\* of addMinMax,
LEMMA MinMaxWrites ==
  ASSUME NEW a, NEW e, NEW name, NEW dom
  PROVE  LET params == e.attrs[a]
             own == Writes(a, e, name, dom)
         IN /\ a = "length" => own = MinMaxRules(params, "minlength", "maxlength", "rangelength")
            /\ a = "range" => own = MinMaxRules(params, "min", "max", "range")
            /\ a = "minlength" => own = MinMaxRules(params, "minlength", "undefined", "undefined")
            /\ a = "maxlength" => own = MinMaxRules(params, "minlength", "maxlength", "undefined")
  <1> DEFINE params == e.attrs[a]
             own == Writes(a, e, name, dom)
  <1>0. ASSUME NEW n, NEW arg, Adapt(<<>>, a, e, name, dom) = SetValidationValues(<<>>, n, arg)
        PROVE  own = {[rule |-> n, arg |-> arg]}
    BY <1>0, WritesOne
  <1>5. ASSUME NEW minRule, NEW maxRule, NEW minMaxRule,
               Adapt(<<>>, a, e, name, dom) = AddMinMax(<<>>, params, minRule, maxRule, minMaxRule)
        PROVE  own = MinMaxRules(params, minRule, maxRule, minMaxRule)
    <2> DEFINE min == Param(params, "min")
               max == Param(params, "max")
    <2>1. CASE min # <<>> /\ max # <<>>
      <3>1. own = {[rule |-> minMaxRule, arg |-> min \o max]}
        BY <1>0, <1>5, <2>1 DEF AddMinMax
      <3> HIDE DEF min, max
      <3> QED
        BY <2>1, <3>1 DEF MinMaxRules, min, max
    <2>2. CASE min # <<>> /\ max = <<>>
      <3>1. own = {[rule |-> minRule, arg |-> min]}
        BY <1>5, <2>2, WritesOne DEF AddMinMax
      <3> QED
        BY <2>2, <3>1 DEF MinMaxRules
    <2>3. CASE min = <<>> /\ max # <<>>
      <3>1. own = {[rule |-> maxRule, arg |-> max]}
        BY <1>5, <2>3, WritesOne DEF AddMinMax
      <3> QED
        BY <2>3, <3>1 DEF MinMaxRules
    <2>4. CASE min = <<>> /\ max = <<>>
      <3>1. own = {}
        BY <1>5, <2>4, NoRules DEF AddMinMax, Writes
      <3> QED
        BY <2>4, <3>1 DEF MinMaxRules
    <2> QED
      BY <2>1, <2>2, <2>3, <2>4
  <1>6. ASSUME a = "length" PROVE own = MinMaxRules(params, "minlength", "maxlength", "rangelength")
    BY <1>5, <1>6 DEF Adapt, BoolAdapters
  <1>7. ASSUME a = "range" PROVE own = MinMaxRules(params, "min", "max", "range")
    BY <1>5, <1>7 DEF Adapt, BoolAdapters
  <1>8. ASSUME a = "minlength" PROVE own = MinMaxRules(params, "minlength", "undefined", "undefined")
    BY <1>5, <1>8 DEF Adapt, BoolAdapters
  <1>9. ASSUME a = "maxlength" PROVE own = MinMaxRules(params, "minlength", "maxlength", "undefined")
    BY <1>5, <1>9 DEF Adapt, BoolAdapters
  <1> QED
    BY <1>6, <1>7, <1>8, <1>9

\* of equalto,
LEMMA EqualToWrites ==
  ASSUME NEW a, NEW e, NEW name, NEW dom
  PROVE  a = "equalto" =>
           Writes(a, e, name, dom)
             = {[rule |-> "equalTo", arg |-> IF AppendModelPrefix(e.attrs[a].other, name.model) \in dom
                                             THEN <<AppendModelPrefix(e.attrs[a].other, name.model)>> ELSE <<>>]}
  <1> DEFINE params == e.attrs[a]
             own == Writes(a, e, name, dom)
  <1>0. ASSUME NEW n, NEW arg, Adapt(<<>>, a, e, name, dom) = SetValidationValues(<<>>, n, arg)
        PROVE  own = {[rule |-> n, arg |-> arg]}
    BY <1>0, WritesOne
  <1>10. ASSUME a = "equalto"
         PROVE  own = {[rule |-> "equalTo", arg |-> IF AppendModelPrefix(params.other, name.model) \in dom
                                                    THEN <<AppendModelPrefix(params.other, name.model)>> ELSE <<>>]}
    <2> DEFINE other == AppendModelPrefix(params.other, name.model)
    <2>1. Adapt(<<>>, a, e, name, dom)
            = SetValidationValues(<<>>, "equalTo", IF other \in dom THEN <<other>> ELSE <<>>)
      BY <1>10 DEF Adapt, EqualTo, BoolAdapters
    <2> QED
      BY <1>0, <2>1
  <1> QED
    BY <1>10

\* of required,
LEMMA RequiredWrites ==
  ASSUME NEW e, NEW name, NEW dom
  PROVE  Writes("required", e, name, dom) = IF e.checkbox THEN {} ELSE {[rule |-> "required", arg |-> <<TRUE>>]}
  <1>1. Adapt(<<>>, "required", e, name, dom) = Required(<<>>, e)
    BY DEF Adapt, BoolAdapters
  <1>2. CASE e.checkbox
    BY <1>1, <1>2, NoRules DEF Required, Writes
  <1>3. CASE ~e.checkbox
    <2>1. ASSUME NEW a, a = "required", NEW n, NEW arg, Adapt(<<>>, a, e, name, dom) = SetValidationValues(<<>>, n, arg)
          PROVE  Writes(a, e, name, dom) = {[rule |-> n, arg |-> arg]}
      BY <2>1, WritesOne
    <2>2. Writes("required", e, name, dom) = {[rule |-> "required", arg |-> <<TRUE>>]}
      BY <1>1, <1>3, <2>1 DEF Required
    <2> QED
      BY <1>3, <2>2
  <1> QED
    BY <1>2, <1>3

\* of remote,
LEMMA RemoteWrites ==
  ASSUME NEW e, NEW name, NEW dom
  PROVE  \E arg : Writes("remote", e, name, dom) = {[rule |-> "remote", arg |-> arg]}
  <1>1. \E arg : Adapt(<<>>, "remote", e, name, dom) = SetValidationValues(<<>>, "remote", arg)
    BY DEF Adapt, Remote, BoolAdapters
  <1> QED
    BY <1>1, WritesOne

\* and of password.
LEMMA PasswordWritesOwn ==
  ASSUME NEW a, NEW e, NEW name, NEW dom
  PROVE  a = "password" => Writes(a, e, name, dom) = PasswordRules(e.attrs[a])
  <1> SUFFICES ASSUME a = "password" PROVE Writes(a, e, name, dom) = PasswordRules(e.attrs[a])
    OBVIOUS
  <1>1. Adapt(<<>>, a, e, name, dom) = Password(<<>>, e.attrs[a])
    BY DEF Adapt, BoolAdapters
  <1>2. \A params : Written(Password(<<>>, params))
                       = {r \in Written(<<>>) : \A w \in PasswordRules(params) : w.rule # r.rule} \union PasswordRules(params)
    BY NoRules, PasswordWrites
  <1>3. Written(Password(<<>>, e.attrs[a])) = PasswordRules(e.attrs[a])
    BY <1>2, NoRules
  <1> QED
    BY <1>1, <1>3 DEF Writes

\* Parsing is the recursion it is written as: there is such a function.
LEMMA ParsingSteps ==
  ASSUME NEW e, NEW name, NEW dom
  PROVE  LET p == Parsing(e, name, dom)
             N == Len(Adapters)
         IN /\ N \in Nat
            /\ p = [i \in 0..N |-> IF i = 0 THEN <<>>
                                   ELSE IF Adapters[i] \in DOMAIN e.attrs THEN Adapt(p[i - 1], Adapters[i], e, name, dom)
                                   ELSE p[i - 1]]
  <1> DEFINE N == Len(Adapters)
             Step(p, i) == IF Adapters[i] \in DOMAIN e.attrs THEN Adapt(p[i - 1], Adapters[i], e, name, dom) ELSE p[i - 1]
             Upto(n, p) == p = [i \in 0..n |-> IF i = 0 THEN <<>> ELSE Step(p, i)]
             S == {n \in Nat : \E p : Upto(n, p)}
  <1>0. N \in Nat
    BY AdaptersKnown, LenProperties
  <1>1. 0 \in S
    <2>1. Upto(0, [i \in 0..0 |-> <<>>])
      OBVIOUS
    <2> QED
      BY <2>1
  <1>2. ASSUME NEW n \in Nat, n \in S PROVE n + 1 \in S
    <2>1. PICK p : Upto(n, p)
      BY <1>2
    <2> DEFINE q == [i \in 0..(n + 1) |-> IF i = n + 1 THEN Step(p, n + 1) ELSE p[i]]
    <2>2. Upto(n + 1, q)
      <3>1. \A i \in 0..(n + 1) : i # 0 => q[i - 1] = p[i - 1]
        OBVIOUS
      <3>2. \A i \in 0..n : p[i] = IF i = 0 THEN <<>> ELSE Step(p, i)
        BY <2>1
      <3>3. \A i \in 0..(n + 1) : i # 0 => Step(q, i) = Step(p, i)
        BY <3>1
      <3>4. \A i \in 0..n : q[i] = IF i = 0 THEN <<>> ELSE Step(q, i)
        <4>1. \A i \in 0..n : q[i] = p[i] /\ i \in 0..(n + 1)
          OBVIOUS
        <4> HIDE DEF Step, q
        <4> QED
          BY <3>2, <3>3, <4>1
      <3>5. q[n + 1] = Step(q, n + 1)
        <4>1. q[n + 1] = Step(p, n + 1) /\ n + 1 \in 0..(n + 1) /\ n + 1 # 0
          OBVIOUS
        <4> HIDE DEF Step, q
        <4> QED
          BY <3>3, <4>1
      <3>6. \A i \in 0..(n + 1) : i \in 0..n \/ i = n + 1
        OBVIOUS
      <3>7. \A i \in 0..(n + 1) : q[i] = IF i = 0 THEN <<>> ELSE Step(q, i)
        <4> HIDE DEF Step, q
        <4> QED
          BY <3>4, <3>5, <3>6
      <3>8. q = [i \in 0..(n + 1) |-> q[i]]
        OBVIOUS
      <3> HIDE DEF Step, q
      <3> QED
        BY <3>7, <3>8
    <2> HIDE DEF Upto
    <2> QED
      BY <2>2
  <1>3. N \in S
    <2> HIDE DEF S, N
    <2> QED
      BY <1>0, <1>1, <1>2, SetInduction
  <1>4. Upto(N, CHOOSE p : Upto(N, p))
    <2> HIDE DEF Upto
    <2> QED
      BY <1>3
  <1>5. Parsing(e, name, dom) = CHOOSE p : Upto(N, p)
    BY DEF Parsing
  <1> QED
    BY <1>0, <1>4, <1>5

\* The adapters that an element declares.
Declared(e) == DOMAIN e.attrs \intersect RegisteredAdapters

\* No adapter writes "__dummy__".
LEMMA WritesNoDummy ==
  ASSUME NEW a \in KnownAdapters, NEW e, NEW name, NEW dom, NEW w \in Writes(a, e, name, dom)
  PROVE  w.rule # "__dummy__"
  <1> DEFINE params == e.attrs[a]
             own == Writes(a, e, name, dom)
  <1>1. \A x, y, z : x # "__dummy__" /\ y # "__dummy__" /\ z # "__dummy__" =>
          \A r \in MinMaxRules(params, x, y, z) : r.rule # "__dummy__"
    BY DEF MinMaxRules
  <1>2. \A r \in PasswordRules(params) : r.rule # "__dummy__"
    BY DEF PasswordRules, PasswordRule
  <1>3. CASE a \in BoolAdapters
    <2>1. own = {[rule |-> a, arg |-> <<TRUE>>]}
      BY <1>3, BoolWrites
    <2> QED
      BY <1>3, <2>1 DEF BoolAdapters
  <1>4. CASE a \in {"accept", "extension", "regex", "fileextensions"}
    BY <1>4, SingleWrites
  <1>5. CASE a \in {"length", "range", "minlength", "maxlength"}
    BY <1>1, <1>5, MinMaxWrites
  <1>6. CASE a = "password"
    <2>1. own = PasswordRules(params)
      BY <1>6, PasswordWritesOwn
    <2> QED
      BY <1>2, <2>1
  <1>7. CASE a = "equalto"
    <2>1. \E arg : own = {[rule |-> "equalTo", arg |-> arg]}
      BY <1>7, EqualToWrites
    <2> QED
      BY <2>1
  <1>8. CASE a = "required"
    <2>1. \E arg : own \subseteq {[rule |-> "required", arg |-> arg]}
      BY <1>8, RequiredWrites
    <2> QED
      BY <2>1
  <1>9. CASE a = "remote"
    <2>1. \E arg : own = {[rule |-> "remote", arg |-> arg]}
      BY <1>9, RemoteWrites
    <2> QED
      BY <2>1
  <1> QED
    BY <1>3, <1>4, <1>5, <1>6, <1>7, <1>8, <1>9 DEF KnownAdapters

\* What parsing leaves: nothing but the rules of the declared adapters, and all of
\* them if no two write the same rule.
LEMMA ParsingWrites ==
  ASSUME NEW e, NEW name, NEW dom
  PROVE  LET rules == Parsing(e, name, dom)[Len(Adapters)] IN
         /\ IsRules(rules)
         /\ \A r \in Written(rules) : \E a \in Declared(e) : r \in Writes(a, e, name, dom)
         /\ ~Conflicting(e, name, dom) => \A a \in Declared(e) : Writes(a, e, name, dom) \subseteq Written(rules)
  <1> DEFINE N == Len(Adapters)
             p == Parsing(e, name, dom)
             Own(a) == Writes(a, e, name, dom)
             Good(n) ==
               /\ IsRules(p[n])
               /\ \A r \in Written(p[n]) : \E a \in Declared(e) : r \in Own(a)
               /\ ~Conflicting(e, name, dom) => \A k \in 1..n : Adapters[k] \in DOMAIN e.attrs => Own(Adapters[k]) \subseteq Written(p[n])
             S == {n \in Nat : n <= N => Good(n)}
  <1>0. /\ N \in Nat /\ DOMAIN Adapters = 1..N
        /\ \A k \in 1..N : Adapters[k] \in RegisteredAdapters /\ Adapters[k] \in KnownAdapters
    BY AdaptersKnown, LenProperties, ElementOfSeq DEF RegisteredAdapters
  <1>1. /\ p[0] = <<>>
        /\ \A i \in 1..N : p[i] = IF Adapters[i] \in DOMAIN e.attrs THEN Adapt(p[i - 1], Adapters[i], e, name, dom) ELSE p[i - 1]
    <2>1. p = [i \in 0..N |-> IF i = 0 THEN <<>>
                              ELSE IF Adapters[i] \in DOMAIN e.attrs THEN Adapt(p[i - 1], Adapters[i], e, name, dom)
                              ELSE p[i - 1]]
      BY ParsingSteps
    <2> HIDE DEF p, N
    <2> QED
      BY <1>0, <2>1
  <1> HIDE DEF p, N, Own
  <1>2. 0 \in S
    BY <1>1, NoRules
  <1>3. ASSUME NEW n \in Nat, n \in S PROVE n + 1 \in S
    <2> SUFFICES ASSUME n + 1 <= N PROVE Good(n + 1)
      BY <1>3
    <2> DEFINE a == Adapters[n + 1]
    <2>1. Good(n) /\ n + 1 \in 1..N /\ (n + 1) - 1 = n
      BY <1>0, <1>3
    <2>2. CASE a \in DOMAIN e.attrs
      <3>1. p[n + 1] = Adapt(p[n], a, e, name, dom) /\ a \in Declared(e) /\ a \in KnownAdapters
        BY <1>0, <1>1, <2>1, <2>2 DEF Declared
      <3>2. /\ IsRules(p[n + 1])
            /\ Written(p[n + 1]) = {r \in Written(p[n]) : \A w \in Own(a) : w.rule # r.rule} \union Own(a)
        BY <2>1, <3>1, AdaptWrites DEF Own
      <3> HIDE DEF a
      <3>3. \A r \in Written(p[n + 1]) : \E b \in Declared(e) : r \in Own(b)
        BY <2>1, <3>1, <3>2
      <3>4. ASSUME ~Conflicting(e, name, dom), NEW k \in 1..(n + 1), Adapters[k] \in DOMAIN e.attrs
            PROVE  Own(Adapters[k]) \subseteq Written(p[n + 1])
        <4>1. CASE Adapters[k] = a
          BY <3>2, <4>1
        <4>2. CASE Adapters[k] # a
          <5>1. k \in 1..n
            BY <4>2 DEF a
          <5>2. Own(Adapters[k]) \subseteq Written(p[n])
            BY <2>1, <3>4, <5>1
          <5>3. \A w \in Own(a), r \in Own(Adapters[k]) : w.rule # r.rule
            <6>1. \A b : \A w \in Own(b) : w.rule \in RuleNames(Adapt(<<>>, b, e, name, dom))
              BY DEF Own, Writes, Written, RuleNames
            <6>2. a \in DOMAIN e.attrs
              BY <2>2
            <6>3. RuleNames(Adapt(<<>>, a, e, name, dom)) \intersect RuleNames(Adapt(<<>>, Adapters[k], e, name, dom)) = {}
              BY <3>4, <4>2, <6>2 DEF Conflicting
            <6> QED
              BY <6>1, <6>3
          <5> QED
            BY <3>2, <5>2, <5>3
        <4> QED
          BY <4>1, <4>2
      <3> QED
        BY <3>2, <3>3, <3>4
    <2>3. CASE a \notin DOMAIN e.attrs
      <3>1. p[n + 1] = p[n]
        BY <1>1, <2>1, <2>3
      <3>2. \A k \in 1..(n + 1) : Adapters[k] \in DOMAIN e.attrs => k \in 1..n
        BY <2>3
      <3> QED
        BY <2>1, <3>1, <3>2
    <2> QED
      BY <2>2, <2>3
  <1>4. Good(N)
    <2>1. Nat \subseteq S
      <3> HIDE DEF S
      <3> QED
        BY <1>2, <1>3, SetInduction
    <2> QED
      BY <1>0, <2>1
  <1>5. \A a \in Declared(e) : \E k \in 1..N : Adapters[k] = a
    BY <1>0 DEF Declared, RegisteredAdapters
  <1> QED
    BY <1>4, <1>5 DEF p, N, Own, Declared

\* The rule that always holds, which every parsed element gets.
Dummy == [rule |-> "__dummy__", arg |-> <<TRUE>>]

\* parseElement leaves the rules of the adapters and its own.
LEMMA ParseElementWrites ==
  ASSUME NEW e, NEW name, NEW dom
  PROVE  LET rules == ParseElement(e, name, dom) IN
         /\ IsRules(rules)
         /\ Dummy \in Written(rules)
         /\ \A r \in Written(rules) : r = Dummy \/ \E a \in Declared(e) : r \in Writes(a, e, name, dom)
         /\ ~Conflicting(e, name, dom) => \A a \in Declared(e) : Writes(a, e, name, dom) \subseteq Written(rules)
  <1> DEFINE before == Parsing(e, name, dom)[Len(Adapters)]
             rules == ParseElement(e, name, dom)
  <1>1. IsRules(rules) /\ Written(rules) = {r \in Written(before) : r.rule # "__dummy__"} \union {Dummy}
    BY ParsingWrites, SetWrites DEF ParseElement, Dummy
  <1>2. \A a \in Declared(e) : \A w \in Writes(a, e, name, dom) : w.rule # "__dummy__"
    BY AdaptersKnown, WritesNoDummy DEF Declared
  <1> QED
    BY <1>1, <1>2, ParsingWrites

-----------------------------------------------------------------------------
(* What the rules mean *)

\* When each rule of an adapter holds,
LEMMA HoldsWhen ==
  ASSUME NEW r, NEW v, NEW vals
  PROVE  LET holds == RuleHolds(r, v, vals) IN
         /\ r.rule = "__dummy__" => holds
         /\ r.rule = "required" => (holds <=> ~Optional(v))
         /\ r.rule = "equalTo" => (holds <=> v = vals[r.arg[1]])
         /\ r.rule = "nonalphamin" => (holds <=> v.nonalpha > 0 /\ v.nonalpha >= r.arg[1])
         /\ r.rule = "minlength" => (holds <=> Optional(v) \/ v.len >= r.arg[1])
         /\ r.rule = "maxlength" => (holds <=> Optional(v) \/ v.len <= r.arg[1])
         /\ r.rule = "rangelength" => (holds <=> Optional(v) \/ (r.arg[1] <= v.len /\ v.len <= r.arg[2]))
         /\ r.rule = "range" => (holds <=> Optional(v) \/ (r.arg[1] <= v.num /\ v.num <= r.arg[2]))
         /\ r.rule \in {"regex", "extension", "accept"} => (holds <=> Optional(v) \/ r.arg[1] \in v.whole)
  <1> DEFINE holds == RuleHolds(r, v, vals)
  <1>0. ASSUME r.rule = "__dummy__" PROVE holds
    BY <1>0 DEF RuleHolds
  <1>1. ASSUME r.rule = "required" PROVE holds <=> ~Optional(v)
    BY <1>1 DEF RuleHolds
  <1>2. ASSUME r.rule = "equalTo" PROVE holds <=> v = vals[r.arg[1]]
    BY <1>2 DEF RuleHolds
  <1>3. ASSUME r.rule = "nonalphamin" PROVE holds <=> v.nonalpha > 0 /\ v.nonalpha >= r.arg[1]
    BY <1>3 DEF RuleHolds
  <1>4. ASSUME r.rule = "minlength" PROVE holds <=> Optional(v) \/ v.len >= r.arg[1]
    BY <1>4 DEF RuleHolds, MethodAccepts, BoolAdapters
  <1>5. ASSUME r.rule = "maxlength" PROVE holds <=> Optional(v) \/ v.len <= r.arg[1]
    BY <1>5 DEF RuleHolds, MethodAccepts, BoolAdapters
  <1>6. ASSUME r.rule = "rangelength" PROVE holds <=> Optional(v) \/ (r.arg[1] <= v.len /\ v.len <= r.arg[2])
    BY <1>6 DEF RuleHolds, MethodAccepts, BoolAdapters
  <1>7. ASSUME r.rule = "range" PROVE holds <=> Optional(v) \/ (r.arg[1] <= v.num /\ v.num <= r.arg[2])
    BY <1>7 DEF RuleHolds, MethodAccepts, BoolAdapters
  <1>8. ASSUME r.rule \in {"regex", "extension", "accept"} PROVE holds <=> Optional(v) \/ r.arg[1] \in v.whole
    <2>1. CASE r.rule = "regex"
      BY <2>1 DEF RuleHolds, MethodAccepts, BoolAdapters
    <2>2. CASE r.rule = "extension"
      BY <2>2 DEF RuleHolds, MethodAccepts, BoolAdapters
    <2>3. CASE r.rule = "accept"
      BY <2>3 DEF RuleHolds, MethodAccepts, BoolAdapters
    <2> QED
      BY <1>8, <2>1, <2>2, <2>3
  <1> QED
    BY <1>0, <1>1, <1>2, <1>3, <1>4, <1>5, <1>6, <1>7, <1>8

\* and those of addBool: a format is a demand on what is not empty.
LEMMA BoolHoldsWhen ==
  ASSUME NEW r, r.rule \in BoolAdapters, NEW v, NEW vals
  PROVE  RuleHolds(r, v, vals) <=> Optional(v) \/ r.rule \in v.whole
  <1>1. CASE r.rule = "creditcard"
    BY <1>1 DEF RuleHolds, MethodAccepts, BoolAdapters
  <1>2. CASE r.rule = "date"
    BY <1>2 DEF RuleHolds, MethodAccepts, BoolAdapters
  <1>3. CASE r.rule = "digits"
    BY <1>3 DEF RuleHolds, MethodAccepts, BoolAdapters
  <1>4. CASE r.rule = "email"
    BY <1>4 DEF RuleHolds, MethodAccepts, BoolAdapters
  <1>5. CASE r.rule = "number"
    BY <1>5 DEF RuleHolds, MethodAccepts, BoolAdapters
  <1>6. CASE r.rule = "url"
    BY <1>6 DEF RuleHolds, MethodAccepts, BoolAdapters
  <1> QED
    BY <1>1, <1>2, <1>3, <1>4, <1>5, <1>6 DEF BoolAdapters

\* A parameter of the attribute is the argument of its rule.
LEMMA ParamIs ==
  ASSUME NEW params, NEW p
  PROVE  /\ p \in DOMAIN params => Param(params, p) # <<>> /\ Param(params, p)[1] = params[p]
         /\ p \notin DOMAIN params => Param(params, p) = <<>>
  BY DEF Param

\* A rule that has been met, as far as check() evaluates it, and one that failed.
Met(r, v, vals) == r.arg = <<>> \/ r.rule = "remote" \/ (r.rule \in Registered /\ RuleHolds(r, v, vals))

Broken(r, v, vals) == r.arg # <<>> /\ r.rule # "remote" /\ r.rule \in Registered /\ ~RuleHolds(r, v, vals)

\* A value of the numbers FormAssumption gives it.
IsValue(v) == v.len \in Nat /\ v.num \in Int /\ v.nonalpha \in Nat

\* The rules of addMinMax, by the parameters there are.
LEMMA MinMaxIs ==
  ASSUME NEW params, NEW minRule, NEW maxRule, NEW minMaxRule
  PROVE  LET rules == MinMaxRules(params, minRule, maxRule, minMaxRule)
             min == "min" \in DOMAIN params
             max == "max" \in DOMAIN params
         IN /\ min /\ max => rules = {[rule |-> minMaxRule, arg |-> <<params["min"], params["max"]>>]}
            /\ min /\ ~max => rules = {[rule |-> minRule, arg |-> <<params["min"]>>]}
            /\ ~min /\ max => rules = {[rule |-> maxRule, arg |-> <<params["max"]>>]}
            /\ ~min /\ ~max => rules = {}
  <1>1. ASSUME NEW p PROVE Param(params, p) = (IF p \in DOMAIN params THEN <<params[p]>> ELSE <<>>)
    BY DEF Param
  <1>2. ASSUME NEW x, NEW y PROVE <<x>> \o <<y>> = <<x, y>>
    <2> DEFINE both == <<x>> \o <<y>>
    <2>1. <<x>> \in Seq({x, y}) /\ <<y>> \in Seq({x, y}) /\ <<x, y>> \in Seq({x, y})
      OBVIOUS
    <2>2. both \in Seq({x, y}) /\ Len(both) = 2 /\ both[1] = x /\ both[2] = y
      BY <2>1, ConcatProperties
    <2> HIDE DEF both
    <2>3. Len(<<x, y>>) = 2 /\ \A i \in 1..Len(both) : both[i] = <<x, y>>[i]
      BY <2>2
    <2>4. both = <<x, y>>
      BY <2>1, <2>2, <2>3, SeqEqual
    <2> QED
      BY <2>4 DEF both
  <1> DEFINE min == Param(params, "min")
             max == Param(params, "max")
             minIn == "min" \in DOMAIN params
             maxIn == "max" \in DOMAIN params
             rules == MinMaxRules(params, minRule, maxRule, minMaxRule)
  <1>3. rules = {[rule |-> minMaxRule, arg |-> arg] : arg \in {x \in {min \o max} : min # <<>> /\ max # <<>>}}
                \union {[rule |-> minRule, arg |-> arg] : arg \in {x \in {min} : min # <<>> /\ max = <<>>}}
                \union {[rule |-> maxRule, arg |-> arg] : arg \in {x \in {max} : min = <<>> /\ max # <<>>}}
    BY DEF MinMaxRules
  <1>4. /\ minIn => min = <<params["min"]>> /\ min # <<>>
        /\ maxIn => max = <<params["max"]>> /\ max # <<>>
        /\ ~minIn => min = <<>>
        /\ ~maxIn => max = <<>>
    BY <1>1
  <1>5. minIn /\ maxIn => min \o max = <<params["min"], params["max"]>>
    BY <1>2, <1>4
  <1> HIDE DEF min, max, rules
  <1>6. /\ minIn /\ maxIn => rules = {[rule |-> minMaxRule, arg |-> min \o max]}
        /\ minIn /\ ~maxIn => rules = {[rule |-> minRule, arg |-> min]}
        /\ ~minIn /\ maxIn => rules = {[rule |-> maxRule, arg |-> max]}
        /\ ~minIn /\ ~maxIn => rules = {}
    BY <1>3, <1>4
  <1> QED
    BY <1>4, <1>5, <1>6 DEF rules

\* The rules of minimum and maximum against what the attribute announces; names an
\* adapter has no name for have no method.
LEMMA LengthsMean ==
  ASSUME NEW params, NEW v, IsValue(v), NEW vals, NEW maxRule \in {"maxlength", "undefined"},
         NEW minMaxRule \in {"rangelength", "undefined"},
         \A p \in DOMAIN params : p \in {"min", "max"} => params[p] \in Int
  PROVE  LET rules == MinMaxRules(params, "minlength", maxRule, minMaxRule)
             obeys == Optional(v) \/ Within(v.len, params)
         IN /\ (\A r \in rules : Met(r, v, vals)) => obeys
            /\ obeys => \A r \in rules : ~Broken(r, v, vals)
  <1> DEFINE rules == MinMaxRules(params, "minlength", maxRule, minMaxRule)
             obeys == Optional(v) \/ Within(v.len, params)
             min == "min" \in DOMAIN params
             max == "max" \in DOMAIN params
  <1>0. "undefined" \notin Registered
    BY MethodsAssumption DEF Registered
  <1>1. CASE min /\ max
    <2>1. rules = {[rule |-> minMaxRule, arg |-> <<params["min"], params["max"]>>]}
      BY <1>1, MinMaxIs
    <2>2. Within(v.len, params) <=> params["min"] <= v.len /\ v.len <= params["max"]
      BY <1>1 DEF Within
    <2>9. rules # {} /\ \A r \in rules : r.rule = minMaxRule /\ r.arg # <<>> /\ r.arg[1] = params["min"] /\ r.arg[2] = params["max"]
      <3> HIDE DEF rules
      <3> QED
        BY <2>1
    <2> QED
      BY <1>0, <2>9, <2>2, HoldsWhen DEF Met, Broken
  <1>2. CASE min /\ ~max
    <2>1. rules = {[rule |-> "minlength", arg |-> <<params["min"]>>]}
      BY <1>2, MinMaxIs
    <2>2. Within(v.len, params) <=> v.len >= params["min"]
      BY <1>2 DEF Within, IsValue
    <2>9. rules # {} /\ \A r \in rules : r.rule = "minlength" /\ r.arg # <<>> /\ r.arg[1] = params["min"]
      <3> HIDE DEF rules
      <3> QED
        BY <2>1
    <2> QED
      BY <1>0, <2>9, <2>2, HoldsWhen DEF Met, Broken
  <1>3. CASE ~min /\ max
    <2>1. rules = {[rule |-> maxRule, arg |-> <<params["max"]>>]}
      BY <1>3, MinMaxIs
    <2>2. Within(v.len, params) <=> v.len <= params["max"]
      BY <1>3 DEF Within
    <2>9. rules # {} /\ \A r \in rules : r.rule = maxRule /\ r.arg # <<>> /\ r.arg[1] = params["max"]
      <3> HIDE DEF rules
      <3> QED
        BY <2>1
    <2> QED
      BY <1>0, <2>9, <2>2, HoldsWhen DEF Met, Broken
  <1>4. CASE ~min /\ ~max
    BY <1>4, MinMaxIs DEF Within
  <1> QED
    BY <1>1, <1>2, <1>3, <1>4

\* The same for a range of numbers, if both bounds are there.
LEMMA RangeMeans ==
  ASSUME NEW params, NEW v, IsValue(v), NEW vals, ("min" \in DOMAIN params) = ("max" \in DOMAIN params),
         \A p \in DOMAIN params : p \in {"min", "max"} => params[p] \in Int
  PROVE  LET rules == MinMaxRules(params, "min", "max", "range")
             obeys == Optional(v) \/ Within(v.num, params)
         IN /\ (\A r \in rules : Met(r, v, vals)) => obeys
            /\ obeys => \A r \in rules : ~Broken(r, v, vals)
  <1> DEFINE rules == MinMaxRules(params, "min", "max", "range")
             obeys == Optional(v) \/ Within(v.num, params)
             min == "min" \in DOMAIN params
             max == "max" \in DOMAIN params
  <1>1. CASE min /\ max
    <2>1. rules = {[rule |-> "range", arg |-> <<params["min"], params["max"]>>]}
      BY <1>1, MinMaxIs
    <2>2. Within(v.num, params) <=> params["min"] <= v.num /\ v.num <= params["max"]
      BY <1>1 DEF Within
    <2>9. rules # {} /\ \A r \in rules : r.rule = "range" /\ r.arg # <<>> /\ r.arg[1] = params["min"] /\ r.arg[2] = params["max"]
      <3> HIDE DEF rules
      <3> QED
        BY <2>1
    <2> QED
      BY <2>9, <2>2, HoldsWhen DEF Met, Broken
  <1>2. CASE ~min /\ ~max
    BY <1>2, MinMaxIs DEF Within
  <1> QED
    BY <1>1, <1>2

\* A rule that looks for a pattern or a list.
LEMMA InstanceMeans ==
  ASSUME NEW n \in {"regex", "extension", "accept"}, NEW params, NEW p, NEW v, NEW vals
  PROVE  LET rule == [rule |-> n, arg |-> Param(params, p)]
             obeys == Optional(v) \/ (p \in DOMAIN params => params[p] \in v.whole)
         IN /\ Met(rule, v, vals) => obeys
            /\ obeys => ~Broken(rule, v, vals)
  BY HoldsWhen, ParamIs DEF Met, Broken

\* The three rules of a password together say what the attribute announces.
LEMMA PasswordMeans ==
  ASSUME NEW params, NEW v, IsValue(v), NEW vals,
         \A p \in DOMAIN params : (p \in {"min", "max"} => params[p] \in Int) /\ (p = "nonalphamin" => params[p] \in Nat \ {0})
  PROVE  LET obeys == /\ "nonalphamin" \in DOMAIN params => v.nonalpha >= params.nonalphamin
                      /\ "min" \in DOMAIN params => Optional(v) \/ v.len >= params.min
                      /\ Optional(v) \/ ("regex" \in DOMAIN params => params["regex"] \in v.whole)
         IN /\ (\A r \in PasswordRules(params) : Met(r, v, vals)) => obeys
            /\ obeys => \A r \in PasswordRules(params) : ~Broken(r, v, vals)
  <1> DEFINE Of(p, n) == PasswordRule(params, p, n)
             nonalpha == "nonalphamin" \in DOMAIN params => v.nonalpha >= params["nonalphamin"]
             min == "min" \in DOMAIN params => Optional(v) \/ v.len >= params["min"]
             regex == Optional(v) \/ ("regex" \in DOMAIN params => params["regex"] \in v.whole)
  <1>1. /\ (\A r \in Of("nonalphamin", "nonalphamin") : Met(r, v, vals)) => nonalpha
        /\ nonalpha => \A r \in Of("nonalphamin", "nonalphamin") : ~Broken(r, v, vals)
    <2>1. CASE "nonalphamin" \in DOMAIN params
      <3> DEFINE own == Of("nonalphamin", "nonalphamin")
      <3>1. own = {[rule |-> "nonalphamin", arg |-> <<params["nonalphamin"]>>]}
        BY <2>1 DEF PasswordRule, Param
      <3>2. params["nonalphamin"] \in Nat \ {0} /\ v.nonalpha \in Nat
        BY <2>1 DEF IsValue
      <3>9. own # {} /\ \A r \in own : r.rule = "nonalphamin" /\ r.arg # <<>> /\ r.arg[1] = params["nonalphamin"]
        <4> HIDE DEF own
        <4> QED
          BY <3>1
      <3> QED
        BY <2>1, <3>9, <3>2, HoldsWhen DEF Met, Broken
    <2> QED
      BY <2>1 DEF PasswordRule
  <1>2. /\ (\A r \in Of("min", "minlength") : Met(r, v, vals)) => min
        /\ min => \A r \in Of("min", "minlength") : ~Broken(r, v, vals)
    <2>1. CASE "min" \in DOMAIN params
      <3> DEFINE own == Of("min", "minlength")
      <3>1. own = {[rule |-> "minlength", arg |-> <<params["min"]>>]}
        BY <2>1 DEF PasswordRule, Param
      <3>9. own # {} /\ \A r \in own : r.rule = "minlength" /\ r.arg # <<>> /\ r.arg[1] = params["min"]
        <4> HIDE DEF own
        <4> QED
          BY <3>1
      <3> QED
        BY <2>1, <3>9, HoldsWhen DEF Met, Broken
    <2> QED
      BY <2>1 DEF PasswordRule
  <1>3. /\ (\A r \in Of("regex", "regex") : Met(r, v, vals)) => regex
        /\ regex => \A r \in Of("regex", "regex") : ~Broken(r, v, vals)
    <2>1. CASE "regex" \in DOMAIN params
      <3>1. Of("regex", "regex") = {[rule |-> "regex", arg |-> Param(params, "regex")]}
        BY <2>1 DEF PasswordRule
      <3> HIDE DEF Of
      <3> QED
        BY <2>1, <3>1, InstanceMeans
    <2> QED
      BY <2>1 DEF PasswordRule
  <1>4. PasswordRules(params) = Of("min", "minlength") \union Of("nonalphamin", "nonalphamin") \union Of("regex", "regex")
    BY DEF PasswordRules
  <1> HIDE DEF Of
  <1> QED
    BY <1>1, <1>2, <1>3, <1>4

\* One attribute of one element: its rules are met only by what obeys it, and broken
\* only by what does not.
LEMMA AdapterMeans ==
  ASSUME NEW e, NEW name, WellFormed(e, name), ~OneSided(e), NEW a \in Declared(e),
         NEW v, IsValue(v), NEW vals, NEW dom
  PROVE  /\ Fields \subseteq dom /\ (\A r \in Writes(a, e, name, dom) : Met(r, v, vals)) => Obeys(a, e, name, v, vals)
         /\ Obeys(a, e, name, v, vals) => \A r \in Writes(a, e, name, dom) : ~Broken(r, v, vals)
  <1> DEFINE params == e.attrs[a]
             own == Writes(a, e, name, dom)
             obeys == Obeys(a, e, name, v, vals)
             Goal == /\ Fields \subseteq dom /\ (\A r \in own : Met(r, v, vals)) => obeys
                     /\ obeys => \A r \in own : ~Broken(r, v, vals)
  <1>0. a \in KnownAdapters /\ a \in DOMAIN e.attrs
    BY AdaptersKnown DEF Declared
  <1>p. \A p \in DOMAIN params : (p \in {"min", "max"} => params[p] \in Int) /\ (p = "nonalphamin" => params[p] \in Nat \ {0})
    BY <1>0 DEF WellFormed
  <1>s. ASSUME NEW n \in {"regex", "extension", "accept"}, NEW p, own = {[rule |-> n, arg |-> Param(params, p)]},
               obeys <=> Optional(v) \/ (p \in DOMAIN params => params[p] \in v.whole)
        PROVE  Goal
    <2> QED
      BY <1>s, InstanceMeans
  <1>1. CASE a \in BoolAdapters
    <2>1. \E arg : arg # <<>> /\ own = {[rule |-> a, arg |-> arg]}
      BY <1>1, BoolWrites
    <2>2. obeys <=> Optional(v) \/ a \in v.whole
      <3>1. CASE a = "creditcard"
        BY <3>1 DEF Obeys, BoolAdapters
      <3>2. CASE a = "date"
        BY <3>2 DEF Obeys, BoolAdapters
      <3>3. CASE a = "digits"
        BY <3>3 DEF Obeys, BoolAdapters
      <3>4. CASE a = "email"
        BY <3>4 DEF Obeys, BoolAdapters
      <3>5. CASE a = "number"
        BY <3>5 DEF Obeys, BoolAdapters
      <3>6. CASE a = "url"
        BY <3>6 DEF Obeys, BoolAdapters
      <3> QED
        BY <1>1, <3>1, <3>2, <3>3, <3>4, <3>5, <3>6 DEF BoolAdapters
    <2>3. \A r \in own : r.rule = a /\ r.arg # <<>> /\ a # "remote"
      BY <1>1, <2>1 DEF BoolAdapters
    <2>4. own # {}
      BY <2>1
    <2> QED
      BY <1>1, <2>2, <2>3, <2>4, BoolHoldsWhen DEF Met, Broken
  <1>2. CASE a = "accept"
    <2>1. obeys <=> Optional(v) \/ ("mimtype" \in DOMAIN params => params["mimtype"] \in v.whole)
      BY <1>2 DEF Obeys, BoolAdapters
    <2>2. own = {[rule |-> "accept", arg |-> Param(params, "mimtype")]}
      BY <1>2, SingleWrites
    <2> QED
      BY <2>1, <2>2, <1>s
  <1>3. CASE a = "extension"
    <2>1. obeys <=> Optional(v) \/ ("extension" \in DOMAIN params => params["extension"] \in v.whole)
      BY <1>3 DEF Obeys, BoolAdapters
    <2>2. \E n \in {"extension", "accept"} : own = {[rule |-> n, arg |-> Param(params, "extension")]}
      BY <1>3, SingleWrites
    <2> QED
      BY <2>1, <2>2, <1>s
  <1>4. CASE a = "regex"
    <2>1. obeys <=> Optional(v) \/ ("pattern" \in DOMAIN params => params["pattern"] \in v.whole)
      BY <1>4 DEF Obeys, BoolAdapters
    <2>2. own = {[rule |-> "regex", arg |-> Param(params, "pattern")]}
      BY <1>4, SingleWrites
    <2> QED
      BY <2>1, <2>2, <1>s
  <1>5. CASE a = "fileextensions"
    <2>1. obeys <=> Optional(v) \/ ("extensions" \in DOMAIN params => params["extensions"] \in v.whole)
      BY <1>5 DEF Obeys, BoolAdapters
    <2>2. own = {[rule |-> "extension", arg |-> Param(params, "extensions")]}
      BY <1>5, SingleWrites
    <2> QED
      BY <2>1, <2>2, <1>s
  <1>6. CASE a \in {"length", "minlength", "maxlength"}
    <2>1. obeys <=> Optional(v) \/ Within(v.len, params)
      <3>1. CASE a = "length"
        BY <3>1 DEF Obeys, BoolAdapters
      <3>2. CASE a = "minlength"
        BY <3>2 DEF Obeys, BoolAdapters
      <3>3. CASE a = "maxlength"
        BY <3>3 DEF Obeys, BoolAdapters
      <3> QED
        BY <1>6, <3>1, <3>2, <3>3
    <2>2. \E maxRule \in {"maxlength", "undefined"}, minMaxRule \in {"rangelength", "undefined"} :
             own = MinMaxRules(params, "minlength", maxRule, minMaxRule)
      BY <1>6, MinMaxWrites
    <2> HIDE DEF params
    <2> QED
      BY <1>p, <2>1, <2>2, LengthsMean
  <1>7. CASE a = "range"
    <2>1. obeys <=> Optional(v) \/ Within(v.num, params)
      BY <1>7 DEF Obeys, BoolAdapters
    <2>2. own = MinMaxRules(params, "min", "max", "range")
      BY <1>7, MinMaxWrites
    <2>3. ("min" \in DOMAIN params) = ("max" \in DOMAIN params)
      BY <1>0, <1>7 DEF OneSided
    <2> HIDE DEF params
    <2> QED
      BY <1>p, <2>1, <2>2, <2>3, RangeMeans
  <1>8. CASE a = "equalto"
    <2>1. obeys <=> v = vals[Meant(params.other, name)]
      BY <1>8 DEF Obeys, BoolAdapters
    <2> DEFINE other == AppendModelPrefix(params.other, name.model)
    <2>2. own = {[rule |-> "equalTo", arg |-> IF other \in dom THEN <<other>> ELSE <<>>]}
      BY <1>8, EqualToWrites
    <2>3. other = Meant(params.other, name) /\ other \in Fields
      BY <1>0, <1>8 DEF WellFormed, IsName, AppendModelPrefix, Meant
    <2>4. CASE other \in dom
      <3>1. \A r \in own : r.rule = "equalTo" /\ r.arg # <<>> /\ r.arg[1] = other
        BY <2>2, <2>4
      <3>2. own # {}
        BY <2>2
      <3> HIDE DEF other
      <3> QED
        BY <2>1, <2>3, <3>1, <3>2, HoldsWhen DEF Met, Broken
    <2>5. CASE other \notin dom
      <3>1. \A r \in own : r.arg = <<>>
        BY <2>2, <2>5
      <3> HIDE DEF other
      <3> QED
        BY <2>3, <2>5, <3>1 DEF Met, Broken
    <2> QED
      BY <2>4, <2>5
  <1>9. CASE a = "required"
    <2>1. obeys <=> e.checkbox \/ ~Optional(v)
      BY <1>9 DEF Obeys, BoolAdapters
    <2>2. CASE e.checkbox
      <3>1. own = {}
        BY <1>9, <2>2, RequiredWrites
      <3> QED
        BY <2>1, <2>2, <3>1
    <2>3. CASE ~e.checkbox
      <3>1. \E arg : arg # <<>> /\ own = {[rule |-> "required", arg |-> arg]}
        BY <1>9, <2>3, RequiredWrites
      <3>2. own # {} /\ \A r \in own : r.rule = "required" /\ r.arg # <<>>
        BY <3>1
      <3> QED
        BY <2>1, <2>3, <3>2, HoldsWhen DEF Met, Broken
    <2> QED
      BY <2>2, <2>3
  <1>10. CASE a = "remote"
    <2>1. obeys
      BY <1>10 DEF Obeys, BoolAdapters
    <2>2. \A r \in own : r.rule = "remote"
      <3>1. \E arg : own = {[rule |-> "remote", arg |-> arg]}
        BY <1>10, RemoteWrites
      <3> QED
        BY <3>1
    <2> QED
      BY <2>1, <2>2 DEF Broken
  <1>11. CASE a = "password"
    <2>1. obeys <=> /\ "nonalphamin" \in DOMAIN params => v.nonalpha >= params.nonalphamin
                    /\ "min" \in DOMAIN params => Optional(v) \/ v.len >= params.min
                    /\ Optional(v) \/ ("regex" \in DOMAIN params => params["regex"] \in v.whole)
      BY <1>11 DEF Obeys, BoolAdapters
    <2>2. own = PasswordRules(params)
      BY <1>11, PasswordWritesOwn
    <2> HIDE DEF params
    <2> QED
      BY <1>p, <2>1, <2>2, PasswordMeans
  <1> QED
    BY <1>0, <1>1, <1>2, <1>3, <1>4, <1>5, <1>6, <1>7, <1>8, <1>9, <1>10, <1>11 DEF KnownAdapters

-----------------------------------------------------------------------------
(* Verdicts *)

\* check() comes to a verdict.  It throws only at a rule without method, has met all
\* rules when it passes and found a broken one when it fails, and always says
\* something of a field with "__dummy__".
LEMMA LocalVerdicts ==
  ASSUME NEW rules, IsRules(rules), NEW v, NEW vals
  PROVE  LET local == LocalVerdict(rules, v, vals) IN
         /\ local \in {"ok", "silent", "error", "throws"}
         /\ local = "throws" => ~AllKnown(rules)
         /\ local \in {"ok", "silent"} => AllKnown(rules) /\ \A r \in Written(rules) : Met(r, v, vals)
         /\ local = "error" => \E r \in Written(rules) : Broken(r, v, vals)
         /\ Dummy \in Written(rules) => local # "silent"
  <1> DEFINE L == LocalVerdict(rules, v, vals)
             unknown == {i \in Locals(rules) : rules[i].rule \notin Registered}
             failing == {i \in Locals(rules) \ unknown : ~RuleHolds(rules[i], v, vals)}
             silent == {i \in Copied(rules) : rules[i].rule \notin {"__dummy__", "required", "equalTo", "nonalphamin", "regex"}}
             first == \E i \in unknown : \A j \in (unknown \union failing) \ {i} : Precedes(rules, i, j)
  <1>1. L = IF first THEN "throws"
            ELSE IF unknown \union failing # {} THEN "error"
            ELSE IF Optional(v) /\ \E i \in silent : Copied(rules) = {i} THEN "silent" ELSE "ok"
    BY DEF LocalVerdict
  <1>2. Locals(rules) = {i \in DOMAIN rules : rules[i].arg # <<>> /\ rules[i].rule # "remote"}
    BY DEF Locals, Copied
  <1>3. first => ~AllKnown(rules)
    BY DEF AllKnown
  <1>4. unknown \union failing = {} => AllKnown(rules) /\ \A r \in Written(rules) : Met(r, v, vals)
    BY <1>2 DEF AllKnown, Written, Met
  <1>5. failing # {} => \E r \in Written(rules) : Broken(r, v, vals)
    BY <1>2 DEF Written, Broken
  <1>6. ASSUME unknown # {}, failing = {} PROVE first
    <2>1. CASE \E i \in unknown : rules[i].rule = "required"
      BY <2>1 DEF Precedes
    <2>2. CASE \A i \in unknown : rules[i].rule # "required"
      <3>1. unknown \in SUBSET Nat
        BY <1>2, LenProperties DEF IsRules
      <3>2. PICK i \in unknown : \A j \in unknown : i <= j
        <4> HIDE DEF unknown
        <4> QED
          BY <1>6, <3>1, Least
      <3>3. \A j \in unknown \ {i} : i < j
        BY <3>1, <3>2
      <3> QED
        BY <1>6, <2>2, <3>3 DEF Precedes
    <2> QED
      BY <2>1, <2>2
  <1>7. Dummy \in Written(rules) => ~\E i \in silent : Copied(rules) = {i}
    <2> SUFFICES ASSUME NEW k \in DOMAIN rules, rules[k] = Dummy, NEW i \in silent, Copied(rules) = {i}
                 PROVE  FALSE
      BY DEF Written
    <2>1. k \in Copied(rules) /\ rules[k].rule = "__dummy__"
      BY DEF Copied, Dummy
    <2> QED
      BY <2>1
  <1> HIDE DEF L, unknown, failing, silent, first
  <1>8. /\ L = "throws" => first
        /\ L = "error" => ~first /\ unknown \union failing # {}
        /\ L \in {"ok", "silent"} => unknown \union failing = {}
        /\ L = "silent" => \E i \in silent : Copied(rules) = {i}
        /\ L \in {"ok", "silent", "error", "throws"}
    BY <1>1
  <1> QED
    BY <1>3, <1>4, <1>5, <1>6, <1>7, <1>8 DEF L

\* The rules of a parsed element pass a value only if it obeys all the attributes, when
\* every one has an adapter, no two write the same rule, and the fields they refer to
\* were there; and refuse it, whatever fields were there, only if it does not.
LEMMA RulesMean ==
  ASSUME NEW e, NEW name, WellFormed(e, name), ~OneSided(e), NEW v, IsValue(v), NEW vals
  PROVE  /\ /\ DOMAIN e.attrs \subseteq RegisteredAdapters
            /\ ~Conflicting(e, name, Fields)
            /\ LocalVerdict(ParseElement(e, name, Fields), v, vals) \in {"ok", "silent"}
            => ObeysAll(e, name, v, vals)
         /\ \A P : LocalVerdict(ParseElement(e, name, P), v, vals) = "error" => ~ObeysAll(e, name, v, vals)
  <1>1. ASSUME DOMAIN e.attrs \subseteq RegisteredAdapters, ~Conflicting(e, name, Fields),
               LocalVerdict(ParseElement(e, name, Fields), v, vals) \in {"ok", "silent"},
               NEW a \in DOMAIN e.attrs
        PROVE  Obeys(a, e, name, v, vals)
    <2> DEFINE rules == ParseElement(e, name, Fields)
    <2>1. a \in Declared(e)
      BY <1>1 DEF Declared
    <2>2. IsRules(rules) /\ Writes(a, e, name, Fields) \subseteq Written(rules)
      BY <1>1, <2>1, ParseElementWrites
    <2>3. \A r \in Written(rules) : Met(r, v, vals)
      BY <1>1, <2>2, LocalVerdicts
    <2>4. \A r \in Writes(a, e, name, Fields) : Met(r, v, vals)
      BY <2>2, <2>3
    <2> QED
      BY <2>1, <2>4, AdapterMeans
  <1>2. ASSUME NEW P, LocalVerdict(ParseElement(e, name, P), v, vals) = "error"
        PROVE  \E a \in DOMAIN e.attrs : ~Obeys(a, e, name, v, vals)
    <2> DEFINE rules == ParseElement(e, name, P)
    <2>1. IsRules(rules) /\ \A r \in Written(rules) : r = Dummy \/ \E a \in Declared(e) : r \in Writes(a, e, name, P)
      BY ParseElementWrites
    <2>2. PICK r \in Written(rules) : Broken(r, v, vals)
      BY <1>2, <2>1, LocalVerdicts
    <2>3. r # Dummy
      BY <2>2, HoldsWhen DEF Broken, Dummy
    <2>4. PICK a \in Declared(e) : r \in Writes(a, e, name, P)
      BY <2>1, <2>2, <2>3
    <2>5. ~Obeys(a, e, name, v, vals)
      BY <2>2, <2>4, AdapterMeans
    <2> QED
      BY <2>4, <2>5 DEF Declared
  <1> QED
    BY <1>1, <1>2 DEF ObeysAll

\* A field that was parsed has rules that say something.
LEMMA ParsedIsRules ==
  ASSUME NEW f, NEW rules, Parsed(rules, f)
  PROVE  IsRules(rules) /\ Dummy \in Written(rules)
  BY ParseElementWrites DEF Parsed

\* The same with the previousValues: what each verdict on a field means.
LEMMA VerdictMeans ==
  ASSUME RulesFit, NEW f, NEW prev
  PROVE  LET v == Verdict(f, prev) IN
         /\ v \in {"ok", "silent", "error", "throws", "pending"}
         /\ v # "silent" => f \in Attached
         /\ v = "silent" => f \notin Attached
         /\ v = "throws" => ~AllKnown(settings[f])
         /\ v \in {"ok", "pending"} => Local(f) = "ok" /\ AllKnown(settings[f])
         /\ v = "ok" /\ Asks(f) => prev[f] # NoPrevious /\ prev[f].old = Query(f) /\ prev[f].valid
  <1> DEFINE v == Verdict(f, prev)
  <1>1. CASE f \notin Attached
    BY <1>1 DEF Verdict
  <1>2. CASE f \in Attached /\ (Local(f) # "ok" \/ ~Asks(f))
    <2>1. v = Local(f)
      BY <1>2 DEF Verdict
    <2>2. IsRules(settings[f]) /\ Dummy \in Written(settings[f])
      BY <1>2, ParsedIsRules DEF RulesFit
    <2> QED
      BY <1>2, <2>1, <2>2, LocalVerdicts DEF Local
  <1>3. CASE f \in Attached /\ Local(f) = "ok" /\ Asks(f)
    <2>1. v \in {"ok", "error", "pending"}
      BY <1>3 DEF Verdict
    <2>2. v = "ok" => prev[f] # NoPrevious /\ prev[f].old = Query(f) /\ prev[f].valid
      BY <1>3 DEF Verdict
    <2>3. AllKnown(settings[f])
      BY <1>3, ParsedIsRules, LocalVerdicts DEF Local, RulesFit
    <2> QED
      BY <1>3, <2>1, <2>2, <2>3
  <1> QED
    BY <1>1, <1>2, <1>3

\* The verdicts on some fields, and the fields with a given verdict.
LEMMA VerdictDomain ==
  ASSUME NEW F, NEW prev
  PROVE  /\ DOMAIN Verdicts(F, prev) = F
         /\ \A f \in F : Verdicts(F, prev)[f] = Verdict(f, prev)
         /\ \A x : With(x, Verdicts(F, prev)) = {f \in F : Verdict(f, prev) = x}
  BY DEF Verdicts, With

\* A query is a function from fields to values, and no model value for its absence.
LEMMA QueryIsQuery ==
  ASSUME DocumentOK, NEW f \in Fields
  PROVE  IsQuery(Query(f)) /\ Query(f) # NoRequest
  <1> DEFINE F == {f} \union (RemoteFields(settings[f]) \intersect present)
  <1>1. F \subseteq Fields /\ Query(f) \in [F -> Values] /\ DOMAIN Query(f) = F
    BY DEF Query, DocumentOK
  <1>2. NoRequest \notin [F -> Values]
    BY <1>1, FormAssumption DEF FormAssumption
  <1> QED
    BY <1>1, <1>2 DEF IsQuery

-----------------------------------------------------------------------------
(* Requests *)

\* What IInv says of requests, as a function of the request variables.
RequestsFit(prev, flight, pend, count) ==
  /\ pend \subseteq Fields /\ DOMAIN prev = Fields /\ DOMAIN flight = Fields
  /\ count = Cardinality(pend)
  /\ \A f \in Fields :
       /\ flight[f] = NoRequest \/ IsQuery(flight[f])
       /\ \/ prev[f] = NoPrevious
          \/ IsQuery(prev[f].old) /\ prev[f] \in [old : {prev[f].old}, valid : BOOLEAN]
       /\ f \notin Attached => prev[f] = NoPrevious /\ flight[f] = NoRequest
       /\ flight[f] # NoRequest => f \in pend /\ (prev[f] # NoPrevious => prev[f].old = flight[f])
       /\ prev[f] # NoPrevious /\ f \notin pend => prev[f].valid = (prev[f].old \in Accepted)
       /\ f \in pend /\ flight[f] = NoRequest => losses > 0

\* The same of the present requests.
Fit == RequestsFit(previous, inflight, pending, pendingRequest)

\* IInv says this of the present requests;
LEMMA FitNow == ASSUME IInv PROVE Fit
  BY DEF IInv, Fit, RequestsFit, TypeOK, RequestsOK, OnlyAttached, PreviousFits, PendingCounted, BlockedByLoss

\* and IInv follows from it in the next state.
LEMMA FitThen ==
  ASSUME Fit', \A f \in Fields \ Attached' : ~container'[f], losses' \in 0..MaxLosses
  PROVE  /\ RequestsOK' /\ PreviousFits' /\ PendingCounted' /\ BlockedByLoss' /\ OnlyAttached'
  <1>1. IsFiniteSet(pending')
    BY FS_Subset, FormAssumption DEF Fit, RequestsFit, FormAssumption
  <1>2. pendingRequest' \in Nat
    BY <1>1, FS_CardinalityType DEF Fit, RequestsFit
  <1> QED
    BY <1>2 DEF Fit, RequestsFit, RequestsOK, PreviousFits, PendingCounted, BlockedByLoss, OnlyAttached

\* The counter counts a set: adding and removing.
LEMMA Counting ==
  ASSUME NEW P \in SUBSET Fields, NEW A \in SUBSET Fields
  PROVE  /\ Cardinality(P \union A) = Cardinality(P) + Cardinality(A \ P)
         /\ \A f \in P : Cardinality(P \ {f}) = NotPending(Cardinality(P))
         /\ Cardinality(P) \in Nat
         /\ Cardinality(P) = 0 => P = {}
  <1>1. IsFiniteSet(P) /\ IsFiniteSet(A \ P)
    BY FS_Subset, FormAssumption DEF FormAssumption
  <1>2. Cardinality(P) \in Nat /\ Cardinality(A \ P) \in Nat
    BY <1>1, FS_CardinalityType
  <1>3. P \union A = P \union (A \ P) /\ P \intersect (A \ P) = {}
    OBVIOUS
  <1>4. Cardinality(P \union A) = Cardinality(P) + Cardinality(A \ P)
    <2>1. Cardinality(P \union (A \ P)) = Cardinality(P) + Cardinality(A \ P) - Cardinality(P \intersect (A \ P))
      BY <1>1, FS_Union
    <2>2. Cardinality(P \intersect (A \ P)) = 0
      BY <1>3, FS_EmptySet
    <2> QED
      BY <2>1, <2>2, <1>2, <1>3
  <1>5. ASSUME NEW f \in P PROVE Cardinality(P \ {f}) = NotPending(Cardinality(P))
    <2>1. Cardinality(P \ {f}) = Cardinality(P) - 1 /\ IsFiniteSet(P \ {f})
      BY <1>1, FS_RemoveElement
    <2>2. Cardinality(P \ {f}) \in Nat
      BY <2>1, FS_CardinalityType
    <2> QED
      BY <1>2, <2>1, <2>2 DEF NotPending
  <1>6. Cardinality(P) = 0 => P = {}
    BY <1>1, FS_EmptySet
  <1> QED
    BY <1>2, <1>4, <1>5, <1>6

\* remote() keeps the requests in order, for any fields whose verdict is pending.
LEMMA StartFits ==
  ASSUME DocumentOK, RulesFit, NEW F \in SUBSET Fields, NEW seen,
         NEW prev, NEW flight, NEW pend, NEW count, RequestsFit(prev, flight, pend, count),
         StartRequests(Verdicts(F, seen), prev, flight, pend, count),
         UNCHANGED <<settings, losses>>
  PROVE  Fit'
  <1> DEFINE asking == With("pending", Verdicts(F, seen))
  <1>1. asking \subseteq Fields /\ asking \subseteq Attached
    BY VerdictDomain, VerdictMeans
  <1> USE DEF RequestsFit
  <1>2. /\ previous' = [f \in Fields |-> IF f \in asking
                       THEN [old |-> Query(f), valid |-> IF prev[f] = NoPrevious THEN TRUE ELSE prev[f].valid]
                       ELSE prev[f]]
        /\ inflight' = [f \in Fields |-> IF f \in asking THEN Query(f) ELSE flight[f]]
        /\ pending' = pend \union asking
        /\ pendingRequest' = count + Cardinality(asking \ pend)
    BY DEF StartRequests, Counted
  <1>3. pending' \subseteq Fields /\ pendingRequest' = Cardinality(pending')
    BY <1>1, <1>2, Counting
  <1>4. ASSUME NEW f \in asking
        PROVE  /\ IsQuery(inflight'[f]) /\ inflight'[f] # NoRequest /\ f \in pending'
               /\ previous'[f].old = inflight'[f]
               /\ previous'[f] \in [old : {previous'[f].old}, valid : BOOLEAN]
    <2>1. IsQuery(Query(f)) /\ Query(f) # NoRequest
      BY <1>1, QueryIsQuery
    <2>2. (IF prev[f] = NoPrevious THEN TRUE ELSE prev[f].valid) \in BOOLEAN
      BY <1>1
    <2>3. previous'[f] = [old |-> Query(f), valid |-> IF prev[f] = NoPrevious THEN TRUE ELSE prev[f].valid]
      BY <1>1, <1>2
    <2> QED
      BY <1>1, <1>2, <2>1, <2>2, <2>3
  <1>5. ASSUME NEW f \in Fields \ asking
        PROVE  inflight'[f] = flight[f] /\ previous'[f] = prev[f] /\ (f \in pending' <=> f \in pend)
    BY <1>2
  <1>6. DOMAIN previous' = Fields /\ DOMAIN inflight' = Fields
    BY <1>2
  <1>7. Attached' = Attached /\ losses' = losses
    BY DEF Attached
  <1> QED
    BY <1>1, <1>3, <1>4, <1>5, <1>6, <1>7 DEF Fit

\* success() of a request, up to the check that stopRequest may start.
LEMMA AnswerFits ==
  ASSUME IInv, NEW f \in Fields, inflight[f] # NoRequest, NEW valid \in BOOLEAN,
         valid = (inflight[f] \in Accepted)
  PROVE  RequestsFit(Answered(f, valid), [inflight EXCEPT ![f] = NoRequest], Stopped(f),
                     NotPending(pendingRequest))
  <1> DEFINE prev == Answered(f, valid)
             flight == [inflight EXCEPT ![f] = NoRequest]
  <1> USE FitNow DEF Fit, RequestsFit
  <1>1. f \in pending /\ Stopped(f) = pending \ {f} /\ Stopped(f) \subseteq Fields
    BY DEF Stopped
  <1>2. NotPending(pendingRequest) = Cardinality(Stopped(f))
    BY <1>1, Counting
  <1>3. /\ DOMAIN prev = Fields /\ DOMAIN flight = Fields
        /\ \A g \in Fields \ {f} : prev[g] = previous[g] /\ flight[g] = inflight[g]
        /\ flight[f] = NoRequest
    BY DEF Answered
  <1>4. CASE previous[f] = NoPrevious
    <2>1. prev[f] = NoPrevious
      BY <1>4 DEF Answered
    <2> QED
      BY <1>1, <1>2, <1>3, <2>1
  <1>5. CASE previous[f] # NoPrevious
    <2>1. previous[f].old = inflight[f] /\ previous[f] \in [old : {previous[f].old}, valid : BOOLEAN]
      BY <1>5
    <2>2. prev[f] = [previous[f] EXCEPT !.valid = valid]
      BY <1>5 DEF Answered
    <2>3. prev[f].old = inflight[f] /\ prev[f].valid = valid /\ prev[f] \in [old : {prev[f].old}, valid : BOOLEAN]
      BY <2>1, <2>2
    <2>4. f \in Attached
      OBVIOUS
    <2> QED
      BY <1>1, <1>2, <1>3, <2>3, <2>4
  <1> QED
    BY <1>4, <1>5

-----------------------------------------------------------------------------
(* The initial states *)

\* A page that was just loaded.
LEMMA InitIInv == ASSUME Init PROVE IInv
  <1> USE FormAssumption DEF Init, FormAssumption, Attached
  <1>1. TypeOK
    <2>1. DocumentOK
      <3>1. Empty \in Values
        BY DEF Values
      <3> QED
        BY <3>1 DEF DocumentOK
    <2>2. RulesOK
      BY DEF RulesOK
    <2>3. RequestsOK
      BY DEF RequestsOK
    <2>4. FlagsOK
      BY DEF FlagsOK
    <2> QED
      BY <2>1, <2>2, <2>3, <2>4 DEF TypeOK
  <1>2. RulesFit /\ OnlyAttached /\ PreviousFits /\ WaitingCanCheck
    BY DEF RulesFit, OnlyAttached, PreviousFits, WaitingCanCheck
  <1>3. PendingCounted
    BY FS_EmptySet DEF PendingCounted
  <1>4. BlockedByLoss /\ ErrorIsLive /\ SentIsChecked
    BY DEF BlockedByLoss, ErrorIsLive, SentIsChecked
  <1> QED
    BY <1>1, <1>2, <1>3, <1>4 DEF IInv

-----------------------------------------------------------------------------
(* The document and the rules *)

\* Neither checking a field nor an answer changes the document or the rules.
LEMMA Quiet ==
  ASSUME NEW f \in Fields,
         KeyUp(f) \/ (\E G \in SUBSET Followers(f) : Blur(f, G)) \/ Answer(f) \/ Lose(f)
  PROVE  UNCHANGED <<documentVars, ruleVars>>
  BY DEF KeyUp, Blur, Answer, AnswerValid, AnswerResumes, AnswerInvalid, Lose

\* parse and parseElement leave every field the rules of its markup.
LEMMA ParsedFits ==
  ASSUME DocumentOK, RulesOK, RulesFit, NEW F \in SUBSET present,
         options' = WithParsed(F), AttachValidation(options') \/ UNCHANGED <<settings, attached>>,
         UNCHANGED <<page, present>>
  PROVE  RulesOK' /\ RulesFit' /\ Attached \subseteq Attached'
  <1> USE DEF DocumentOK, RulesOK, Attached
  <1>1. DOMAIN options' = DOMAIN options \union F /\ DOMAIN options' \subseteq present
    BY DEF WithParsed
  <1>3. ASSUME NEW f \in DOMAIN options' PROVE Parsed(options'[f], f)
    <2>1. CASE f \in F
      BY <2>1 DEF WithParsed, Parsed
    <2>2. CASE f \notin F
      BY <1>1, <2>2 DEF WithParsed, RulesFit
    <2> QED
      BY <2>1, <2>2
  <1> QED
    BY <1>1, <1>3 DEF RulesFit, Parsed, Element, AttachValidation

\* No step breaks the document or gives a field rules its markup does not have.
LEMMA NextDocument ==
  ASSUME IInv, [Next]_vars
  PROVE  DocumentOK' /\ RulesOK' /\ RulesFit'
  <1> USE DEF IInv, TypeOK, documentVars, ruleVars
  <1>1. ASSUME Parse PROVE DocumentOK' /\ RulesOK' /\ RulesFit'
    BY <1>1, ParsedFits DEF Parse, Validated, DocumentOK
  <1>2. ASSUME NEW f \in Fields, NEW s \in BOOLEAN, ParseOne(f, s) PROVE DocumentOK' /\ RulesOK' /\ RulesFit'
    BY <1>2, ParsedFits DEF ParseOne, DocumentOK
  <1>3. ASSUME NEW f \in Fields, Insert(f) PROVE DocumentOK' /\ RulesOK' /\ RulesFit'
    BY <1>3 DEF Insert, DocumentOK, RulesOK, RulesFit, Parsed, Attached, Element
  <1>4. ASSUME NEW f \in Fields, NEW v \in page.inputs[f], Type(f, v) PROVE DocumentOK' /\ RulesOK' /\ RulesFit'
    <2>1. v \in Values
      BY <1>4 DEF Values, DocumentOK
    <2> QED
      BY <1>4, <2>1 DEF Type, DocumentOK, RulesOK, RulesFit, Parsed, Attached, Element
  <1>5. ASSUME Reset PROVE DocumentOK' /\ RulesOK' /\ RulesFit'
    BY <1>5 DEF Reset, DocumentOK, RulesOK, RulesFit, Parsed, Attached, Element, Values
  <1>6. ASSUME UNCHANGED <<documentVars, ruleVars>> PROVE DocumentOK' /\ RulesOK' /\ RulesFit'
    BY <1>6 DEF DocumentOK, RulesOK, RulesFit, Parsed, Attached, Element
  <1>7. ASSUME NEW f \in Fields,
               KeyUp(f) \/ (\E G \in SUBSET Followers(f) : Blur(f, G)) \/ Answer(f) \/ Lose(f)
        PROVE UNCHANGED <<documentVars, ruleVars>>
    BY <1>7, Quiet
  <1>8. ASSUME SubmitUnchecked \/ Submit \/ UNCHANGED vars PROVE UNCHANGED <<documentVars, ruleVars>>
    BY <1>8 DEF SubmitUnchecked, Submit, vars
  <1> QED
    BY <1>1, <1>2, <1>3, <1>4, <1>5, <1>6, <1>7, <1>8 DEF Next, User, Event, Script

-----------------------------------------------------------------------------
(* Requests and messages *)

\* The part of IInv about requests and messages.
Shown == /\ Fit /\ FlagsOK /\ ErrorIsLive
         /\ \A f \in Fields \ Attached : ~container[f]
         /\ losses \in 0..MaxLosses

\* IInv says this of the present messages.
LEMMA ShownNow == ASSUME IInv PROVE Shown
  BY FitNow DEF Shown, IInv, TypeOK, RequestsOK, OnlyAttached

\* A message that shows after showErrors is new, or showed before and was not taken back.
LEMMA LabelledFields ==
  ASSUME NEW F \in SUBSET Fields, NEW seen, NEW boxes \in [Fields -> BOOLEAN]
  PROVE  LET vs == Verdicts(F, seen) IN
         /\ Labelled(boxes, vs) \in [Fields -> BOOLEAN]
         /\ \A f \in Fields : Labelled(boxes, vs)[f] =>
              f \in With("error", vs) \/ (boxes[f] /\ f \notin With("ok", vs))
  BY DEF Labelled, onError, onSuccess

\* element(), for any fields.
LEMMA ElementsShown ==
  ASSUME IInv, NEW F \in SUBSET Fields, CheckElements(Verdicts(F, previous)),
         UNCHANGED <<documentVars, ruleVars, summary, formSubmitted, sent, losses>>
  PROVE  Shown'
  <1> DEFINE vs == Verdicts(F, previous)
  <1>1. Fit'
    BY FitNow, StartFits DEF IInv, TypeOK, CheckElements, ruleVars, Fit
  <1>2. With("error", vs) \subseteq F /\ With("error", vs) \subseteq Attached /\ DOMAIN vs = F
    BY VerdictDomain, VerdictMeans DEF IInv
  <1>3. container' = Labelled(container, vs) /\ container \in [Fields -> BOOLEAN]
    BY DEF CheckElements, IInv, TypeOK, FlagsOK
  <1>4. submitted' = submitted \union With("error", vs) /\ invalid \subseteq invalid' /\ invalid' \subseteq Fields
    BY <1>2 DEF CheckElements, IInv, TypeOK, FlagsOK
  <1>5. pending \subseteq pending'
    BY DEF CheckElements, StartRequests
  <1>6. FlagsOK'
    BY <1>2, <1>3, <1>4, LabelledFields DEF IInv, TypeOK, FlagsOK
  <1>7. ErrorIsLive'
    BY <1>3, <1>4, <1>5, LabelledFields DEF IInv, ErrorIsLive
  <1>8. \A f \in Fields \ Attached : ~container'[f]
    BY <1>2, <1>3, LabelledFields DEF IInv, OnlyAttached
  <1> QED
    BY <1>1, <1>6, <1>7, <1>8 DEF Shown, Attached, ruleVars, IInv, TypeOK, RequestsOK

\* form(), if it does not throw.
LEMMA FormShown ==
  ASSUME IInv, NEW prev, NEW flight, NEW pend, NEW count, NEW boxes \in [Fields -> BOOLEAN],
         RequestsFit(prev, flight, pend, count),
         \A f \in Fields \ Attached : ~boxes[f],
         \A f \in Attached : Verdict(f, prev) # "throws",
         CheckForm(Verdicts(Attached, prev), prev, flight, pend, count, boxes),
         formSubmitted' \in BOOLEAN, sent' \in BOOLEAN, UNCHANGED <<documentVars, ruleVars, losses>>
  PROVE  Shown'
  <1> DEFINE vs == Verdicts(Attached, prev)
  <1>0. Attached \subseteq Fields
    BY DEF IInv, TypeOK, DocumentOK, RulesOK
  <1>1. Fit'
    BY <1>0, StartFits DEF IInv, TypeOK, CheckForm, ruleVars
  <1>2. /\ With("error", vs) \subseteq Attached
        /\ \A f \in Attached : f \in With("error", vs) \/ f \in With("ok", vs) \/ f \in With("pending", vs)
    BY VerdictDomain, VerdictMeans DEF IInv
  <1>3. container' = Labelled(boxes, vs)
    BY DEF CheckForm
  <1>4. submitted' = submitted \union With("error", vs) /\ invalid' = With("error", vs) /\ summary' \in BOOLEAN
    BY DEF CheckForm, onErrors, Failing, IInv, TypeOK, FlagsOK
  <1>5. With("pending", vs) \subseteq pending'
    BY DEF CheckForm, StartRequests
  <1>6. FlagsOK'
    BY <1>0, <1>2, <1>3, <1>4, LabelledFields DEF IInv, TypeOK, FlagsOK
  <1>7. ErrorIsLive'
    BY <1>0, <1>2, <1>3, <1>4, <1>5, LabelledFields DEF ErrorIsLive
  <1>8. \A f \in Fields \ Attached : ~container'[f]
    BY <1>0, <1>2, <1>3, LabelledFields
  <1> QED
    BY <1>1, <1>6, <1>7, <1>8 DEF Shown, Attached, ruleVars, IInv, TypeOK, RequestsOK

\* A submission that goes on waiting can be checked without an exception.
LEMMA ResumesSafely ==
  ASSUME IInv, Resuming, NEW prev
  PROVE  \A f \in Attached : Verdict(f, prev) # "throws"
  BY VerdictMeans DEF IInv, WaitingCanCheck, Resuming

\* No step breaks the requests, or leaves a message that no event looks at again.
LEMMA NextShown ==
  ASSUME IInv, [Next]_vars
  PROVE  Shown'
  <1> USE ShownNow DEF Shown
  <1>1. ASSUME UNCHANGED <<requestVars, messageVars, submitted, invalid, formSubmitted, sent, losses>>,
               Attached \subseteq Attached'
        PROVE Shown'
    BY <1>1 DEF requestVars, messageVars, Fit, RequestsFit, FlagsOK, ErrorIsLive
  <1>2. ASSUME Parse PROVE Shown'
    BY <1>1, <1>2, ParsedFits DEF Parse, Validated, IInv, TypeOK, documentVars
  <1>3. ASSUME NEW f \in Fields, NEW s \in BOOLEAN, ParseOne(f, s) PROVE Shown'
    BY <1>1, <1>3, ParsedFits DEF ParseOne, IInv, TypeOK, documentVars
  <1>4. ASSUME NEW f \in Fields, Insert(f) \/ (\E v \in page.inputs[f] : Type(f, v)) PROVE Shown'
    BY <1>1, <1>4 DEF Insert, Type, ruleVars, Attached
  <1>5. ASSUME NEW f \in Fields, KeyUp(f) PROVE Shown'
    BY <1>5, ElementsShown DEF KeyUp
  <1>6. ASSUME NEW f \in Fields, NEW G \in SUBSET Followers(f), Blur(f, G) PROVE Shown'
    <2>1. G \subseteq Fields
      BY DEF Followers, IInv, TypeOK, RulesOK, DocumentOK
    <2> QED
      BY <1>6, <2>1, ElementsShown DEF Blur
  <1>7. ASSUME SubmitUnchecked PROVE Shown'
    BY <1>7 DEF SubmitUnchecked, requestVars, messageVars, ruleVars, Fit, RequestsFit, FlagsOK, ErrorIsLive, Attached
  <1>8. ASSUME Submit PROVE Shown'
    <2>1. \A f \in Attached : Verdict(f, previous) # "throws"
      BY <1>8, VerdictDomain DEF Submit, FormVerdicts, Throwing
    <2>2. sent' \in BOOLEAN /\ formSubmitted' \in BOOLEAN
      BY <1>8 DEF Submit, Sendable, Failing, FlagsOK
    <2> QED
      BY <1>8, <2>1, <2>2, FormShown DEF Submit, FormVerdicts, Fit, FlagsOK
  <1>9. ASSUME Reset PROVE Shown'
    <2>1. CASE attached
      BY <1>9, <2>1 DEF Reset, Cleared, messageVars, ruleVars, Fit, RequestsFit, FlagsOK, ErrorIsLive, Attached
    <2>2. CASE ~attached
      BY <1>9, <2>2 DEF Reset, messageVars, ruleVars, Fit, RequestsFit, FlagsOK, ErrorIsLive, Attached
    <2> QED
      BY <2>1, <2>2
  <1>10. ASSUME NEW f \in Fields, AnswerValid(f) PROVE Shown'
    <2>1. Fit'
      BY <1>10, AnswerFits DEF AnswerValid, Accepting, Fit, RequestsFit, ruleVars, Attached
    <2> QED
      BY <1>10, <2>1 DEF AnswerValid, ruleVars, FlagsOK, ErrorIsLive, Attached, Stopped
  <1>11. ASSUME NEW f \in Fields, AnswerInvalid(f) PROVE Shown'
    <2>0. FALSE = (inflight[f] \in Accepted) /\ inflight[f] # NoRequest
      BY <1>11 DEF AnswerInvalid
    <2>a. RequestsFit(Answered(f, FALSE), [inflight EXCEPT ![f] = NoRequest], Stopped(f), NotPending(pendingRequest))
      BY <2>0, AnswerFits
    <2>1. Fit'
      BY <1>11, <2>a DEF AnswerInvalid, Fit, RequestsFit, ruleVars, Attached
    <2>2. f \in Attached
      BY <1>11 DEF AnswerInvalid, Fit, RequestsFit
    <2> QED
      BY <1>11, <2>1, <2>2 DEF AnswerInvalid, Resuming, ruleVars, FlagsOK, ErrorIsLive, Attached, Stopped
  <1>12. ASSUME NEW f \in Fields, AnswerResumes(f) PROVE Shown'
    <2> DEFINE prev   == Answered(f, TRUE)
               flight == [inflight EXCEPT ![f] = NoRequest]
               boxes  == [container EXCEPT ![f] = FALSE]
    <2>1. RequestsFit(prev, flight, Stopped(f), 0)
      BY <1>12, AnswerFits DEF AnswerResumes, Accepting, Resuming
    <2>2. \A g \in Attached : Verdict(g, prev) # "throws"
      BY <1>12, ResumesSafely DEF AnswerResumes
    <2>3. boxes \in [Fields -> BOOLEAN] /\ \A g \in Fields \ Attached : ~boxes[g]
      BY DEF FlagsOK
    <2>4. sent' \in BOOLEAN /\ formSubmitted' \in BOOLEAN
      BY <1>12 DEF AnswerResumes, Sendable, Failing
    <2> QED
      BY <1>12, <2>1, <2>2, <2>3, <2>4, FormShown DEF AnswerResumes
  <1>13. ASSUME NEW f \in Fields, Lose(f) PROVE Shown'
    BY <1>13, FormAssumption DEF Lose, messageVars, ruleVars, Fit, RequestsFit, FlagsOK, ErrorIsLive, Attached, FormAssumption
  <1>14. ASSUME UNCHANGED vars PROVE Shown'
    BY <1>1, <1>14 DEF vars, ruleVars, Attached
  <1> QED
    BY <1>2, <1>3, <1>4, <1>5, <1>6, <1>7, <1>8, <1>9, <1>10, <1>11, <1>12, <1>13, <1>14
       DEF Next, User, Event, Script, Answer

-----------------------------------------------------------------------------
(* Submission *)

\* A submission only starts to wait after a check that met every rule.
LEMMA NextWaiting ==
  ASSUME IInv, [Next]_vars
  PROVE  WaitingCanCheck'
  <1> USE DEF IInv, WaitingCanCheck
  <1>1. ASSUME attached => UNCHANGED <<settings, attached>>, formSubmitted' => formSubmitted
        PROVE  WaitingCanCheck'
    BY <1>1 DEF Attached
  <1>2. ASSUME Script PROVE WaitingCanCheck'
    BY <1>1, <1>2 DEF Script, Parse, ParseOne, Insert, AttachValidation, ruleVars
  <1>3. ASSUME SubmitUnchecked \/ Reset \/ UNCHANGED vars PROVE WaitingCanCheck'
    BY <1>1, <1>3 DEF SubmitUnchecked, Reset, ruleVars, vars
  <1>4. ASSUME NEW f \in Fields, Event(f) \/ Answer(f) \/ Lose(f) PROVE WaitingCanCheck'
    BY <1>1, <1>4 DEF Event, Type, KeyUp, Blur, Answer, AnswerValid, AnswerResumes, AnswerInvalid, Lose, Resuming, ruleVars
  <1>5. ASSUME Submit PROVE WaitingCanCheck'
    <2>1. UNCHANGED <<settings, attached>> /\ attached /\ ~Throwing(FormVerdicts)
      BY <1>5 DEF Submit, ruleVars
    <2>2. CASE Failing(FormVerdicts)
      BY <1>1, <1>5, <2>1, <2>2 DEF Submit
    <2>3. CASE ~Failing(FormVerdicts)
      <3>1. \A f \in Attached : AllKnown(settings[f])
        BY <2>1, <2>3, VerdictDomain, VerdictMeans DEF FormVerdicts, Failing, Throwing
      <3> QED
        BY <2>1, <3>1 DEF Attached
    <2> QED
      BY <2>2, <2>3
  <1> QED
    BY <1>2, <1>3, <1>4, <1>5 DEF Next, User

\* form() that lets the form go leaves nothing to check: no field fails, none asks.
LEMMA SentAfterCheck ==
  ASSUME IInv, NEW prev, NEW flight, NEW pend, NEW count, NEW boxes,
         RequestsFit(prev, flight, pend, count),
         CheckForm(Verdicts(Attached, prev), prev, flight, pend, count, boxes),
         Sendable(Verdicts(Attached, prev)), ~Throwing(Verdicts(Attached, prev)),
         UNCHANGED <<documentVars, ruleVars, losses>>
  PROVE  SentIsChecked'
  <1> DEFINE vs == Verdicts(Attached, prev)
  <1>0. Attached \subseteq Fields
    BY DEF IInv, TypeOK, DocumentOK, RulesOK
  <1>1. Fit'
    BY <1>0, StartFits DEF IInv, TypeOK, CheckForm, ruleVars
  <1>2. pending' = {}
    BY <1>1, Counting DEF Sendable, Fit, RequestsFit
  <1>3. pend = {} /\ With("pending", vs) = {}
    BY <1>2 DEF CheckForm, StartRequests
  <1>4. \A f \in Attached : Verdict(f, prev) = "ok"
    BY <1>3, VerdictDomain, VerdictMeans DEF Sendable, Failing, Throwing, IInv
  <1>5. \A f \in Attached : Local(f) = "ok" /\ (Asks(f) => Query(f) \in Accepted)
    <2> SUFFICES ASSUME NEW f \in Attached
                 PROVE  Local(f) = "ok" /\ (Asks(f) => Query(f) \in Accepted)
      OBVIOUS
    <2>1. /\ Local(f) = "ok"
          /\ Asks(f) => prev[f] # NoPrevious /\ prev[f].old = Query(f) /\ prev[f].valid
      BY <1>4, VerdictMeans DEF IInv
    <2>2. f \in Fields /\ f \notin pend
      BY <1>0, <1>3
    <2>3. prev[f] # NoPrevious => prev[f].valid = (prev[f].old \in Accepted)
      BY <2>2 DEF RequestsFit
    <2> QED
      BY <2>1, <2>3
  <1>6. /\ Attached' = Attached
        /\ \A f : Local(f)' = Local(f) /\ Asks(f)' = Asks(f) /\ Query(f)' = Query(f)
    BY DEF Attached, Local, Asks, Query, documentVars, ruleVars
  <1> QED
    BY <1>5, <1>6 DEF SentIsChecked

\* No step sends a form whose rules do not hold.
LEMMA NextSentIsChecked ==
  ASSUME IInv, [Next]_vars
  PROVE  SentIsChecked'
  <1>1. ASSUME ~sent' PROVE SentIsChecked'
    BY <1>1 DEF SentIsChecked
  <1>2. ASSUME UNCHANGED vars PROVE SentIsChecked'
    BY <1>2 DEF IInv, SentIsChecked, vars, documentVars, ruleVars, requestVars, Attached, Local, Asks, Query,
                Throwing, FormVerdicts, Verdicts, Verdict, With
  <1>3. ASSUME ~sent, Script PROVE ~sent'
    BY <1>3 DEF Script, Parse, ParseOne, Insert
  <1>4. ASSUME ~sent, NEW f \in Fields, Event(f) \/ AnswerValid(f) \/ AnswerInvalid(f) \/ Lose(f) PROVE ~sent'
    BY <1>4 DEF Event, Type, KeyUp, Blur, AnswerValid, AnswerInvalid, Lose
  <1>5. ASSUME ~sent, Reset PROVE ~sent'
    BY <1>5 DEF Reset
  <1>6. ASSUME SubmitUnchecked PROVE SentIsChecked'
    <2>1. CASE ~attached
      <3>1. Attached' = {}
        BY <1>6, <2>1 DEF SubmitUnchecked, ruleVars, Attached, IInv, TypeOK, RulesOK
      <3> QED
        BY <3>1 DEF SentIsChecked
    <2>2. CASE Throwing(FormVerdicts)
      BY <1>6, <2>2 DEF SubmitUnchecked, SentIsChecked, documentVars, ruleVars, requestVars, Attached, Local, Asks, Query,
                        Throwing, FormVerdicts, Verdicts, Verdict, With
    <2> QED
      BY <1>6, <2>1, <2>2 DEF SubmitUnchecked
  <1>7. ASSUME Submit, sent' PROVE SentIsChecked'
    BY <1>7, FitNow, SentAfterCheck DEF Submit, FormVerdicts, Fit
  <1>8. ASSUME NEW f \in Fields, AnswerResumes(f), sent' PROVE SentIsChecked'
    <2> DEFINE prev   == Answered(f, TRUE)
               flight == [inflight EXCEPT ![f] = NoRequest]
               boxes  == [container EXCEPT ![f] = FALSE]
    <2>1. RequestsFit(prev, flight, Stopped(f), 0)
      BY <1>8, AnswerFits DEF AnswerResumes, Accepting, Resuming
    <2>2. ~Throwing(Verdicts(Attached, prev))
      <3>1. \A g \in Attached : Verdict(g, prev) # "throws"
        BY <1>8, ResumesSafely DEF AnswerResumes
      <3> HIDE DEF prev
      <3> QED
        BY <3>1, VerdictDomain DEF Throwing
    <2>3. CheckForm(Verdicts(Attached, prev), prev, flight, Stopped(f), 0, boxes) /\ Sendable(Verdicts(Attached, prev))
      BY <1>8 DEF AnswerResumes
    <2> QED
      BY <1>8, <2>1, <2>2, <2>3, SentAfterCheck DEF AnswerResumes
  <1> QED
    BY <1>1, <1>2, <1>3, <1>4, <1>5, <1>6, <1>7, <1>8 DEF Next, User, Answer

-----------------------------------------------------------------------------
(* Theorems *)

\* The inductive invariant holds in every reachable state, whatever the user, the
\* scripts of the page and the server do.
THEOREM FormInvariant == Spec => []IInv
  <1>1. Init => IInv
    BY InitIInv
  <1>2. IInv /\ [Next]_vars => IInv'
    <2> SUFFICES ASSUME IInv, [Next]_vars PROVE IInv'
      OBVIOUS
    <2>1. DocumentOK' /\ RulesOK' /\ RulesFit'
      BY NextDocument
    <2>2. FlagsOK' /\ ErrorIsLive' /\ RequestsOK' /\ PreviousFits' /\ PendingCounted' /\ BlockedByLoss' /\ OnlyAttached'
      BY NextShown, FitThen DEF Shown
    <2> QED
      BY <2>1, <2>2, NextWaiting, NextSentIsChecked DEF IInv, TypeOK
  <1> QED
    BY <1>1, <1>2, PTL DEF Spec

\* A form that goes out meets the rules of its validator, and the server accepted
\* exactly what the remote rules ask of the values that go out.
THEOREM NothingUncheckedSent == Spec => []SentIsChecked
  <1>1. IInv => SentIsChecked
    BY DEF IInv
  <1> QED
    BY <1>1, FormInvariant, PTL

\* startRequest and stopRequest keep the counter equal to the pending fields.
THEOREM CounterInStep == Spec => []PendingCounted
  <1>1. IInv => PendingCounted
    BY DEF IInv
  <1> QED
    BY <1>1, FormInvariant, PTL

\* A field that stays pending without a request lost its request.
THEOREM BlockedOnlyByLoss == Spec => []BlockedByLoss
  <1>1. IInv => BlockedByLoss
    BY DEF IInv
  <1> QED
    BY <1>1, FormInvariant, PTL

\* Every message that shows will be looked at again.
THEOREM MessagesLive == Spec => []ErrorIsLive
  <1>1. IInv => ErrorIsLive
    BY DEF IInv
  <1> QED
    BY <1>1, FormInvariant, PTL

\* The markup of a field and the value it holds are as FormAssumption has them.
LEMMA FieldIs ==
  ASSUME TypeOK, NEW f \in Fields
  PROVE  WellFormed(Element(f), f) /\ IsValue(value[f])
  <1>1. page \in Pages /\ value[f] \in Values
    BY DEF TypeOK, DocumentOK
  <1> QED
    BY <1>1, FormAssumption DEF Element, IsValue

\* End to end, from the attributes in the markup to the form that goes out: a field
\* parsed with the fields it refers to, whose attributes have adapters that do not
\* write over each other, goes out only with a value that obeys them all.
THEOREM AttributesHeld == Spec => []BreachHasReason
  <1>1. ASSUME IInv, sent, ~Throwing(FormVerdicts), NEW f \in Validated, Enforced(f),
               ~Conflicting(Element(f), f, Fields), ~OneSided(Element(f))
        PROVE  ObeysAll(Element(f), f, value[f], value)
    <2>1. f \in Fields /\ f \in Attached /\ settings[f] = ParseElement(Element(f), f, Fields)
      BY <1>1 DEF IInv, TypeOK, DocumentOK, Validated, Enforced
    <2>2. Local(f) \in {"ok", "silent"}
      BY <1>1, <2>1 DEF IInv, SentIsChecked
    <2>3. LocalVerdict(ParseElement(Element(f), f, Fields), value[f], value) \in {"ok", "silent"}
      BY <2>1, <2>2 DEF Local
    <2>4. WellFormed(Element(f), f) /\ IsValue(value[f])
      BY <1>1, <2>1, FieldIs DEF IInv
    <2> QED
      BY <1>1, <2>3, <2>4, RulesMean DEF Enforced
  <1>2. IInv => BreachHasReason
    BY <1>1 DEF BreachHasReason
  <1> QED
    BY <1>2, FormInvariant, PTL

\* The other direction: a submission that is refused has a field whose value disobeys
\* an attribute, or that the server rejected as it is.
THEOREM RefusalsJustified == Spec => RefusesForReason
  <1>1. ASSUME IInv, IInv', Submit, ~sent', pending' = {}
        PROVE  \E f \in Attached : \/ ~ObeysAll(Element(f), f, value[f], value) \/ OneSided(Element(f))
                                   \/ Asks(f) /\ Query(f) \notin Accepted
    <2>1. pendingRequest' = 0
      BY <1>1, FS_EmptySet DEF IInv, PendingCounted
    <2>2. Failing(FormVerdicts)
      BY <1>1, <2>1 DEF Submit, Sendable
    <2>3. PICK f \in Attached : Verdict(f, previous) = "error"
      BY <2>2, VerdictDomain DEF Failing, FormVerdicts
    <2>4. f \in Fields /\ f \notin pending
      BY <1>1, <2>3 DEF Submit, CheckForm, StartRequests, IInv, TypeOK, DocumentOK, RulesOK
    <2>5. CASE Local(f) = "error"
      <3>1. PICK P \in SUBSET Fields : settings[f] = ParseElement(Element(f), f, P)
        BY <1>1, <2>3 DEF IInv, RulesFit, Parsed
      <3>2. LocalVerdict(ParseElement(Element(f), f, P), value[f], value) = "error"
        BY <2>5, <3>1 DEF Local
      <3>3. WellFormed(Element(f), f) /\ IsValue(value[f])
        BY <1>1, <2>4, FieldIs DEF IInv
      <3> QED
        BY <3>2, <3>3, RulesMean
    <2>6. CASE Local(f) # "error"
      <3>1. Local(f) = "ok" /\ Asks(f) /\ previous[f] # NoPrevious /\ previous[f].old = Query(f) /\ ~previous[f].valid
        BY <2>3, <2>6 DEF Verdict
      <3>2. previous[f].valid = (previous[f].old \in Accepted)
        BY <1>1, <2>4, <3>1 DEF IInv, PreviousFits
      <3> QED
        BY <3>1, <3>2
    <2> QED
      BY <2>5, <2>6
  <1>2. IInv /\ IInv' => [RefusalHasReason]_vars
    BY <1>1 DEF RefusalHasReason
  <1> QED
    BY <1>2, FormInvariant, PTL DEF RefusesForReason

=============================================================================
