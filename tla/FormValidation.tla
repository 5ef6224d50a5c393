--------------------------- MODULE FormValidation ---------------------------
(***************************************************************************)
(* A form of a page that loads jquery.validate.unobtrusive.js              *)
(* (WebApp_Identity/wwwroot/lib): parsing, the events of the user, remote  *)
(* validation requests and their answers, and the submission.              *)
(*                                                                         *)
(* A page is a record: element (the markup of every field), static (the    *)
(* fields in the page from the start), scripted (its own scripts insert    *)
(* the others, and parse) and inputs (what the user may type into each).   *)
(* Fields are names of UnobtrusiveAdapters.  JavaScript runs one handler   *)
(* at a time, so each handler is one step; answers come between them.      *)
(***************************************************************************)
EXTENDS UnobtrusiveAdapters

CONSTANTS
  Fields,      \* names of the fields
  Pages,       \* the pages considered
  Accepted,    \* the queries the server's remote validation accepts
  NoPrevious,  \* a field without the data "previousValue"
  NoRequest,   \* a field without an outstanding request
  MaxLosses    \* bound: requests that end without calling success

\* What a field may hold.
Values == {Empty} \union UNION {p.inputs[f] : p \in Pages, f \in Fields}

IsQuery(q) == DOMAIN q \subseteq Fields /\ q \in [DOMAIN q -> Values]

IsName(n) == n = [model |-> n.model, base |-> n.base]

\* What the tag helpers of ASP.NET write: whole numbers, a demand for nonword characters
\* only if there is one, and references to fields.
WellFormed(e, name) ==
  /\ IsName(name)
  /\ \A a \in DOMAIN e.attrs : \A p \in DOMAIN e.attrs[a] :
       (p \in {"min", "max"} => e.attrs[a][p] \in Int) /\ (p = "nonalphamin" => e.attrs[a][p] \in Nat \ {0})
  /\ "equalto" \in DOMAIN e.attrs =>
       LET other == e.attrs["equalto"].other
       IN IsName(other) /\ Meant(other, name) \in Fields

ASSUME FormAssumption ==
  /\ IsFiniteSet(Fields)
  /\ MaxLosses \in Nat
  /\ \A p \in Pages : p.static \subseteq Fields /\ DOMAIN p.inputs = Fields
  /\ \A p \in Pages, f \in Fields : WellFormed(p.element[f], f)
  /\ \A v \in Values : v.len \in Nat /\ v.num \in Int /\ v.nonalpha \in Nat
  /\ \A F \in SUBSET Fields :
       LET queries == [F -> Values]
       IN NoRequest \notin queries /\ NoPrevious \notin [old : queries, valid : BOOLEAN]

VARIABLES
  page, present, value,          \* the document: the page, its elements and their values
  options,                       \* valInfo.options.rules, data of the form
  settings,                      \* the options the form's validator was made with
  attached,                      \* the form has a validator and the handlers of its events
  submitted, invalid,            \* names with a key in validator.submitted and validator.invalid
  previous, inflight,            \* per field: previousValue, query of the outstanding request
  pending, pendingRequest,       \* validator.pending and its counter
  formSubmitted, sent,           \* a submission waits for answers; the form was sent
  container, summary,            \* class of the message containers: TRUE is an error
  losses

documentVars == <<page, present, value>>
ruleVars     == <<options, settings, attached>>
requestVars  == <<previous, inflight, pending, pendingRequest>>
messageVars  == <<container, summary>>
vars == <<documentVars, ruleVars, requestVars, messageVars, submitted, invalid, formSubmitted, sent, losses>>

Element(f) == page.element[f]

\* The rules of the fields whose rules the validator has.
Attached == DOMAIN settings

DocumentOK == page \in Pages /\ present \subseteq Fields /\ value \in [Fields -> Values]

RulesOK == /\ DOMAIN options \subseteq present /\ Attached \subseteq present
           /\ attached \in BOOLEAN /\ (~attached => Attached = {})

RequestsOK ==
  /\ pending \subseteq Fields /\ pendingRequest \in Nat /\ losses \in 0..MaxLosses
  /\ DOMAIN previous = Fields /\ DOMAIN inflight = Fields
  /\ \A f \in Fields :
       /\ inflight[f] = NoRequest \/ IsQuery(inflight[f])
       /\ \/ previous[f] = NoPrevious
          \/ IsQuery(previous[f].old) /\ previous[f] \in [old : {previous[f].old}, valid : BOOLEAN]

FlagsOK == /\ submitted \subseteq Fields /\ invalid \subseteq Fields
           /\ formSubmitted \in BOOLEAN /\ sent \in BOOLEAN
           /\ container \in [Fields -> BOOLEAN] /\ summary \in BOOLEAN

TypeOK == DocumentOK /\ RulesOK /\ RequestsOK /\ FlagsOK

Init ==
  /\ page \in Pages
  /\ present = page.static
  /\ value = [f \in Fields |-> Empty]
  /\ options = [f \in {} |-> <<>>] /\ settings = [f \in {} |-> <<>>] /\ attached = FALSE
  /\ submitted = {} /\ invalid = {}
  /\ previous = [f \in Fields |-> NoPrevious] /\ inflight = [f \in Fields |-> NoRequest]
  /\ pending = {} /\ pendingRequest = 0
  /\ formSubmitted = FALSE /\ sent = FALSE
  /\ container = [f \in Fields |-> FALSE] /\ summary = FALSE
  /\ losses = 0

-----------------------------------------------------------------------------
(* Parsing *)

\* The elements with data-val="true".
Validated == {f \in present : DOMAIN Element(f).attrs # {}}

WithParsed(F) == [f \in DOMAIN options \union F |->
                    IF f \in F THEN ParseElement(Element(f), f, present) ELSE options[f]]

\* attachValidation: validate() makes a validator with a copy of the options, or
\* returns the one the form already has.
AttachValidation(opts) ==
  /\ attached' = TRUE
  /\ settings' = IF attached THEN settings ELSE opts

\* parse(document), when the document is ready and whenever a script calls it.
Parse ==
  /\ Validated # {}
  /\ options' = WithParsed(Validated)
  /\ AttachValidation(options')
  /\ UNCHANGED <<documentVars, requestVars, messageVars, submitted, invalid, formSubmitted, sent, losses>>

\* parseElement(element, skipAttach), called by a script.
ParseOne(f, skipAttach) ==
  /\ f \in present
  /\ options' = WithParsed({f})
  /\ IF skipAttach THEN UNCHANGED <<settings, attached>> ELSE AttachValidation(options')
  /\ UNCHANGED <<documentVars, requestVars, messageVars, submitted, invalid, formSubmitted, sent, losses>>

\* A script of the page inserts an element.
Insert(f) ==
  /\ f \in Fields \ present
  /\ present' = present \union {f}
  /\ UNCHANGED <<page, value, ruleVars, requestVars, messageVars, submitted, invalid, formSubmitted, sent, losses>>

-----------------------------------------------------------------------------
(* Checking *)

\* What the remote rule of a field asks the server: its value and those of the
\* additional fields.
Query(f) == [g \in {f} \union (RemoteFields(settings[f]) \intersect present) |-> value[g]]

Local(f) == LocalVerdict(settings[f], value[f], value)

Asks(f) == HasRemote(settings[f]) /\ ~Optional(value[f])

\* check(): the verdict on a field, given the previousValues.  The same query is
\* answered from there, even if its answer is still to come.  A field the validator
\* has no rules for gets none.
Verdict(f, prev) ==
  IF f \notin Attached THEN "silent"
  ELSE IF Local(f) # "ok" \/ ~Asks(f) THEN Local(f)
  ELSE IF prev[f] = NoPrevious \/ prev[f].old # Query(f) THEN "pending"
  ELSE IF prev[f].valid THEN "ok" ELSE "error"

Verdicts(F, prev) == [f \in F |-> Verdict(f, prev)]

With(verdict, vs) == {f \in DOMAIN vs : vs[f] = verdict}

Failing(vs)  == With("error", vs) # {}
Throwing(vs) == With("throws", vs) # {}

onError(boxes, vs) == [f \in Fields |-> f \in With("error", vs) \/ boxes[f]]

onSuccess(boxes, vs) == [f \in Fields |-> f \notin With("ok", vs) /\ boxes[f]]

onErrors(vs) == summary \/ Failing(vs)

\* showErrors: the message containers of the fields that fail, and of those that pass.
Labelled(boxes, vs) == onSuccess(onError(boxes, vs), vs)

AskingAnew(asking, pend) == asking

\* The fields startRequest counts: those that are not pending already.
Counted(asking, pend) == asking \ pend

\* startRequest and the ajax call of the fields whose verdict is pending.  A new
\* request of a field aborts its older one, which then never calls success.
StartRequests(vs, prev, flight, pend, count) ==
  LET asking == With("pending", vs)
  IN /\ previous' = [f \in Fields |-> IF f \in asking
                       THEN [old |-> Query(f), valid |-> IF prev[f] = NoPrevious THEN TRUE ELSE prev[f].valid]
                       ELSE prev[f]]
     /\ inflight' = [f \in Fields |-> IF f \in asking THEN Query(f) ELSE flight[f]]
     /\ pending' = pend \union asking
     /\ pendingRequest' = count + Cardinality(Counted(asking, pend))

\* element() for each of some fields, with their verdicts; one that throws changes
\* nothing.
CheckElements(vs) ==
  /\ submitted' = submitted \union With("error", vs)
  /\ invalid'   = invalid \union (DOMAIN vs \ With("throws", vs))
  /\ container' = Labelled(container, vs)
  /\ StartRequests(vs, previous, inflight, pending, pendingRequest)

\* form(), with the verdicts on every field with rules; invalid-form shows the
\* summary.
CheckForm(vs, prev, flight, pend, count, boxes) ==
  /\ submitted' = submitted \union With("error", vs)
  /\ invalid'   = With("error", vs)
  /\ container' = Labelled(boxes, vs)
  /\ summary'   = onErrors(vs)
  /\ StartRequests(vs, prev, flight, pend, count)

\* The verdicts of form() as things are.
FormVerdicts == Verdicts(Attached, previous)

-----------------------------------------------------------------------------
(* The user *)

\* The user changes a value: keys, the mouse, or the browser filling it in.
Type(f, v) ==
  /\ f \in present /\ v \in page.inputs[f] \ {value[f]}
  /\ value' = [value EXCEPT ![f] = v]
  /\ UNCHANGED <<page, present, ruleVars, requestVars, messageVars, submitted, invalid, formSubmitted, sent, losses>>

\* onkeyup, and in part onclick: only a field that was refused, or checked on its
\* own, is checked again.
KeyUp(f) ==
  /\ attached /\ f \in present
  /\ f \in submitted \union invalid
  /\ CheckElements(Verdicts({f}, previous))
  /\ UNCHANGED <<documentVars, ruleVars, summary, formSubmitted, sent, losses>>

\* The fields that must equal f: the first evaluation of their equalTo rule binds a
\* check of them to the blur event of f.
Followers(f) == 
  {g \in Attached : \E i \in DOMAIN settings[g] : settings[g][i].rule = "equalTo" /\ settings[g][i].arg = <<f>>}

\* onfocusout: an empty field is left alone until it was refused.  Of its followers,
\* those G are checked whose rule was evaluated before.
Blur(f, G) ==
  /\ attached /\ f \in present
  /\ LET F == {g \in {f} : ~Element(f).checkbox /\ (f \in submitted \/ ~Optional(value[f]))} \union G
     IN F # {} /\ CheckElements(Verdicts(F, previous))
  /\ UNCHANGED <<documentVars, ruleVars, summary, formSubmitted, sent, losses>>

\* The submit event of a form without validator, or whose check throws: nothing
\* prevents the browser from sending it.  What the check did to the fields before the
\* one that throws leaves with the page.
SubmitUnchecked ==
  /\ ~attached \/ Throwing(FormVerdicts)
  /\ sent' = TRUE
  /\ UNCHANGED <<documentVars, ruleVars, requestVars, messageVars, submitted, invalid, formSubmitted, losses>>

SendableAnyway(vs) == ~Failing(vs)

\* Whether the submission goes on: no field fails, and no answer is due.
Sendable(vs) == ~Failing(vs) /\ pendingRequest' = 0

\* The submit handler: refuse, wait for the answers, or let the browser send.
Submit ==
  /\ attached
  /\ LET vs == FormVerdicts
     IN /\ ~Throwing(vs)
        /\ CheckForm(vs, previous, inflight, pending, pendingRequest, container)
        /\ sent' = Sendable(vs)
        /\ formSubmitted' = (formSubmitted \/ (~Failing(vs) /\ pendingRequest' # 0))
  /\ UNCHANGED <<documentVars, ruleVars, losses>>

ClearedNot == container

\* onReset takes the error class from every message container.
Cleared == [f \in Fields |-> FALSE]

\* The reset event: onReset, then the browser restores the values.  Requests go on,
\* but an answer finds its previousValue gone.
Reset ==
  /\ value' = [f \in Fields |-> Empty]
  /\ IF attached
     THEN /\ submitted' = {} /\ invalid' = {}
          /\ previous' = [f \in Fields |-> IF f \in Attached THEN NoPrevious ELSE previous[f]]
          /\ container' = Cleared /\ summary' = FALSE
     ELSE UNCHANGED <<submitted, invalid, previous, messageVars>>
  /\ UNCHANGED <<page, present, ruleVars, inflight, pending, pendingRequest, formSubmitted, sent, losses>>

-----------------------------------------------------------------------------
(* The answers *)

AnsweredNotNoted(f, valid) == previous

\* What success() leaves to stopRequest: the verdict is with the previousValue of
\* the request, if a reset did not remove it.
Answered(f, valid) ==
  [previous EXCEPT ![f] = IF @ = NoPrevious THEN NoPrevious ELSE [@ EXCEPT !.valid = valid]]

NotPending(count) == IF count - 1 < 0 THEN 0 ELSE count - 1

ResumingNotCounted == formSubmitted /\ pendingRequest = 0

StoppedNot(f) == pending

\* delete this.pending[element.name]
Stopped(f) == pending \ {f}

\* stopRequest goes on to submit the form that waits for the last answer.
Resuming == formSubmitted /\ NotPending(pendingRequest) = 0

Accepting(f) == inflight[f] # NoRequest /\ inflight[f] \in Accepted

AnswerValid(f) ==
  /\ Accepting(f) /\ ~Resuming
  /\ invalid' = invalid \union {f}
  /\ container' = [container EXCEPT ![f] = FALSE]
  /\ previous' = Answered(f, TRUE)
  /\ inflight' = [inflight EXCEPT ![f] = NoRequest]
  /\ pending' = Stopped(f) /\ pendingRequest' = NotPending(pendingRequest)
  /\ UNCHANGED <<documentVars, ruleVars, summary, submitted, formSubmitted, sent, losses>>

\* form() passes and no new request is out: the form is submitted, and sent.
\* Otherwise formSubmitted stays set.  The check does not throw: then it would have
\* thrown at the submission that set formSubmitted, with the same rules.
AnswerResumes(f) ==
  LET prev == Answered(f, TRUE)
      vs   == Verdicts(Attached, prev)
  IN /\ Accepting(f) /\ Resuming
     /\ CheckForm(vs, prev, [inflight EXCEPT ![f] = NoRequest], Stopped(f), 0, [container EXCEPT ![f] = FALSE])
     /\ sent' = Sendable(vs)
     /\ formSubmitted' = ~sent'
     /\ UNCHANGED <<documentVars, ruleVars, losses>>

AnswerInvalid(f) ==
  /\ inflight[f] # NoRequest /\ inflight[f] \notin Accepted
  /\ invalid' = invalid \union {f}
  /\ container' = [container EXCEPT ![f] = TRUE]
  /\ previous' = Answered(f, FALSE)
  /\ inflight' = [inflight EXCEPT ![f] = NoRequest]
  /\ pending' = Stopped(f) /\ pendingRequest' = NotPending(pendingRequest)
  /\ summary' = (summary \/ Resuming)
  /\ formSubmitted' = (formSubmitted /\ ~Resuming)
  /\ UNCHANGED <<documentVars, ruleVars, submitted, sent, losses>>

\* The network or the server fails, or another form of the page that has a field of
\* that name aborts the request: success is never called.
Lose(f) ==
  /\ inflight[f] # NoRequest /\ losses < MaxLosses
  /\ inflight' = [inflight EXCEPT ![f] = NoRequest]
  /\ losses' = losses + 1
  /\ UNCHANGED <<documentVars, ruleVars, messageVars, submitted, invalid, previous, pending, pendingRequest,
                 formSubmitted, sent>>

-----------------------------------------------------------------------------
Answer(f) == \/ AnswerValid(f)
             \/ AnswerResumes(f)
             \/ AnswerInvalid(f)

Event(f) == \/ \E v \in page.inputs[f] : Type(f, v)
            \/ KeyUp(f)
            \/ \E G \in SUBSET Followers(f) : Blur(f, G)

Script == \/ Parse
          \/ /\ page.scripted
             /\ \E f \in Fields : Insert(f) \/ \E skipAttach \in BOOLEAN : ParseOne(f, skipAttach)

User == SubmitUnchecked \/ Submit \/ Reset \/ \E f \in Fields : Event(f)

\* A form that was sent leaves the page.
Next == /\ ~sent
        /\ User \/ Script \/ \E f \in Fields : Answer(f) \/ Lose(f)

Spec == Init /\ [][Next]_vars

Fairness == \A f \in Fields : WF_vars(~sent /\ Answer(f))

FairSpec == Spec /\ Fairness

-----------------------------------------------------------------------------
(* Properties *)

\* A form goes out only when every rule of its validator holds for the values that
\* are sent, and the server accepted just these: not while an answer is due, not on
\* an answer for an older value, before a reset, or for other additional fields.
\* The exception is a check that throws.
SentIsChecked ==
  sent /\ ~Throwing(FormVerdicts) =>
    \A f \in Attached : /\ Local(f) \in {"ok", "silent"}
                        /\ Local(f) = "ok" /\ Asks(f) => Query(f) \in Accepted

\* The validator took the rules of f, when every field they refer to was there, and
\* all its attributes have adapters.
Enforced(f) == /\ f \in Attached
               /\ settings[f] = ParseElement(Element(f), f, Fields)
               /\ DOMAIN Element(f).attrs \subseteq RegisteredAdapters

\* End to end: a form that was sent breaks what its attributes declare only in a
\* field parsed too late, or before a field it refers to, or declaring what has no
\* adapter, under a check that threw, between attributes that write the same rule, or
\* for a range with one bound.
BreachHasReason ==
  sent => \A f \in Validated :
    \/ ObeysAll(Element(f), f, value[f], value)
    \/ ~Enforced(f) \/ Throwing(FormVerdicts)
    \/ Conflicting(Element(f), f, Fields) \/ OneSided(Element(f))

\* A submission is refused only for a reason the attributes or the server give.
RefusalHasReason ==
  Submit /\ ~sent' /\ pending' = {} =>
    \E f \in Attached : \/ ~ObeysAll(Element(f), f, value[f], value) \/ OneSided(Element(f))
                        \/ Asks(f) /\ Query(f) \notin Accepted

RefusesForReason == [][RefusalHasReason]_vars

\* The counter of stopRequest agrees with the requests it counts, across aborted
\* requests, resets and answers: "Sometimes synchronization fails" does not happen.
PendingCounted == pendingRequest = Cardinality(pending)

\* Only a request that ended without success() leaves its field pending, and with
\* it the form blocked.
BlockedByLoss == \A f \in pending : inflight[f] = NoRequest => losses > 0

\* A message that shows will go away: the field is checked again at the next key,
\* or its answer is due.
ErrorIsLive == \A f \in Fields : container[f] => f \in submitted \union invalid \union pending

\* A form that waits for answers is sent, or some message says why not, once the user
\* leaves it alone and no request is lost.
Settled == sent \/ (\E f \in Fields : container[f]) \/ losses > 0

Decided == <>[][\E f \in Fields : Answer(f)]_vars => (formSubmitted /\ pending # {} ~> Settled)

-----------------------------------------------------------------------------
(* The inductive invariant behind the safety properties *)

\* The rules of f were parsed from its markup, with some elements in the page.
Parsed(rules, f) == \E P \in SUBSET Fields : rules = ParseElement(Element(f), f, P)

RulesFit == /\ \A f \in DOMAIN options : Parsed(options[f], f)
            /\ \A f \in Attached : Parsed(settings[f], f)

\* Only a field with rules asks the server or shows a message.
OnlyAttached == \A f \in Fields \ Attached : ~container[f] /\ previous[f] = NoPrevious /\ inflight[f] = NoRequest

\* An outstanding request is the one of the previousValue, unless a reset removed
\* it; once no answer is due, a previousValue holds the answer to its query.
PreviousFits ==
  \A f \in Fields :
    /\ inflight[f] # NoRequest => f \in pending /\ (previous[f] # NoPrevious => previous[f].old = inflight[f])
    /\ previous[f] # NoPrevious /\ f \notin pending => previous[f].valid = (previous[f].old \in Accepted)

\* Whether each rule that check() may come to has a method.
AllKnown(rules) == \A i \in Locals(rules) : rules[i].rule \in Registered

\* Once a submission waits, every check gets through: it has met each rule.
WaitingCanCheck ==
  formSubmitted => attached /\ \A f \in Attached : AllKnown(settings[f])

\* The safety invariants and what they rest on: inductive.
IInv ==
  /\ TypeOK
  /\ RulesFit
  /\ OnlyAttached
  /\ PreviousFits
  /\ WaitingCanCheck
  /\ PendingCounted
  /\ BlockedByLoss
  /\ ErrorIsLive
  /\ SentIsChecked

=============================================================================
