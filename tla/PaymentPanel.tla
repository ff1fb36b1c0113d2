---------------------------- MODULE PaymentPanel ----------------------------
(***************************************************************************)
(* The payment rules of the store and the panel screens that edit them     *)
(* (backend/src/modules/payments, frontend/src/features/admin/payment-     *)
(* settings.ts and pages/admin/admin-payments-page.tsx).                   *)
(*                                                                         *)
(* The rules are one document.  Every EDITOR is a browser tab with the     *)
(* page: it keeps the document of its last query (the cache), the draft    *)
(* that was opened from it, and sends a PATCH with what differs between    *)
(* the two.  The server reads the document, merges the PATCH, validates    *)
(* the result and saves; between the reading and the saving another        *)
(* request may do the same.                                                *)
(*                                                                         *)
(* Mongoose writes the paths that changed in its copy of the document, and *)
(* both tables of fees always: the validation hook sorts them, and sorting *)
(* an array of a document marks it as changed.  The schema has no version  *)
(* key, so no save is refused for being late.                              *)
(*                                                                         *)
(* Left out: acceptsPix, acceptsCard and pixDiscountPercent, which no rule *)
(* relates to another field; the audit line; the creation of the document. *)
(***************************************************************************)
EXTENDS Installments, FiniteSets

CONSTANTS
    Editors,
    Fits,           \* the pairs <<key, type>> normalizePixKey accepts, the
                    \* keys up to the way they are written
    Inputs,         \* what an editor may type: a function on some fields
    FirstRules,     \* the document to begin with
    Totals,         \* purchases the rules are tried on
    MaxEdits,       \* changes the editors make, in all
    MaxSaves,       \* PATCHes they send
    MaxFetches,     \* times their queries run
    None

Modes == {"LINK", "TAP"}
Tables == {"cardRates", "nitroCardRates"}
PixFields == {"pixKey", "pixKeyType"}
Fields == Tables \cup PixFields \cup
          {"activeCardPlan", "maxInstallments", "interestFreeUpTo", "minInstallmentCents"}

\* A line of a table whose field was left empty.
Blank == -1

VARIABLES
    rules,      \* the stored document
    cache,      \* what each editor's query holds: all have read the rules once
    fetching,   \* the answer of a running query, None when there is none
    open,       \* editors with the form on the screen
    draft,      \* the form
    phase,      \* where each editor's PATCH is
    patch,      \* its body
    got,        \* the document the server read for it
    attached,   \* the form that sent it is still on the screen
    edits, saves, fetches,     \* how many are left
    (***********************************************************************)
    (* History variables: no line of the code keeps them.                  *)
    (***********************************************************************)
    typed,      \* fields changed by hand since the draft was opened
    shifted,    \* fields whose cached value moved under the draft
    sentTyped, sentShifted,     \* both, when the PATCH was sent
    overtaken   \* a save wrote from a document that had changed since its reading

formVars == <<cache, fetching, open, draft, typed, shifted, edits, fetches>>
saveVars == <<phase, patch, got, attached, saves, sentTyped, sentShifted>>
vars == <<rules, formVars, saveVars, overtaken>>

-----------------------------------------------------------------------------
(***************************************************************************)
(* The server's rules (schema, normalizePixKey, toInstallmentRules).       *)
(***************************************************************************)
KeyFits(d) == <<d["pixKey"], d["pixKeyType"]>> \in Fits

ActiveRates(d) ==
    IF d["activeCardPlan"] = "NITRO" THEN d["nitroCardRates"] ELSE d["cardRates"]

FeesOf(rates, mode) == [n \in DOMAIN rates |-> rates[n][mode]]

RulesOf(d, mode) ==
    [max |-> d["maxInstallments"], free |-> d["interestFreeUpTo"],
     fees |-> FeesOf(ActiveRates(d), mode), least |-> d["minInstallmentCents"]]

PublicCard(d) ==
    [max |-> d["maxInstallments"], free |-> d["interestFreeUpTo"],
     least |-> d["minInstallmentCents"]]

\* A hook that left the plan and its table to the screens.
SchemaAcceptsLimits(d) == d["interestFreeUpTo"] <= d["maxInstallments"]

\* The validation hook of the schema.
SchemaAccepts(d) ==
    /\ d["interestFreeUpTo"] <= d["maxInstallments"]
    /\ d["activeCardPlan"] = "NITRO" => DOMAIN d["nitroCardRates"] # {}

\* applyPixKey: the pair is checked when either half is in the body.
PairAccepted(d, body) == DOMAIN body \cap PixFields # {} => KeyFits(d)

Merged(d, body) == [f \in Fields |-> IF f \in DOMAIN body THEN body[f] ELSE d[f]]

\* The paths a save writes: what changed since the reading, and both tables.
Written(before, after) == Tables \cup {f \in Fields : after[f] # before[f]}

Stored(current, before, after) ==
    [f \in Fields |-> IF f \in Written(before, after) THEN after[f] ELSE current[f]]

-----------------------------------------------------------------------------
(***************************************************************************)
(* The form (payment-settings.ts).                                         *)
(***************************************************************************)
Complete(rates) == \A n \in DOMAIN rates : \A m \in Modes : rates[n][m] # Blank

\* An unreadable key is not sent: the stored one stands in for it.
DraftKey(d, saved) == IF KeyFits(d) THEN d["pixKey"] ELSE saved["pixKey"]

\* Every field, like a form that sends itself whole.
ChangedWhole(d, saved) == Fields

Changed(d, saved) ==
    {f \in Fields \ (PixFields \cup Tables) : d[f] # saved[f]}
    \cup {f \in Tables : Complete(d[f]) /\ d[f] # saved[f]}
    \cup {f \in PixFields : \/ DraftKey(d, saved) # saved["pixKey"]
                            \/ d["pixKeyType"] # saved["pixKeyType"]}

ChangesOf(d, saved) ==
    [f \in Changed(d, saved) |-> IF f = "pixKey" THEN DraftKey(d, saved) ELSE d[f]]

ValidDraft(d) ==
    /\ KeyFits(d)
    /\ d["interestFreeUpTo"] <= d["maxInstallments"]
    /\ \A f \in Tables : Complete(d[f])
    /\ DOMAIN ActiveRates(d) # {}

Dirty(e) == Changed(draft[e], cache[e]) # {} \/ ~ValidDraft(draft[e])

\* The preview beside the form: the rows of the active table that are filled.
PreviewRules(d, mode) ==
    LET rates == ActiveRates(d)
        filled == {n \in DOMAIN rates : \A m \in Modes : rates[n][m] # Blank}
    IN  [max |-> d["maxInstallments"],
         free |-> IF d["interestFreeUpTo"] <= d["maxInstallments"]
                  THEN d["interestFreeUpTo"] ELSE d["maxInstallments"],
         fees |-> [n \in filled |-> rates[n][mode]],
         least |-> d["minInstallmentCents"]]

-----------------------------------------------------------------------------
\* What a field may hold: numbers of instalments, cents, and tables of fees that
\* a form may have half filled.
ValueFits(f, v) ==
    /\ f \in {"maxInstallments", "interestFreeUpTo"} => v \in Nat \ {0}
    /\ f = "minInstallmentCents" => v \in Nat
    /\ f \in Tables => /\ DOMAIN v \subseteq Nat \ {0}
                       /\ \A n \in DOMAIN v, m \in Modes : v[n][m] \in Nat \cup {Blank}

ASSUME ValuesFit ==
    /\ \A f \in Fields : ValueFits(f, FirstRules[f])
    /\ \A f \in Tables : Complete(FirstRules[f])
    /\ \A i \in Inputs : \A f \in DOMAIN i : ValueFits(f, i[f])
    /\ Totals \subseteq Nat

NoPatch == [f \in {} |-> None]

Init ==
    /\ rules = FirstRules
    /\ cache = [e \in Editors |-> FirstRules]
    /\ fetching = [e \in Editors |-> None]
    /\ open = {}
    /\ draft = [e \in Editors |-> FirstRules]
    /\ phase = [e \in Editors |-> "idle"]
    /\ patch = [e \in Editors |-> NoPatch]
    /\ got = [e \in Editors |-> FirstRules]
    /\ attached = [e \in Editors |-> FALSE]
    /\ edits = MaxEdits
    /\ saves = MaxSaves
    /\ fetches = MaxFetches
    /\ typed = [e \in Editors |-> {}]
    /\ shifted = [e \in Editors |-> {}]
    /\ sentTyped = [e \in Editors |-> {}]
    /\ sentShifted = [e \in Editors |-> {}]
    /\ overtaken = FALSE

\* The key and its type are sent together, so touching one touches both.
Touched(fields) == fields \cup (IF fields \cap PixFields # {} THEN PixFields ELSE {})

\* The fields of an open form whose cached value a new document replaces.
MovedUnder(e, new) ==
    IF e \in open THEN Touched({f \in Fields : cache[e][f] # new[f]}) ELSE {}

(***************************************************************************)
(* The query.  It runs when the page is mounted with nothing or with old   *)
(* data in the cache, and when the connection comes back.  The server      *)
(* reads now and the answer arrives later, and takes the place of whatever *)
(* the cache holds by then.  The open form keeps its draft.                *)
(***************************************************************************)
FetchRead(e) ==
    /\ fetches > 0 /\ fetching[e] = None
    /\ fetching' = [fetching EXCEPT ![e] = rules]
    /\ fetches' = fetches - 1
    /\ UNCHANGED <<rules, cache, open, draft, typed, shifted, edits, saveVars, overtaken>>

FetchArrives(e) ==
    /\ fetching[e] # None
    /\ cache' = [cache EXCEPT ![e] = fetching[e]]
    /\ fetching' = [fetching EXCEPT ![e] = None]
    /\ shifted' = [shifted EXCEPT ![e] = @ \cup MovedUnder(e, fetching[e])]
    /\ UNCHANGED <<rules, open, draft, typed, edits, fetches, saveVars, overtaken>>

\* The form is shown once there is data, and copies it.
Opened(e, d) ==
    /\ draft' = [draft EXCEPT ![e] = d]
    /\ typed' = [typed EXCEPT ![e] = {}]
    /\ shifted' = [shifted EXCEPT ![e] = {}]

OpenForm(e) ==
    /\ e \notin open
    /\ open' = open \cup {e}
    /\ Opened(e, cache[e])
    /\ UNCHANGED <<rules, cache, fetching, edits, fetches, saveVars, overtaken>>

CloseForm(e) ==
    /\ e \in open
    /\ open' = open \ {e}
    /\ Opened(e, FirstRules)
    /\ attached' = [attached EXCEPT ![e] = FALSE]
    /\ UNCHANGED <<rules, cache, fetching, edits, fetches, phase, patch, got, saves, sentTyped,
                   sentShifted, overtaken>>

\* The fields stay open to typing while a save is under way.
EditField(e) ==
    /\ e \in open /\ edits > 0
    /\ \E i \in Inputs :
        /\ \E f \in DOMAIN i : draft[e][f] # i[f]
        /\ draft' = [draft EXCEPT ![e] = Merged(@, i)]
        /\ typed' = [typed EXCEPT ![e] = @ \cup Touched(DOMAIN i)]
    /\ edits' = edits - 1
    /\ UNCHANGED <<rules, cache, fetching, open, shifted, fetches, saveVars, overtaken>>

Discard(e) ==
    /\ e \in open /\ phase[e] = "idle" /\ Dirty(e)
    /\ Opened(e, cache[e])
    /\ UNCHANGED <<rules, cache, fetching, open, edits, fetches, saveVars, overtaken>>

(***************************************************************************)
(* Saving.                                                                 *)
(***************************************************************************)
Submit(e) ==
    /\ e \in open /\ phase[e] = "idle" /\ saves > 0
    /\ ValidDraft(draft[e])
    /\ Changed(draft[e], cache[e]) # {}
    /\ phase' = [phase EXCEPT ![e] = "sent"]
    /\ patch' = [patch EXCEPT ![e] = ChangesOf(draft[e], cache[e])]
    /\ attached' = [attached EXCEPT ![e] = TRUE]
    /\ saves' = saves - 1
    /\ sentTyped' = [sentTyped EXCEPT ![e] = typed[e]]
    /\ sentShifted' = [sentShifted EXCEPT ![e] = shifted[e]]
    /\ UNCHANGED <<rules, formVars, got, overtaken>>

SaveReads(e) ==
    /\ phase[e] = "sent"
    /\ phase' = [phase EXCEPT ![e] = "read"]
    /\ got' = [got EXCEPT ![e] = rules]
    /\ UNCHANGED <<rules, formVars, patch, attached, saves, sentTyped, sentShifted, overtaken>>

Acceptable(e) ==
    LET after == Merged(got[e], patch[e])
    IN  PairAccepted(after, patch[e]) /\ SchemaAccepts(after)

\* The answer is the document as this request has it, not as it is stored.
SaveWrites(e) ==
    /\ phase[e] = "read" /\ Acceptable(e)
    /\ LET after == Merged(got[e], patch[e])
       IN  /\ rules' = Stored(rules, got[e], after)
           /\ got' = [got EXCEPT ![e] = after]
    /\ phase' = [phase EXCEPT ![e] = "saved"]
    /\ overtaken' = (overtaken \/ got[e] # rules)
    /\ UNCHANGED <<formVars, patch, attached, saves, sentTyped, sentShifted>>

\* Nothing is kept of a request once it is answered.
Over(e) ==
    /\ phase' = [phase EXCEPT ![e] = "idle"]
    /\ patch' = [patch EXCEPT ![e] = NoPatch]
    /\ got' = [got EXCEPT ![e] = FirstRules]
    /\ attached' = [attached EXCEPT ![e] = FALSE]
    /\ sentTyped' = [sentTyped EXCEPT ![e] = {}]
    /\ sentShifted' = [sentShifted EXCEPT ![e] = {}]

\* The answer goes into the cache, and into the form that sent the PATCH when
\* it is still there: what was typed meanwhile goes.
AnswerSaved(e) ==
    /\ phase[e] = "saved"
    /\ cache' = [cache EXCEPT ![e] = got[e]]
    /\ IF attached[e]
       THEN Opened(e, got[e])
       ELSE /\ shifted' = [shifted EXCEPT ![e] = @ \cup MovedUnder(e, got[e])]
            /\ UNCHANGED <<draft, typed>>
    /\ Over(e)
    /\ UNCHANGED <<rules, fetching, open, edits, fetches, saves, overtaken>>

\* "Nothing was changed", says the page, and cache and draft stay: the server
\* refused, or the request was lost on its way, or its answer was.
SaveFails(e) ==
    /\ \/ phase[e] = "read" /\ ~Acceptable(e)
       \/ phase[e] \in {"sent", "saved"}
    /\ Over(e)
    /\ UNCHANGED <<rules, formVars, saves, overtaken>>

-----------------------------------------------------------------------------
Screen(e) ==
    \/ FetchRead(e) \/ FetchArrives(e)
    \/ OpenForm(e) \/ CloseForm(e) \/ EditField(e) \/ Discard(e)

Saving(e) ==
    \/ Submit(e) \/ SaveReads(e) \/ SaveWrites(e)
    \/ AnswerSaved(e) \/ SaveFails(e)

Next == \E e \in Editors : Screen(e) \/ Saving(e)

Spec == Init /\ [][Next]_vars

-----------------------------------------------------------------------------
(***************************************************************************)
(* Properties.                                                             *)
(***************************************************************************)

\* The stored rules fit together, the PIX key with its type, the interest-free
\* limit with the most instalments, the plan in use with its table, and so do
\* the rules each page holds, whatever old data the screens validated, until a
\* save writes from a document that changed after it was read
\* (payments.service.ts:143 and the hook of the schema).
Fitting(d) ==
    /\ KeyFits(d)
    /\ d["interestFreeUpTo"] <= d["maxInstallments"]
    /\ d["activeCardPlan"] = "NITRO" => DOMAIN d["nitroCardRates"] # {}
RulesFitTogether == ~overtaken => Fitting(rules) /\ \A e \in Editors : Fitting(cache[e])

ASSUME FirstRulesFit == Fitting(FirstRules)

\* The same of the pair alone, overlapping saves included: the two halves of
\* "a tela pode trocar chave e tipo em duas telas" (payments.service.ts:145)
\* stay a pair.  It breaks: each request checks the pair it has in memory, and
\* two of them write one half each.
PixKeyIsOfItsType == KeyFits(rules)

\* A save changes a field of the stored rules only if its editor touched it, or
\* its cached value had moved under her draft, or it is a table that another
\* save changed between the reading and the writing of this one: opening the
\* page with old data and saving undoes no other change of a colleague, saves
\* that overlap included (changesOf).
ColleagueIsNotUndone ==
    [][\A e \in Editors : SaveWrites(e) =>
         \A f \in Fields : rules'[f] # rules[f] =>
             \/ f \in sentTyped[e] \cup sentShifted[e]
             \/ f \in Tables /\ got[e][f] # rules[f]]_vars

\* The same without the escapes: what the editor did not touch is not written.
\* It breaks in both of the ways ColleagueIsNotUndone sets aside: the query that
\* ran again under an open draft, and the other request that was saved between
\* the reading and the writing (the tables are written always).
OnlyTypedIsSaved ==
    [][\A e \in Editors : SaveWrites(e) =>
         \A f \in Fields : rules'[f] # rules[f] => f \in sentTyped[e]]_vars

\* An answer takes nothing from the form that was not in the PATCH it answers.
\* It breaks: the fields take typing during a save, and the answer replaces the
\* whole draft (admin-payments-page.tsx:157).
TypingSurvivesTheAnswer ==
    [][\A e \in Editors : AnswerSaved(e) /\ e \in open =>
         \A f \in Fields : draft'[e][f] # draft[e][f] => f \in DOMAIN patch[e]]_vars

\* The "without interest" of the shop window is offered at the checkout, at the
\* same price per instalment, in both ways of charging the card; and the preview
\* of a form that shows the stored rules is the list the checkout gives.
Shows(e) == e \in open /\ cache[e] = rules /\ ~Dirty(e)
ShopKeepsItsWord ==
    \A t \in Totals, m \in Modes :
        LET offered == InstallmentOptions(t, RulesOf(rules, m))
            best == BestInterestFree(t, PublicCard(rules))
        IN  /\ best # 0 =>
                 \E o \in offered : /\ o.number = best /\ ~o.interest
                                    /\ o.each = t \div best /\ o.total = t
            /\ \A e \in Editors : Shows(e) =>
                 InstallmentOptions(t, PreviewRules(draft[e], m)) = offered

\* Whatever rules the editors leave, every option's instalments add up to its
\* total, the first is never the smaller one, and what the store is left with
\* after the fee is the price of the label (installments.ts:9 and 150).
InstalmentsClose ==
    \A t \in Totals, m \in Modes : \A o \in InstallmentOptions(t, RulesOf(rules, m)) :
        /\ o.first + o.each * (o.number - 1) = o.total
        /\ o.first >= o.each
        /\ NetOf(o.total, FeeOf(o.number, RulesOf(rules, m))) = t
=============================================================================
