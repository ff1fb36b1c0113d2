------------------------ MODULE PaymentPanelProofs ------------------------
(***************************************************************************)
(* Proofs about PaymentPanel, for any number of editors, any rules to      *)
(* begin with that fit together, anything typed and any number of saves.   *)
(*                                                                         *)
(* Server is why the stored rules fit together: until a save writes from a *)
(* document that changed meanwhile, whatever a page or a request holds was *)
(* stored once, and a merge into it that was accepted fits too.            *)
(* Form is why a save undoes nobody: a draft that differs from its cache   *)
(* was typed there, or the cache moved under it there.                     *)
(***************************************************************************)
EXTENDS PaymentPanel, FiniteSetTheorems, WellFoundedInduction, TLAPS

Shape ==
    /\ DOMAIN cache = Editors /\ DOMAIN fetching = Editors /\ DOMAIN draft = Editors
    /\ DOMAIN phase = Editors /\ DOMAIN patch = Editors /\ DOMAIN got = Editors
    /\ DOMAIN typed = Editors /\ DOMAIN sentTyped = Editors
    /\ DOMAIN shifted = Editors /\ DOMAIN sentShifted = Editors
    /\ overtaken \in BOOLEAN

CopiesFit ==
    \A e \in Editors :
        /\ Fitting(cache[e]) /\ Fitting(got[e])
        /\ fetching[e] # None => Fitting(fetching[e])

Server == ~overtaken => Fitting(rules) /\ CopiesFit

Known(e) == typed[e] \cup shifted[e]

PairKnownTogether == \A e \in Editors : "pixKey" \in Known(e) <=> "pixKeyType" \in Known(e)

DraftIsKnown ==
    \A e \in open : \A f \in Fields : draft[e][f] # cache[e][f] => f \in Known(e)

PatchIsKnown ==
    \A e \in Editors : phase[e] \in {"sent", "read"} =>
        DOMAIN patch[e] \cap Fields \subseteq sentTyped[e] \cup sentShifted[e]

Form == open \subseteq Editors /\ PairKnownTogether /\ DraftIsKnown /\ PatchIsKnown

PanelInv == Shape /\ Server /\ Form

-----------------------------------------------------------------------------
(* The initial states (Init) have the invariant; the stored rules fit.     *)
LEMMA PanelInit == Init => PanelInv
BY FirstRulesFit, Zenon DEF Init, PanelInv, Shape, Server, Form, CopiesFit, Known,
    PairKnownTogether, DraftIsKnown, PatchIsKnown

(* Every step keeps the domains of the functions (all the actions).        *)
LEMMA ShapeKept == Shape /\ [Next]_vars => Shape'
<1> SUFFICES ASSUME Shape, [Next]_vars PROVE Shape'
  OBVIOUS
<1> USE DEF Shape, formVars, saveVars
<1>1. CASE UNCHANGED vars
  BY <1>1 DEF vars
<1>2. ASSUME NEW e \in Editors, Screen(e) PROVE Shape'
  BY <1>2 DEF Screen, FetchRead, FetchArrives, OpenForm, CloseForm, EditField, Discard, Opened
<1>3. ASSUME NEW e \in Editors, Saving(e) PROVE Shape'
  BY <1>3 DEF Saving, Submit, SaveReads, SaveWrites, AnswerSaved, SaveFails, Over, Opened
<1> QED BY <1>1, <1>2, <1>3 DEF Next

(* Where the request still holds what is stored, the document after a save *)
(* is the one that was validated (PaymentsService.update).                 *)
LEMMA FreshSaveStoresTheMerge ==
    ASSUME NEW before, NEW body, NEW f \in Fields
    PROVE  Stored(before, before, Merged(before, body))[f] = Merged(before, body)[f]
BY DEF Stored, Written, Merged

(* A merge that was accepted fits if the document it was made of does      *)
(* (applyPixKey and the hook of the schema).                               *)
LEMMA AcceptedMergeFits ==
    ASSUME NEW before, NEW body, Fitting(before),
           PairAccepted(Merged(before, body), body), SchemaAccepts(Merged(before, body))
    PROVE  Fitting(Merged(before, body))
<1> DEFINE after == Merged(before, body)
<1>1. KeyFits(after)
  <2>1. CASE DOMAIN body \cap PixFields # {}
    BY <2>1 DEF PairAccepted
  <2>2. CASE DOMAIN body \cap PixFields = {}
    BY <2>2 DEF Merged, Fitting, KeyFits, PixFields, Fields
  <2> QED BY <2>1, <2>2
<1> QED BY <1>1 DEF Fitting, SchemaAccepts

(* Fitting looks at the fields only.                                       *)
LEMMA FittingByFields ==
    ASSUME NEW c, NEW d, Fitting(c), \A f \in Fields : d[f] = c[f]
    PROVE  Fitting(d)
BY DEF Fitting, KeyFits, Fields, PixFields, Tables

(* The screens leave the document and the requests alone, and what a query *)
(* reads is what is stored.                                                *)
LEMMA ScreensKeepServer ==
    ASSUME Shape, Server, NEW e \in Editors, Screen(e) PROVE Server'
<1> USE DEF Shape, Server, CopiesFit
<1>1. CASE FetchRead(e)
  BY <1>1 DEF FetchRead, saveVars
<1>2. CASE FetchArrives(e)
  BY <1>2 DEF FetchArrives, saveVars
<1>3. CASE OpenForm(e) \/ EditField(e) \/ Discard(e)
  BY <1>3 DEF OpenForm, EditField, Discard, saveVars
<1>4. CASE CloseForm(e)
  BY <1>4 DEF CloseForm
<1> QED BY <1>1, <1>2, <1>3, <1>4 DEF Screen

(* A save whose request held the stored document leaves one that fits, and *)
(* its answer fits.                                                        *)
LEMMA WriteFits ==
    ASSUME NEW e \in Editors, SaveWrites(e), Fitting(got[e])
    PROVE  /\ Fitting(Merged(got[e], patch[e]))
           /\ got[e] = rules => Fitting(rules')
<1> DEFINE after == Merged(got[e], patch[e])
<1>1. Fitting(after)
  BY AcceptedMergeFits, Zenon DEF SaveWrites, Acceptable
<1>2. ASSUME got[e] = rules PROVE Fitting(rules')
  <2>1. rules' = Stored(got[e], got[e], after)
    BY <1>2 DEF SaveWrites
  <2>2. \A f \in Fields : rules'[f] = after[f]
    BY <2>1, FreshSaveStoresTheMerge
  <2> HIDE DEF after
  <2> QED BY <1>1, <2>2, FittingByFields
<1> QED BY <1>1, <1>2

LEMMA WriteKeepsServer ==
    ASSUME Shape, Server, NEW e \in Editors, SaveWrites(e) PROVE Server'
<1> SUFFICES ASSUME ~overtaken' PROVE Fitting(rules') /\ CopiesFit'
  BY DEF Server
<1>1. ~overtaken /\ got[e] = rules
  BY DEF SaveWrites
<1>2. Fitting(got[e]) /\ CopiesFit
  BY <1>1 DEF Server, CopiesFit
<1>3. Fitting(rules') /\ Fitting(Merged(got[e], patch[e]))
  BY <1>1, <1>2, WriteFits
<1>4. /\ got' = [got EXCEPT ![e] = Merged(got[e], patch[e])]
      /\ UNCHANGED <<cache, fetching>>
  BY DEF SaveWrites, formVars
<1> QED BY <1>2, <1>3, <1>4 DEF CopiesFit, Shape

(* Every step of a save keeps the stored rules, and every copy of them,    *)
(* fitting.                                                                *)
LEMMA SavesKeepServer == ASSUME Shape, Server, NEW e \in Editors, Saving(e) PROVE Server'
<1> USE DEF Shape, Server, CopiesFit
<1>1. CASE Submit(e)
  BY <1>1 DEF Submit, formVars
<1>2. CASE SaveReads(e)
  BY <1>2 DEF SaveReads, formVars
<1>3. CASE SaveWrites(e)
  BY <1>3, WriteKeepsServer
<1>4. CASE AnswerSaved(e)
  BY <1>4, FirstRulesFit DEF AnswerSaved, Over
<1>5. CASE SaveFails(e)
  BY <1>5, FirstRulesFit DEF SaveFails, Over, formVars
<1> QED BY <1>1, <1>2, <1>3, <1>4, <1>5 DEF Saving

-----------------------------------------------------------------------------
(* Typing adds to what was typed every field it changes, and both halves   *)
(* of the PIX key or neither (EditField).                                  *)
LEMMA TypingIsRemembered ==
    ASSUME Shape, Form, NEW e \in Editors, EditField(e) PROVE Form'
<1> USE DEF Shape
<1>1. PICK i \in Inputs : /\ draft' = [draft EXCEPT ![e] = Merged(@, i)]
                          /\ typed' = [typed EXCEPT ![e] = @ \cup Touched(DOMAIN i)]
  BY DEF EditField
<1>2. UNCHANGED <<cache, open, shifted, phase, patch, sentTyped, sentShifted>>
  BY DEF EditField, saveVars
<1>3. PairKnownTogether'
  BY <1>1, <1>2 DEF Form, PairKnownTogether, Known, Touched, PixFields
<1>4. DraftIsKnown'
  BY <1>1, <1>2 DEF Form, DraftIsKnown, Known, Touched, Merged
<1> QED BY <1>2, <1>3, <1>4 DEF Form, PatchIsKnown

(* A document that takes the place of the cached one keeps known what the  *)
(* draft differs in: by typing, or because the cache moved there.          *)
LEMMA MovedIsKnown ==
    ASSUME Shape, Form, NEW e \in Editors, NEW new,
           cache' = [cache EXCEPT ![e] = new],
           shifted' = [shifted EXCEPT ![e] = @ \cup MovedUnder(e, new)],
           UNCHANGED <<open, draft, typed>>
    PROVE  PairKnownTogether' /\ DraftIsKnown'
<1> USE DEF Shape, Form, PairKnownTogether, DraftIsKnown, Known
<1>1. PairKnownTogether'
  BY DEF MovedUnder, Touched, PixFields
<1>2. ASSUME NEW o \in open, NEW f \in Fields, draft[o][f] # cache'[o][f]
      PROVE  f \in Known(o)'
  <2>1. CASE o = e
    <3>1. cache'[e] = new /\ MovedUnder(e, new) \subseteq shifted'[e]
      OBVIOUS
    <3>2. CASE cache[e][f] # new[f]
      BY <1>2, <2>1, <3>1, <3>2 DEF MovedUnder, Touched
    <3>3. CASE cache[e][f] = new[f]
      BY <1>2, <2>1, <3>1, <3>3
    <3> QED BY <3>2, <3>3
  <2>2. CASE o # e
    BY <1>2, <2>2
  <2> QED BY <2>1, <2>2
<1> QED BY <1>1, <1>2

(* The other steps of a screen copy the cache or mark the draft as left    *)
(* behind by it.                                                           *)
LEMMA ScreensKeepForm == ASSUME Shape, Form, NEW e \in Editors, Screen(e) PROVE Form'
<1> USE DEF Shape, Form, PairKnownTogether, DraftIsKnown, PatchIsKnown, Known
<1>1. CASE FetchRead(e)
  BY <1>1 DEF FetchRead, saveVars
<1>2. CASE FetchArrives(e)
  <2>1. PatchIsKnown' /\ open' = open
    BY <1>2 DEF FetchArrives, saveVars
  <2>2. PairKnownTogether' /\ DraftIsKnown'
    BY <1>2, MovedIsKnown DEF FetchArrives
  <2> QED BY <2>1, <2>2
<1>3. CASE OpenForm(e)
  BY <1>3 DEF OpenForm, Opened, saveVars
<1>4. CASE CloseForm(e)
  BY <1>4 DEF CloseForm, Opened
<1>5. CASE EditField(e)
  BY <1>5, TypingIsRemembered
<1>6. CASE Discard(e)
  BY <1>6 DEF Discard, Opened, saveVars
<1> QED BY <1>1, <1>2, <1>3, <1>4, <1>5, <1>6 DEF Screen

(* Of a draft that differs from its cache only in known fields, only those *)
(* are sent (changesOf).                                                   *)
LEMMA ChangedIsKnown ==
    ASSUME NEW d, NEW saved, NEW T, "pixKey" \in T <=> "pixKeyType" \in T,
           \A f \in Fields : d[f] # saved[f] => f \in T
    PROVE  Changed(d, saved) \subseteq T
<1>1. ASSUME NEW f \in PixFields, \/ DraftKey(d, saved) # saved["pixKey"]
                                 \/ d["pixKeyType"] # saved["pixKeyType"]
      PROVE  f \in T
  BY <1>1 DEF DraftKey, PixFields, Fields
<1>2. ASSUME NEW f \in Fields, d[f] # saved[f] PROVE f \in T
  BY <1>2
<1>3. Tables \subseteq Fields
  BY DEF Fields
<1> QED BY <1>1, <1>2, <1>3 DEF Changed

(* Every step of a save keeps what the drafts and the requests remember.   *)
LEMMA SavesKeepForm == ASSUME Shape, Form, NEW e \in Editors, Saving(e) PROVE Form'
<1> USE DEF Shape, Form, PairKnownTogether, DraftIsKnown, PatchIsKnown, Known
<1>1. CASE Submit(e)
  <2>1. UNCHANGED <<cache, open, draft, typed, shifted>>
    BY <1>1 DEF Submit, formVars
  <2>2. Changed(draft[e], cache[e]) \subseteq typed[e] \cup shifted[e]
    <3> DEFINE T == typed[e] \cup shifted[e]
    <3>1. "pixKey" \in T <=> "pixKeyType" \in T
      OBVIOUS
    <3>2. \A f \in Fields : draft[e][f] # cache[e][f] => f \in T
      BY <1>1 DEF Submit
    <3> HIDE DEF T
    <3>3. Changed(draft[e], cache[e]) \subseteq T
      BY <3>1, <3>2, ChangedIsKnown
    <3> QED BY <3>3 DEF T
  <2>3. DOMAIN patch'[e] = Changed(draft[e], cache[e])
        /\ sentTyped'[e] = typed[e] /\ sentShifted'[e] = shifted[e]
    BY <1>1 DEF Submit, ChangesOf
  <2>4. \A o \in Editors \ {e} : /\ phase'[o] = phase[o] /\ patch'[o] = patch[o]
                                 /\ sentTyped'[o] = sentTyped[o]
                                 /\ sentShifted'[o] = sentShifted[o]
    BY <1>1 DEF Submit
  <2>5. PatchIsKnown'
    BY <2>2, <2>3, <2>4
  <2> QED BY <2>1, <2>5
<1>2. CASE SaveReads(e)
  BY <1>2 DEF SaveReads, formVars
<1>3. CASE SaveWrites(e)
  BY <1>3 DEF SaveWrites, formVars
<1>4. CASE AnswerSaved(e)
  <2>1. /\ \A o \in Editors \ {e} : /\ cache'[o] = cache[o] /\ draft'[o] = draft[o]
                                    /\ typed'[o] = typed[o] /\ shifted'[o] = shifted[o]
        /\ open' = open
    BY <1>4 DEF AnswerSaved, Opened
  <2>2. PatchIsKnown'
    BY <1>4 DEF AnswerSaved, Over
  <2>3. CASE attached[e]
    BY <1>4, <2>1, <2>2, <2>3 DEF AnswerSaved, Opened
  <2>4. CASE ~attached[e]
    <3>1. PairKnownTogether' /\ DraftIsKnown'
      BY <1>4, <2>4, MovedIsKnown DEF AnswerSaved
    <3> QED BY <2>1, <2>2, <3>1
  <2> QED BY <2>3, <2>4
<1>5. CASE SaveFails(e)
  BY <1>5 DEF SaveFails, Over, formVars
<1> QED BY <1>1, <1>2, <1>3, <1>4, <1>5 DEF Saving

-----------------------------------------------------------------------------
(* PanelInv is inductive (Next).                                           *)
LEMMA PanelInvKept == PanelInv /\ [Next]_vars => PanelInv'
<1> SUFFICES ASSUME Shape, Server, Form, [Next]_vars PROVE Server' /\ Form'
  BY ShapeKept DEF PanelInv
<1>1. CASE UNCHANGED vars
  BY <1>1 DEF vars, formVars, saveVars, Server, CopiesFit, Form,
              PairKnownTogether, DraftIsKnown, PatchIsKnown, Known
<1>2. ASSUME NEW e \in Editors, Screen(e) PROVE Server' /\ Form'
  BY <1>2, ScreensKeepServer, ScreensKeepForm
<1>3. ASSUME NEW e \in Editors, Saving(e) PROVE Server' /\ Form'
  BY <1>3, SavesKeepServer, SavesKeepForm
<1> QED BY <1>1, <1>2, <1>3 DEF Next

(* PanelInv holds always: what the server stores, what the screens hold    *)
(* and what the requests carry stay related as it says.                    *)
THEOREM PanelInvariant == Spec => []PanelInv
BY PanelInit, PanelInvKept, PTL DEF Spec

(* The stored rules, and the rules every page holds, pass the checks of    *)
(* the schema together until a save writes from a document that changed    *)
(* after it was read, for any editors, tables and keys                     *)
(* (payments.service.ts:143 and the hook).                                 *)
THEOREM RulesStayFitting == Spec => []RulesFitTogether
<1>1. PanelInv => RulesFitTogether
  BY DEF PanelInv, Server, CopiesFit, RulesFitTogether
<1> QED BY <1>1, PanelInvariant, PTL

(* A save changes a field only if its editor touched it, or its cached     *)
(* value had moved under her draft, or it is a table that another save     *)
(* changed between the reading and the writing, for any number of editors  *)
(* and of saves that overlap (changesOf, payments.service.ts:143).         *)
THEOREM NobodyIsUndone == Spec => ColleagueIsNotUndone
<1>1. ASSUME PanelInv, NEW e \in Editors, SaveWrites(e),
             NEW f \in Fields, rules'[f] # rules[f], f \notin sentTyped[e] \cup sentShifted[e]
      PROVE  f \in Tables /\ got[e][f] # rules[f]
  <2>1. f \notin DOMAIN patch[e]
    BY <1>1 DEF PanelInv, Form, PatchIsKnown, SaveWrites
  <2>2. Merged(got[e], patch[e])[f] = got[e][f]
    BY <2>1 DEF Merged
  <2>3. rules'[f] = IF f \in Tables THEN got[e][f] ELSE rules[f]
    BY <1>1, <2>2 DEF SaveWrites, Stored, Written
  <2> QED BY <1>1, <2>3
<1>2. PanelInv => \A e \in Editors : SaveWrites(e) =>
         \A f \in Fields : rules'[f] # rules[f] =>
             \/ f \in sentTyped[e] \cup sentShifted[e]
             \/ f \in Tables /\ got[e][f] # rules[f]
  BY <1>1
<1> QED BY <1>2, PanelInvariant, PTL DEF ColleagueIsNotUndone

-----------------------------------------------------------------------------
(***************************************************************************)
(* What the documents hold.  Only a draft may have a table with a line     *)
(* half filled: no request carries one (changesOf), so nothing that was    *)
(* read from the server has one.                                           *)
(***************************************************************************)
Sound(d) ==
    /\ \A f \in Fields : ValueFits(f, d[f])
    /\ \A f \in Tables : Complete(d[f])

SoundPatch(body) ==
    \A f \in DOMAIN body \cap Fields :
        ValueFits(f, body[f]) /\ (f \in Tables => Complete(body[f]))

Values ==
    /\ Sound(rules)
    /\ \A e \in Editors :
        /\ Sound(cache[e]) /\ Sound(got[e]) /\ (fetching[e] # None => Sound(fetching[e]))
        /\ \A f \in Fields : ValueFits(f, draft[e][f])
        /\ SoundPatch(patch[e])

(* A merge of what is sound is sound (PaymentsService.update).             *)
LEMMA MergedIsSound ==
    ASSUME NEW d, Sound(d), NEW body, SoundPatch(body) PROVE Sound(Merged(d, body))
<1>1. Tables \subseteq Fields
  BY DEF Fields
<1>2. \A f \in Fields : Merged(d, body)[f] = IF f \in DOMAIN body THEN body[f] ELSE d[f]
  BY DEF Merged
<1> HIDE DEF Fields, Tables
<1> QED BY <1>1, <1>2 DEF Sound, SoundPatch

(* So is what a save leaves of two sound documents (the paths it writes).  *)
LEMMA StoredIsSound ==
    ASSUME NEW current, NEW before, NEW after, Sound(current), Sound(after)
    PROVE  Sound(Stored(current, before, after))
<1>1. Tables \subseteq Fields
  BY DEF Fields
<1>2. \A f \in Fields : \/ Stored(current, before, after)[f] = after[f]
                        \/ Stored(current, before, after)[f] = current[f]
  BY DEF Stored
<1> QED BY <1>1, <1>2 DEF Sound

(* A form sends no table that is not filled in (changesOf).                *)
LEMMA ChangesAreSound ==
    ASSUME NEW d, NEW saved, \A f \in Fields : ValueFits(f, d[f])
    PROVE  SoundPatch(ChangesOf(d, saved))
<1> SUFFICES ASSUME NEW f \in Changed(d, saved), f \in Fields
             PROVE  /\ ValueFits(f, ChangesOf(d, saved)[f])
                    /\ f \in Tables => Complete(ChangesOf(d, saved)[f])
  BY DEF SoundPatch, ChangesOf
<1>1. ChangesOf(d, saved)[f] = IF f = "pixKey" THEN DraftKey(d, saved) ELSE d[f]
  BY DEF ChangesOf
<1>2. CASE f = "pixKey"
  BY <1>2 DEF ValueFits, Tables
<1>3. CASE f # "pixKey"
  <2>1. f \in Tables => Complete(d[f])
    BY DEF Changed, Tables, PixFields
  <2> QED BY <1>1, <1>3, <2>1
<1> QED BY <1>2, <1>3

(* The initial states hold the first rules everywhere (Init).              *)
LEMMA ValuesInit == Init => Values
<1> SUFFICES ASSUME Init PROVE Values
  OBVIOUS
<1>1. Sound(FirstRules)
  BY ValuesFit DEF ValuesFit, Sound
<1>2. SoundPatch(NoPatch)
  BY DEF SoundPatch, NoPatch
<1> QED BY <1>1, <1>2 DEF Init, Values, Sound

(* What a screen reads, copies or types keeps the values.                  *)
LEMMA ScreensKeepValues == ASSUME Shape, Values, NEW e \in Editors, Screen(e) PROVE Values'
<1> USE DEF Shape, Values
<1>0. Sound(FirstRules)
  BY ValuesFit DEF ValuesFit, Sound
<1>1. CASE FetchRead(e)
  BY <1>1 DEF FetchRead, saveVars
<1>2. CASE FetchArrives(e)
  BY <1>2 DEF FetchArrives, saveVars
<1>3. CASE OpenForm(e)
  BY <1>3 DEF OpenForm, Opened, saveVars, Sound
<1>4. CASE CloseForm(e)
  BY <1>0, <1>4 DEF CloseForm, Opened, Sound
<1>5. CASE EditField(e)
  <2>1. PICK i \in Inputs : draft' = [draft EXCEPT ![e] = Merged(@, i)]
    BY <1>5 DEF EditField
  <2>2. \A f \in Fields : ValueFits(f, Merged(draft[e], i)[f])
    BY ValuesFit DEF ValuesFit, Merged
  <2>3. UNCHANGED <<rules, cache, fetching, got, patch>>
    BY <1>5 DEF EditField, saveVars
  <2> QED BY <2>1, <2>2, <2>3
<1>6. CASE Discard(e)
  BY <1>6 DEF Discard, Opened, saveVars, Sound
<1> QED BY <1>1, <1>2, <1>3, <1>4, <1>5, <1>6 DEF Screen

(* A save keeps the values, however many run at the same time.             *)
LEMMA SavesKeepValues == ASSUME Shape, Values, NEW e \in Editors, Saving(e) PROVE Values'
<1> USE DEF Shape, Values
<1>0. Sound(FirstRules) /\ SoundPatch(NoPatch)
  BY ValuesFit DEF ValuesFit, Sound, SoundPatch, NoPatch
<1>1. CASE Submit(e)
  <2>1. SoundPatch(ChangesOf(draft[e], cache[e]))
    BY ChangesAreSound
  <2>2. UNCHANGED <<rules, cache, fetching, draft, got>>
        /\ patch' = [patch EXCEPT ![e] = ChangesOf(draft[e], cache[e])]
    BY <1>1 DEF Submit, formVars
  <2> QED BY <2>1, <2>2
<1>2. CASE SaveReads(e)
  BY <1>2 DEF SaveReads, formVars
<1>3. CASE SaveWrites(e)
  <2> DEFINE after == Merged(got[e], patch[e])
  <2>1. Sound(after)
    BY MergedIsSound
  <2>2. Sound(Stored(rules, got[e], after))
    BY <2>1, StoredIsSound
  <2>3. /\ rules' = Stored(rules, got[e], after) /\ got' = [got EXCEPT ![e] = after]
        /\ UNCHANGED <<cache, fetching, draft, patch>>
    BY <1>3 DEF SaveWrites, formVars
  <2> HIDE DEF after
  <2> QED BY <2>1, <2>2, <2>3
<1>4. CASE AnswerSaved(e)
  <2>1. UNCHANGED <<rules, fetching>> /\ cache' = [cache EXCEPT ![e] = got[e]]
        /\ patch' = [patch EXCEPT ![e] = NoPatch] /\ got' = [got EXCEPT ![e] = FirstRules]
    BY <1>4 DEF AnswerSaved, Over
  <2>2. draft' = [draft EXCEPT ![e] = got[e]] \/ draft' = draft
    BY <1>4 DEF AnswerSaved, Opened
  <2> QED BY <1>0, <2>1, <2>2 DEF Sound
<1>5. CASE SaveFails(e)
  BY <1>0, <1>5 DEF SaveFails, Over, formVars
<1> QED BY <1>1, <1>2, <1>3, <1>4, <1>5 DEF Saving

(* In every reachable state the stored rules are numbers a rule may have,  *)
(* with no line of a table half filled, and so is all that was read or is  *)
(* on its way.                                                             *)
THEOREM ValuesHold == Spec => [](Shape /\ Values)
<1>1. Init => Shape /\ Values
  BY ValuesInit, PanelInit DEF PanelInv
<1>2. Shape /\ Values /\ [Next]_vars => (Shape /\ Values)'
  <2> SUFFICES ASSUME Shape, Values, [Next]_vars PROVE Values'
    BY ShapeKept
  <2>1. CASE UNCHANGED vars
    BY <2>1 DEF vars, formVars, saveVars, Values
  <2>2. ASSUME NEW e \in Editors, Screen(e) PROVE Values'
    BY <2>2, ScreensKeepValues
  <2>3. ASSUME NEW e \in Editors, Saving(e) PROVE Values'
    BY <2>3, SavesKeepValues
  <2> QED BY <2>1, <2>2, <2>3 DEF Next
<1> QED BY <1>1, <1>2, PTL DEF Spec

-----------------------------------------------------------------------------
(***************************************************************************)
(* The arithmetic of an instalment (Installments).                         *)
(***************************************************************************)
(* What a whole division leaves is less than the divisor (Math.floor).     *)
LEMMA Division ==
    ASSUME NEW a \in Int, NEW b \in Nat \ {0}
    PROVE  a \div b \in Int /\ b * (a \div b) <= a /\ a < b * (a \div b) + b
OBVIOUS

(* Rounding is to the nearest: if twice the distance is less than the      *)
(* divisor, that is the number (Math.round).                               *)
LEMMA RoundedIsNearest ==
    ASSUME NEW a \in Int, NEW b \in Nat \ {0}, NEW q \in Int,
           2 * (b * q) - b <= 2 * a, 2 * a < 2 * (b * q) + b
    PROVE  Rounded(a, b) = q
<1> DEFINE n == 2 * a + b
           w == 2 * b
           p == n \div w
<1>1. n \in Int /\ w \in Nat \ {0}
  OBVIOUS
<1> HIDE DEF n, w
<1>2. p \in Int /\ w * p <= n /\ n < w * p + w
  BY <1>1, Division
<1>3. w * q = 2 * (b * q)
  BY DEF w
<1>4. w * q <= n /\ n < w * q + w
  BY <1>3 DEF n, w
<1> HIDE DEF p
<1>5. p = q
  <2>1. CASE p < q
    <3>1. q - p \in Nat \ {0}
      BY <1>2, <2>1
    <3>2. w * (q - p) >= w
      BY <1>1, <3>1
    <3>3. w * (q - p) = w * q - w * p
      BY <1>1, <1>2
    <3>4. w * p \in Int /\ w * q \in Int
      BY <1>1, <1>2
    <3> QED BY <1>1, <1>2, <1>4, <3>2, <3>3, <3>4
  <2>2. CASE p > q
    <3>1. p - q \in Nat \ {0}
      BY <1>2, <2>2
    <3>2. w * (p - q) >= w
      BY <1>1, <3>1
    <3>3. w * (p - q) = w * p - w * q
      BY <1>1, <1>2
    <3>4. w * p \in Int /\ w * q \in Int
      BY <1>1, <1>2
    <3> QED BY <1>1, <1>2, <1>4, <3>2, <3>3, <3>4
  <2> QED BY <1>2, <2>1, <2>2
<1> QED BY <1>5 DEF Rounded, p, n, w

(* How far a rounded number is from the exact one.                         *)
LEMMA RoundedIsNear ==
    ASSUME NEW a \in Int, NEW b \in Nat \ {0}
    PROVE  /\ Rounded(a, b) \in Int
           /\ 2 * (b * Rounded(a, b)) <= 2 * a + b /\ 2 * a < 2 * (b * Rounded(a, b)) + b
<1> DEFINE n == 2 * a + b
           w == 2 * b
           p == n \div w
<1>1. n \in Int /\ w \in Nat \ {0}
  OBVIOUS
<1> HIDE DEF n, w
<1>2. p \in Int /\ w * p <= n /\ n < w * p + w
  BY <1>1, Division
<1> HIDE DEF p
<1>3. w * p = 2 * (b * p)
  BY <1>2 DEF w
<1>4. b * p \in Int
  BY <1>2
<1>5. p = Rounded(a, b)
  BY DEF p, n, w, Rounded
<1> QED BY <1>2, <1>3, <1>4, <1>5 DEF n, w

(* The store is left with the price: the fee of what is charged, taken     *)
(* from it, gives back what it was raised from, to the cent (grossUp,      *)
(* netOf).                                                                 *)
LEMMA NetOfGrossUp ==
    ASSUME NEW net \in Nat, NEW fee \in Int
    PROVE  GrossUp(net, fee) \in Int /\ NetOf(GrossUp(net, fee), fee) = net
<1>1. CASE fee <= 0 \/ fee >= Whole
  BY <1>1 DEF GrossUp, NetOf
<1>2. CASE ~(fee <= 0 \/ fee >= Whole)
  <2> DEFINE rest == Whole - fee
             charged == Rounded(net * Whole, rest)
             exact == net * Whole
             taken == charged * rest
  <2>1. rest \in Nat \ {0} /\ rest < Whole /\ Whole \in Nat \ {0}
    BY <1>2 DEF Whole
  <2>2. exact \in Int
    BY DEF Whole
  <2>3. GrossUp(net, fee) = charged /\ NetOf(charged, fee) = Rounded(taken, Whole)
    BY <1>2 DEF GrossUp, NetOf
  <2> HIDE DEF rest, Whole
  <2>4. /\ charged \in Int /\ 2 * (rest * charged) <= 2 * exact + rest
        /\ 2 * exact < 2 * (rest * charged) + rest
    BY <2>1, <2>2, RoundedIsNear
  <2> HIDE DEF charged
  <2>5. taken = rest * charged /\ taken \in Int
    BY <2>1, <2>4
  <2>6. exact = Whole * net
    BY <2>1
  <2> HIDE DEF taken, exact
  <2>7. 2 * (Whole * net) - Whole <= 2 * taken /\ 2 * taken < 2 * (Whole * net) + Whole
    BY <2>1, <2>2, <2>4, <2>5, <2>6
  <2>8. Rounded(taken, Whole) = net
    BY <2>1, <2>5, <2>7, RoundedIsNearest
  <2> QED BY <2>3, <2>4, <2>8
<1> QED BY <1>1, <1>2

(* The cents a division leaves are in the first instalment (optionFor).    *)
LEMMA OptionCloses ==
    ASSUME NEW charged \in Int, NEW n \in Nat \ {0}, NEW interest
    PROVE  LET o == OptionOf(charged, n, interest)
           IN  o.first + o.each * (o.number - 1) = o.total /\ o.first >= o.each
<1> DEFINE each == charged \div n
<1>1. each \in Int /\ n * each <= charged
  BY Division
<1> HIDE DEF each
<1>2. each * (n - 1) = n * each - each /\ n * each \in Int
  BY <1>1
<1>3. (charged - each * (n - 1)) + each * (n - 1) = charged /\ charged - each * (n - 1) >= each
  BY <1>1, <1>2
<1> QED BY <1>3 DEF OptionOf, each

(* The number of instalments of an option has a fee, which is a number.    *)
LEMMA OptionHasFee ==
    ASSUME Sound(rules), NEW m \in Modes, NEW n \in Nat, HasFee(n, RulesOf(rules, m))
    PROVE  FeeOf(n, RulesOf(rules, m)) \in Int
<1> DEFINE rates == ActiveRates(rules)
<1>1. \A i \in DOMAIN rates : rates[i][m] \in Int
  BY DEF ActiveRates, Sound, ValueFits, Tables, Fields, Blank
<1>2. /\ RulesOf(rules, m).fees = [i \in DOMAIN rates |-> rates[i][m]]
      /\ RulesOf(rules, m).free = rules["interestFreeUpTo"]
  BY DEF RulesOf, FeesOf
<1> HIDE DEF rates
<1> QED BY <1>1, <1>2 DEF HasFee, FeeOf

(* Every option of the stored rules closes (installments.ts:9 and 150).    *)
LEMMA SoundRulesClose == Sound(rules) => InstalmentsClose
<1> SUFFICES ASSUME Sound(rules), NEW t \in Totals, NEW m \in Modes,
                    NEW o \in InstallmentOptions(t, RulesOf(rules, m))
             PROVE  /\ o.first + o.each * (o.number - 1) = o.total /\ o.first >= o.each
                    /\ NetOf(o.total, FeeOf(o.number, RulesOf(rules, m))) = t
  BY DEF InstalmentsClose
<1> DEFINE R == RulesOf(rules, m)
<1>1. R.max \in Nat
  BY DEF RulesOf, Sound, ValueFits, Fields
<1> HIDE DEF R
<1>2. PICK n \in 1..R.max : Offered(t, n, R) /\ o = OptionFor(t, n, R)
  BY DEF InstallmentOptions, R
<1>3. n \in Nat \ {0} /\ HasFee(n, R)
  BY <1>1, <1>2 DEF Offered
<1>4. FeeOf(n, R) \in Int
  BY <1>3, OptionHasFee DEF R
<1>5. t \in Nat
  BY ValuesFit DEF ValuesFit
<1>6. Charged(t, n, R) \in Int /\ NetOf(Charged(t, n, R), FeeOf(n, R)) = t
  BY <1>4, <1>5, NetOfGrossUp DEF Charged
<1>7. o = OptionOf(Charged(t, n, R), n, FeeOf(n, R) > 0)
  BY <1>2 DEF OptionFor
<1>8. o.first + o.each * (o.number - 1) = o.total /\ o.first >= o.each
  BY <1>3, <1>6, <1>7, OptionCloses
<1>9. o.total = Charged(t, n, R) /\ o.number = n
  BY <1>7 DEF OptionOf
<1> QED BY <1>6, <1>8, <1>9 DEF R

(* Whatever the editors save, for any prices and any fees, the instalments *)
(* add up to the total, the first is never the smaller, and the store is   *)
(* left with the price of the label (InstalmentsClose).                    *)
THEOREM InstalmentsAlwaysClose == Spec => []InstalmentsClose
<1>1. Values => InstalmentsClose
  BY SoundRulesClose DEF Values
<1> QED BY <1>1, ValuesHold, PTL

-----------------------------------------------------------------------------
(* A set of numbers from two up to a limit has a greatest: the intervals   *)
(* from each of them to the limit have a smallest.                         *)
LEMMA GreatestOfCounts ==
    ASSUME NEW k \in Int, NEW S, S \subseteq 2..k, S # {}
    PROVE  \E n \in S : \A i \in S : i <= n
<1> DEFINE upwards == {n..k : n \in S}
           all == 2..k
           Less == StrictSubsetOrdering(all)
<1>1. IsFiniteSet(all)
  BY FS_Interval
<1>2. upwards # {}
  OBVIOUS
<1>3. upwards \subseteq SUBSET all
  OBVIOUS
<1>4. \A n \in S, i \in S : n < i => i..k \subseteq n..k /\ i..k # n..k
  <2> SUFFICES ASSUME NEW n \in S, NEW i \in S, n < i
               PROVE  i..k \subseteq n..k /\ i..k # n..k
    OBVIOUS
  <2>1. n \in Int /\ i \in Int /\ n <= k
    OBVIOUS
  <2>2. n \in n..k /\ n \notin i..k
    BY <2>1
  <2> QED BY <2>1, <2>2
<1> HIDE DEF all, upwards, Less
<1>5. IsWellFoundedOn(Less, FiniteSubsetsOf(all))
  BY <1>1, FS_StrictSubsetOrderingWellFounded DEF Less
<1>6. upwards \subseteq FiniteSubsetsOf(all)
  BY <1>1, <1>3, FS_FiniteSubsetsOfFinite
<1>7. PICK t \in upwards : \A u \in upwards : ~(<<u, t>> \in Less)
  BY <1>2, <1>5, <1>6, WFMin
<1>8. \A u \in upwards : ~(u \subseteq t /\ u # t)
  BY <1>3, <1>7 DEF Less, StrictSubsetOrdering
<1>9. PICK n \in S : t = n..k
  BY DEF upwards
<1>10. ASSUME NEW i \in S, n < i PROVE FALSE
  <2>1. i..k \in upwards
    BY DEF upwards
  <2> QED BY <1>4, <1>8, <1>9, <1>10, <2>1
<1>11. \A i \in S : i <= n
  <2>1. \A i \in S : i \in Int
    OBVIOUS
  <2> QED BY <1>10, <2>1
<1> QED BY <1>11

(* What the shop window promises is offered, without interest, at the same *)
(* price per instalment (bestInterestFree, buildInstallmentOptions).       *)
LEMMA PromiseIsOffered ==
    ASSUME Sound(rules), NEW t \in Totals, NEW m \in Modes,
           BestInterestFree(t, PublicCard(rules)) # 0
    PROVE  LET best == BestInterestFree(t, PublicCard(rules))
           IN  \E o \in InstallmentOptions(t, RulesOf(rules, m)) :
                    o.number = best /\ ~o.interest /\ o.each = t \div best /\ o.total = t
<1> DEFINE free == rules["interestFreeUpTo"]
           max == rules["maxInstallments"]
           least == rules["minInstallmentCents"]
           counts == {n \in 2..Least(free, max) : t \div n >= least}
           best == BestInterestFree(t, PublicCard(rules))
           R == RulesOf(rules, m)
<1>1. free \in Nat /\ max \in Nat /\ t \in Nat
  BY ValuesFit DEF Sound, ValueFits, Fields, ValuesFit
<1>2. best = IF counts = {} THEN 0 ELSE CHOOSE n \in counts : \A i \in counts : i <= n
  BY DEF BestInterestFree, PublicCard
<1>3. R.max = max /\ R.free = free /\ R.least = least
  BY DEF RulesOf
<1> HIDE DEF free, max, least, R
<1>4. Least(free, max) \in Int /\ Least(free, max) <= free /\ Least(free, max) <= max
  BY <1>1 DEF Least
<1>5. counts \subseteq 2..Least(free, max) /\ counts # {}
  BY <1>2
<1>6. \E n \in counts : \A i \in counts : i <= n
  <2> HIDE DEF counts
  <2> QED BY <1>4, <1>5, GreatestOfCounts
<1>7. best \in counts
  <2> HIDE DEF counts, best
  <2> QED BY <1>2, <1>5, <1>6
<1> HIDE DEF best
<1>8. best \in 1..max /\ best <= free /\ t \div best >= least /\ best \in Nat
  BY <1>1, <1>4, <1>7
<1>9. FeeOf(best, R) = 0 /\ HasFee(best, R) /\ Charged(t, best, R) = t
  BY <1>3, <1>8 DEF FeeOf, HasFee, Charged, GrossUp
<1>10. Offered(t, best, R)
  BY <1>3, <1>8, <1>9 DEF Offered
<1>11. OptionFor(t, best, R) \in InstallmentOptions(t, R)
  <2>1. best \in {i \in 1..R.max : Offered(t, i, R)}
    BY <1>3, <1>8, <1>10
  <2>2. InstallmentOptions(t, R) =
            {OptionFor(t, n, R) : n \in {i \in 1..R.max : Offered(t, i, R)}}
    BY DEF InstallmentOptions
  <2> QED BY <2>1, <2>2, Zenon
<1>12. OptionFor(t, best, R) = OptionOf(t, best, FALSE)
  <2>1. (FeeOf(best, R) > 0) = FALSE
    BY <1>9
  <2>2. Charged(t, best, R) = t
    BY <1>9
  <2> QED BY <2>1, <2>2 DEF OptionFor, OptionOf
<1> QED BY <1>11, <1>12 DEF OptionOf, best, R

(* A form that shows the stored rules, unchanged and valid, previews the   *)
(* list of the checkout (the preview of admin-payments-page.tsx).          *)
LEMMA PreviewIsTheList ==
    ASSUME NEW e \in Editors, Shows(e), NEW m \in Modes
    PROVE  PreviewRules(draft[e], m) = RulesOf(rules, m)
<1> DEFINE d == draft[e]
<1>1. cache[e] = rules /\ Changed(d, rules) = {} /\ ValidDraft(d)
  BY DEF Shows, Dirty
<1> HIDE DEF d
<1>2. \A f \in Fields \ (PixFields \cup Tables) : d[f] = rules[f]
  BY <1>1 DEF Changed
<1>3. \A f \in Tables : Complete(d[f]) /\ d[f] = rules[f]
  BY <1>1 DEF Changed, ValidDraft
<1>4. /\ d["maxInstallments"] = rules["maxInstallments"]
      /\ d["interestFreeUpTo"] = rules["interestFreeUpTo"]
      /\ d["minInstallmentCents"] = rules["minInstallmentCents"]
      /\ d["activeCardPlan"] = rules["activeCardPlan"]
  BY <1>2 DEF Fields, PixFields, Tables
<1>5. ActiveRates(d) = ActiveRates(rules) /\ Complete(ActiveRates(d))
  BY <1>3, <1>4 DEF ActiveRates, Tables
<1>6. d["interestFreeUpTo"] <= d["maxInstallments"]
  BY <1>1 DEF ValidDraft
<1>7. {n \in DOMAIN ActiveRates(d) : \A i \in Modes : ActiveRates(d)[n][i] # Blank}
        = DOMAIN ActiveRates(rules)
  BY <1>5 DEF Complete
<1>8. PreviewRules(d, m)
        = [max |-> rules["maxInstallments"], free |-> rules["interestFreeUpTo"],
           fees |-> [n \in DOMAIN ActiveRates(rules) |-> ActiveRates(rules)[n][m]],
           least |-> rules["minInstallmentCents"]]
  BY <1>4, <1>5, <1>6, <1>7 DEF PreviewRules
<1> QED BY <1>8 DEF RulesOf, FeesOf, d

(* The shop keeps its word, for any rules the editors leave, any price and *)
(* both ways of charging (ShopKeepsItsWord).                               *)
THEOREM ShopAlwaysKeepsItsWord == Spec => []ShopKeepsItsWord
<1>1. Values => ShopKeepsItsWord
  <2> SUFFICES ASSUME Values, NEW t \in Totals, NEW m \in Modes
               PROVE  LET offered == InstallmentOptions(t, RulesOf(rules, m))
                          best == BestInterestFree(t, PublicCard(rules))
                      IN  /\ best # 0 =>
                               \E o \in offered : /\ o.number = best /\ ~o.interest
                                                  /\ o.each = t \div best /\ o.total = t
                          /\ \A e \in Editors : Shows(e) =>
                               InstallmentOptions(t, PreviewRules(draft[e], m)) = offered
    BY DEF ShopKeepsItsWord
  <2>1. Sound(rules)
    BY DEF Values
  <2> QED BY <2>1, PromiseIsOffered, PreviewIsTheList
<1> QED BY <1>1, ValuesHold, PTL
=============================================================================
