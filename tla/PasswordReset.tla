--------------------------- MODULE PasswordReset ---------------------------
(***************************************************************************)
(* The links that let a customer of the shop set a new password            *)
(* (backend/src/modules/customers/password-reset.service.ts), beside the   *)
(* sessions of that customer.                                              *)
(*                                                                         *)
(* An ASK is one run of request: it closes the links that are open,        *)
(* creates one and mails it; a link is named after the ask that creates    *)
(* it.  A RESET is one run of reset with the token of a link.  The runs of *)
(* Sessions go on beside them, those that the shop has: login, refresh and *)
(* change of password.  No route of the shop signs out or deactivates a    *)
(* customer.  An invocation that is killed is one that takes no further    *)
(* step.  A reset may also come with a token that no link has.  Left out:  *)
(* the mail that does not arrive.                                          *)
(***************************************************************************)
EXTENDS Sessions

CONSTANTS
    Asks,                   \* runs of request, and the links they create
    Resets,                 \* runs of reset
    MAX_RESET_ATTEMPTS      \* count at which a link stops working

ASSUME ResetAssumption ==
    /\ Asks \cap Runs = {} /\ Resets \cap Runs = {} /\ None \notin Asks \cup Resets
    /\ MAX_RESET_ATTEMPTS \in Nat \ {0}

VARIABLES
    (***********************************************************************)
    (* Documents of the database.                                          *)
    (***********************************************************************)
    link,       \* usedAt of the document each ask creates
    late,       \* links whose expiresAt has passed
    attempts,   \* attempts
    password,   \* passwordHash of the customer, by who set it
    (***********************************************************************)
    (* Local state.                                                        *)
    (***********************************************************************)
    apc,        \* where each ask is
    zpc,        \* where each reset is
    shown,      \* the link whose token each reset was given
    (***********************************************************************)
    (* History variables.                                                  *)
    (***********************************************************************)
    older,      \* the links there were when an ask looked for the customer
    under,      \* the password there was when a run last read the customer
    swept,      \* sessions some reset has swept
    wrong       \* tokens of no link that came while each link worked

linkVars == <<link, late, attempts>>
resetVars == <<linkVars, password, apc, zpc, shown, older, under, swept, wrong>>
allVars == <<vars, resetVars>>

-----------------------------------------------------------------------------
ResetTypeOK ==
    /\ link \in [Asks -> {None, "open", "used", "gone"}]
    /\ late \subseteq Asks
    /\ attempts \in [Asks -> Nat]
    /\ password \in Runs \cup Resets \cup {None}
    /\ apc \in [Asks -> {"idle", "closing", "creating", "done"}]
    /\ zpc \in [Resets -> {"idle", "counting", "owning", "claiming", "setting",
                           "sweeping", "done", "refused"}]
    /\ shown \in [Resets -> Asks \cup {None}]
    /\ older \in [Asks -> SUBSET Asks]
    /\ under \in [Runs -> Runs \cup Resets \cup {None}]
    /\ swept \subseteq Runs \cup {None}
    /\ wrong \in [Asks -> Nat]

ResetInit ==
    /\ Init
    /\ link = [f \in Asks |-> None]
    /\ late = {}
    /\ attempts = [f \in Asks |-> 0]
    /\ password = None
    /\ apc = [f \in Asks |-> "idle"]
    /\ zpc = [x \in Resets |-> "idle"]
    /\ shown = [x \in Resets |-> None]
    /\ older = [f \in Asks |-> {}]
    /\ under = [r \in Runs |-> None]
    /\ swept = {}
    /\ wrong = [f \in Asks |-> 0]

AskGoto(f, step) == apc' = [apc EXCEPT ![f] = step]
ResetGoto(x, step) == zpc' = [zpc EXCEPT ![x] = step]

-----------------------------------------------------------------------------
(***************************************************************************)
(* request.                                                                *)
(***************************************************************************)

\* A customer that is active and has an e-mail gets a link.
FindCustomer(f) ==
    /\ apc[f] = "idle"
    /\ \/ active /\ AskGoto(f, "closing")
       \/ AskGoto(f, "done")
    /\ older' = [older EXCEPT ![f] = {g \in Asks : link[g] # None}]
    /\ UNCHANGED <<vars, linkVars, password, zpc, shown, under, swept, wrong>>

\* Mutant of CloseOlder: the filter finds nothing.
CloseNone(f) ==
    /\ apc[f] = "closing"
    /\ AskGoto(f, "creating")
    /\ UNCHANGED <<vars, linkVars, password, zpc, shown, older, under, swept, wrong>>

\* openRequest: every link of the customer that has no usedAt gets one.
CloseOlder(f) ==
    /\ apc[f] = "closing"
    /\ link' = [g \in Asks |-> IF link[g] = "open" THEN "used" ELSE link[g]]
    /\ AskGoto(f, "creating")
    /\ UNCHANGED <<vars, late, attempts, password, zpc, shown, older, under, swept, wrong>>

\* openRequest: the new link, which goes out by mail.
CreateLink(f) ==
    /\ apc[f] = "creating"
    /\ link' = [link EXCEPT ![f] = "open"]
    /\ AskGoto(f, "done")
    /\ UNCHANGED <<vars, late, attempts, password, zpc, shown, older, under, swept, wrong>>

\* Its time is over; later the database sweeps the document.
LinkExpires(f) ==
    /\ link[f] \notin {None, "gone"}
    /\ \/ f \notin late /\ late' = late \cup {f} /\ UNCHANGED link
       \/ f \in late /\ link' = [link EXCEPT ![f] = "gone"] /\ UNCHANGED late
    /\ UNCHANGED <<vars, attempts, password, apc, zpc, shown, older, under, swept, wrong>>

-----------------------------------------------------------------------------
(***************************************************************************)
(* reset.                                                                  *)
(***************************************************************************)

Works(f) == link[f] = "open" /\ f \notin late /\ attempts[f] < MAX_RESET_ATTEMPTS

\* The document of the link is read, and one that does not work is refused.
FindLink(x) ==
    /\ zpc[x] = "idle"
    /\ \E f \in Asks :
        /\ link[f] # None
        /\ shown' = [shown EXCEPT ![x] = f]
        /\ ResetGoto(x, IF Works(f) THEN "owning"
                        ELSE IF link[f] = "gone" THEN "refused" ELSE "counting")
    /\ UNCHANGED <<vars, linkVars, password, apc, older, under, swept, wrong>>

\* A token whose hash no document has finds nothing to count on: it answers
\* with the same refusal, and the links stay as they are.
WrongToken(x) ==
    /\ zpc[x] = "idle"
    /\ ResetGoto(x, "refused")
    /\ wrong' = [f \in Asks |-> IF Works(f) THEN wrong[f] + 1 ELSE wrong[f]]
    /\ UNCHANGED <<vars, linkVars, password, apc, shown, older, under, swept>>

\* The refusal is counted on the document, if it is still there.
CountAttempt(x) ==
    /\ zpc[x] = "counting"
    /\ attempts' = [attempts EXCEPT ![shown[x]] = IF link[shown[x]] = "gone" THEN @ ELSE @ + 1]
    /\ ResetGoto(x, "refused")
    /\ UNCHANGED <<vars, link, late, password, apc, shown, older, under, swept, wrong>>

FindOwner(x) ==
    /\ zpc[x] = "owning"
    /\ ResetGoto(x, IF active THEN "claiming" ELSE "refused")
    /\ UNCHANGED <<vars, linkVars, password, apc, shown, older, under, swept, wrong>>

\* Mutant of ClaimLink: the filter forgets usedAt.
ClaimUsed(x) ==
    /\ zpc[x] = "claiming"
    /\ \/ link[shown[x]] # "gone" /\ ResetGoto(x, "setting")
             /\ link' = [link EXCEPT ![shown[x]] = "used"]
       \/ link[shown[x]] = "gone" /\ ResetGoto(x, "refused") /\ UNCHANGED link
    /\ UNCHANGED <<vars, late, attempts, password, apc, shown, older, under, swept, wrong>>

\* Marked as used before the password changes, if nobody has marked it: the
\* filter does not ask whether it expired meanwhile.
ClaimLink(x) ==
    /\ zpc[x] = "claiming"
    /\ \/ link[shown[x]] = "open" /\ ResetGoto(x, "setting")
             /\ link' = [link EXCEPT ![shown[x]] = "used"]
       \/ link[shown[x]] # "open" /\ ResetGoto(x, "refused") /\ UNCHANGED link
    /\ UNCHANGED <<vars, late, attempts, password, apc, shown, older, under, swept, wrong>>

\* Mutant of SetPassword: the version is left for the sweep to bump.
SetHashOnly(x) ==
    /\ zpc[x] = "setting"
    /\ password' = x
    /\ ResetGoto(x, "sweeping")
    /\ UNCHANGED <<vars, linkVars, apc, shown, older, under, swept, wrong>>

\* The hash and the version in one update.
SetPassword(x) ==
    /\ zpc[x] = "setting"
    /\ password' = x
    /\ credential' = credential + 1
    /\ ResetGoto(x, "sweeping")
    /\ UNCHANGED <<active, token, rpc, localVars, historyVars,
                   linkVars, apc, shown, older, under, swept, wrong>>

\* Mutant of SweepSessions: revokeRefreshTokens is not called.
SweepNoSession(x) ==
    /\ zpc[x] = "sweeping"
    /\ swept' = swept \cup Settled
    /\ ResetGoto(x, "done")
    /\ UNCHANGED <<vars, linkVars, password, apc, shown, older, under, wrong>>

\* revokeRefreshTokens of the customer.
SweepSessions(x) ==
    /\ zpc[x] = "sweeping"
    /\ token' = [t \in Runs |-> IF token[t] = "open" THEN "revoked" ELSE token[t]]
    /\ swept' = swept \cup Settled
    /\ ResetGoto(x, "done")
    /\ UNCHANGED <<accountVars, rpc, localVars, historyVars,
                   linkVars, password, apc, shown, older, under, wrong>>

-----------------------------------------------------------------------------
(***************************************************************************)
(* The runs of the shop's sessions, and the password each of them sees.    *)
(***************************************************************************)

ReadsCustomer(r) == Login(r) \/ ReadOwner(r)
LeavesCustomer(r) ==
    \/ Issue(r) \/ Claim(r) \/ ClaimFails(r) \/ CheckReuse(r) \/ RevokeAll(r) \/ Bump(r)
    \/ EnterChange(r) \/ VerifyCurrent(r) \/ SweepTokens(r) \/ Expire(r)

CustomerStep(r) ==
    /\ \/ /\ ReadsCustomer(r)
          /\ under' = [under EXCEPT ![r] = password]
          /\ UNCHANGED password
       \/ /\ WritePassword(r)
          /\ password' = r
          /\ under' = [under EXCEPT ![r] = r]
       \/ LeavesCustomer(r) /\ UNCHANGED <<password, under>>
    /\ UNCHANGED <<linkVars, apc, zpc, shown, older, swept, wrong>>

AskStep(f) == FindCustomer(f) \/ CloseOlder(f) \/ CreateLink(f) \/ LinkExpires(f)

ResetStep(x) ==
    \/ FindLink(x) \/ WrongToken(x) \/ CountAttempt(x) \/ FindOwner(x)
    \/ ClaimLink(x) \/ SetPassword(x) \/ SweepSessions(x)

ResetNext ==
    \/ \E r \in Runs : CustomerStep(r)
    \/ \E f \in Asks : AskStep(f)
    \/ \E x \in Resets : ResetStep(x)

ResetSpec == ResetInit /\ [][ResetNext]_allVars

-----------------------------------------------------------------------------
(***************************************************************************)
(* Properties.                                                             *)
(***************************************************************************)

\* A link sets one password at most, however many clicks on it run at once.
LinkSetsOnePassword ==
    \A x, y \in Resets :
        /\ {zpc[x], zpc[y]} \subseteq {"setting", "sweeping", "done"}
        /\ shown[x] = shown[y]
        => x = y

\* Once a customer has asked again and the new link exists, the links there
\* were when they asked open nothing any more.
OlderLinkIsDead ==
    \A f \in Asks : link[f] # None => \A g \in older[f] : link[g] # "open"

\* An access token works only while the password its run read is the one the
\* customer has: whoever sets another ends it with the same write.
AccessEndsWithThePassword == \A a \in handed : Accepted(a) => under[a] = password

\* A session that a reset swept is never continued; the only ones it does not
\* sweep are those a refresh or a login was carrying at that instant.
SweptStaysSwept == \A t \in Open : session[t] \notin swept

\* A customer who asks again stops the resets that have found an older link
\* working and have not claimed it yet: from the closing of the older links on,
\* none of them goes on to the write of a password.
NewAskStopsOlderResets ==
    [][\A x \in Resets, f \in Asks :
        /\ shown[x] \in older[f]
        /\ apc[f] = "creating" \/ link[f] # None
        => ~(zpc[x] = "claiming" /\ zpc'[x] = "setting")]_allVars

-----------------------------------------------------------------------------
(***************************************************************************)
(* The inductive invariant behind them.                                    *)
(***************************************************************************)

\* A link opens once, ends once and does not come back: the reset that ended it
\* is the only one that may set a password with it.
LinksInv ==
    /\ \A f \in Asks :
        /\ apc[f] # "done" => link[f] = None
        /\ \A g \in older[f] : link[g] # None
        /\ apc[f] = "creating" => \A g \in older[f] : link[g] # "open"
    /\ \A x \in Resets :
        /\ zpc[x] \notin {"idle", "refused"} => shown[x] \in Asks /\ link[shown[x]] # None
        /\ zpc[x] \in {"setting", "sweeping", "done"} => link[shown[x]] # "open"
    /\ LinkSetsOnePassword /\ OlderLinkIsDead

\* What a run may sign with was read under the password there is, unless a
\* version has overtaken it; and nobody carries a session that was swept.
CustomerInv ==
    /\ IssuedAtTheEnd
    /\ ChangeOpensItsOwn
    /\ \A r, q \in Runs : token[r] = None /\ session[q] = r => q = r
    /\ ReadIsNotAhead
    /\ \A a \in Signing : signed[a] = credential => under[a] = password
    /\ \A r \in Runs : token[r] = None => r \notin swept
    /\ \A r \in Runs : Carries(r) => session[r] \notin swept

-----------------------------------------------------------------------------
(***************************************************************************)
(* What the repository says of itself, and the code does not do.           *)
(***************************************************************************)

\* password-reset.service.ts: asking again must not leave two links alive.
OneLinkAlive == Cardinality({f \in Asks : link[f] = "open"}) <= 1

\* password-reset-token.schema.ts: a few attempts with a wrong token end the
\* request, and customers.constants.ts: how many it bears before it ends.
FewWrongTokensEndTheLink == \A f \in Asks : Works(f) => wrong[f] < MAX_RESET_ATTEMPTS

\* password-reset.service.ts: a reset brings every session down, so that what
\* is open afterwards was opened with the password it set.
ResetEndsEverySession ==
    \A x \in Resets : zpc[x] = "done" /\ password = x => \A t \in Open : under[session[t]] = x
=============================================================================
