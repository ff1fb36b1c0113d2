-------------------------- MODULE OrdersInvariant --------------------------
(***************************************************************************)
(* The inductive invariant of Orders: what is true between any two round   *)
(* trips of any two invocations, and why the properties of Orders follow.  *)
(***************************************************************************)
EXTENDS Orders

\* What a request holds fits the write it is about to make.
RequestTyped ==
    \A r \in Requests :
        /\ ppc[r] # "idle" => target[r] \in Checkouts /\ Exists(target[r])
        /\ ppc[r] = "moving" => wanted[r] \in Statuses \ {CANCELLED}
        /\ ppc[r] = "noting" => wanted[r] \in Notes

\* The types, and the bound on the codes drawn.
StepTyped ==
    /\ TypeOK
    /\ RequestTyped
    /\ \A o \in Checkouts : cpc[o] = "saving" => tries[o] < ORDER_CODE_ATTEMPTS
    /\ \A o \in Checkouts : cpc[o] \in {"idle", "taking"} => tries[o] = 0

\* A catalogue nobody edits here; Catalog does.
Frozen ==
    /\ \A o \in Checkouts : lenient[o] \subseteq backorder
    /\ listed = Variants

Typed == StepTyped /\ Frozen

\* What a checkout has off the shelf, by the place it is in.  The document
\* exists exactly when the save answered: an answer that is lost breaks this.
CheckoutAccount(o) ==
    /\ left[o] \subseteq Lines(o)
    /\ out[o] \subseteq Lines(o)
    /\ Exists(o) <=> cpc[o] = "placed"
    /\ cpc[o] = "idle" => left[o] = {} /\ out[o] = {}
    /\ cpc[o] = "taking" => left[o] = Lines(o) \ out[o]
    /\ cpc[o] = "saving" => out[o] = Lines(o)
    /\ cpc[o] = "undoing" => left[o] \subseteq out[o]

\* Who may return the lines of an order: nobody while it is live; one claimant
\* once it is cancelled, and only lines that are still out.
ClaimAccount(o) ==
    /\ ~Exists(o) \/ Live(o) => claimants[o] = {}
    /\ Live(o) => out[o] = Lines(o)
    /\ \A r \in claimants[o] :
        /\ target[r] = o
        /\ ppc[r] \in {"restoring", "auditing", "done", "dead"}
        /\ ppc[r] = "restoring" => due[r] \subseteq out[o]
    /\ \A r1, r2 \in claimants[o] : r1 = r2

RestorersClaimed ==
    \A r \in Requests : ppc[r] = "restoring" => r \in claimants[target[r]]

\* While no call that returns a line fails, what is out is what some loop has
\* still to return.
NothingLost(o) ==
    /\ cpc[o] = "undoing" => out[o] = left[o]
    /\ cpc[o] = "refused" => out[o] = {}
    /\ o \notin revived /\ status[o] = CANCELLED =>
        /\ claimants[o] # {}
        /\ \A r \in claimants[o] :
            out[o] = IF ppc[r] = "restoring" THEN due[r] ELSE {}

Accounts ==
    /\ \A o \in Checkouts : CheckoutAccount(o)
    /\ \A o \in Checkouts \ revived : ClaimAccount(o)
    /\ RestorersClaimed

\* The inductive invariant.  EveryUnitInOnePlace alone is not inductive: that a
\* line about to be returned is still out is what the accounts add.
IInv ==
    /\ Typed
    /\ Accounts
    /\ EveryUnitInOnePlace
    /\ Faults \cap {"increment", "crash"} = {} =>
        \A o \in Checkouts : NothingLost(o)
=============================================================================
