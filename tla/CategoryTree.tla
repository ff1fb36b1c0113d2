---------------------------- MODULE CategoryTree ----------------------------
(***************************************************************************)
(* The categories of the store, the requests of the panel that change      *)
(* them, and the import of a catalogue (backend/src/modules/categories,    *)
(* catalog-import, and the categoryIds of a product).                      *)
(*                                                                         *)
(* A category is a document with a parent, an address (slug) and the       *)
(* addresses it had before.  A handler reads, checks and writes in         *)
(* separate round trips to the database, each an action here, and nothing  *)
(* holds the documents in between: only the unique index on the slug       *)
(* refuses a write, the schemas having no version key (base.schema.ts).    *)
(*                                                                         *)
(* Left out: name, image, order (and so the route that reorders), the      *)
(* audit line, the counters of the report, the simulation that writes      *)
(* nothing, the lines of a file whose fields its schema refuses, and the   *)
(* transaction an import runs in where the database is a replica set: the  *)
(* import modelled is the one that writes directly.                        *)
(***************************************************************************)
EXTENDS Naturals, SequencesExt

CONSTANTS
    Ids,            \* the documents there can be
    Slugs,          \* the addresses
    Products,
    Requests,       \* requests of the panel that may be under way at once
    FirstTree,      \* the categories to begin with: a function on some ids
    FirstProducts,  \* the products: [cats, active]
    NewCategories,  \* bodies of POST: [parent, slug, name, active]
    Changes,        \* bodies of PATCH: [parent, slug, active]
    Files,          \* what may be imported: [categories, products]
    Tried,          \* the addresses the hook tries, in order, for a name
    MaxHistory,     \* MAX_PREVIOUS_SLUGS
    MaxRequests,    \* requests in all, an import being one
    None, Same      \* no parent or no slug; a field the PATCH does not carry

ASSUME HistoryIsPositive == MaxHistory \in Nat \ {0}

\* What the database holds to begin with: a tree of one level, and products in
\* categories that exist.
ASSUME FirstFits ==
    /\ None \notin Ids \cup Requests /\ DOMAIN FirstTree \subseteq Ids
    /\ \A c \in DOMAIN FirstTree :
        /\ DOMAIN FirstTree[c] = {"parent", "active", "slug", "old"}
        /\ FirstTree[c].parent # None =>
            /\ FirstTree[c].parent \in DOMAIN FirstTree
            /\ FirstTree[FirstTree[c].parent].parent = None
    /\ DOMAIN FirstProducts = Products
    /\ \A p \in Products : /\ DOMAIN FirstProducts[p] = {"cats", "active"}
                          /\ FirstProducts[p].cats \subseteq DOMAIN FirstTree

\* A body names a parent or none; a PATCH may leave it as it is.
ASSUME BodiesPlace ==
    /\ Same # None
    /\ \A w \in NewCategories : "parent" \in DOMAIN w /\ w.parent \in Ids \cup {None}
    /\ \A w \in Changes : "parent" \in DOMAIN w /\ w.parent \in Ids \cup {None, Same}

\* Addresses are addresses: what the database begins with (the unique index,
\* and nobody's address given again), the bodies, and what the hook tries.
ASSUME AddressesFit ==
    /\ None \notin Slugs /\ Same \notin Slugs
    /\ \A c \in DOMAIN FirstTree : FirstTree[c].slug \in Slugs /\ FirstTree[c].old \in Seq(Slugs)
    /\ \A c, d \in DOMAIN FirstTree :
        c # d => ({FirstTree[c].slug} \cup ToSet(FirstTree[c].old))
                    \cap ({FirstTree[d].slug} \cup ToSet(FirstTree[d].old)) = {}
    /\ \A w \in NewCategories : /\ "slug" \in DOMAIN w /\ w.slug \in Slugs \cup {None}
                                /\ w.slug = None => w.name \in DOMAIN Tried
    /\ \A w \in Changes : "slug" \in DOMAIN w /\ w.slug \in Slugs \cup {Same}
    /\ \A name \in DOMAIN Tried : ToSet(Tried[name]) \subseteq Slugs

VARIABLES
    live,       \* categories in the database
    doc,        \* their documents: [parent, active, slug, old]
    unborn,     \* ids no document has had
    products,   \* [cats, active]
    job,        \* the request each slot of the panel is serving
    imp,        \* the import under way
    requests,   \* how many are left
    (***********************************************************************)
    (* History variables: no line of the code keeps them.                  *)
    (***********************************************************************)
    age,        \* changes of address since c answered at s
    excused,    \* addresses given again without a check, or overrun by a save
    treeClash,  \* two changes of the tree overlapped
    nested,     \* an import put under a parent a category that has children,
                \* that is the parent, or that the import goes by as a root
    deadClash   \* a removal overlapped the filling of a product's categories

treeVars == <<live, doc, unborn, age, excused>>
history == <<treeClash, nested, deadClash>>
vars == <<treeVars, products, job, imp, requests, history>>

Blank == [parent |-> None, active |-> FALSE, slug |-> None, old |-> <<>>]
Idle == [at |-> "idle"]

\* The elements of q that are in S, in their order (Array.prototype.filter).
Only(q, S) ==
    LET kept[n \in 0..Len(q)] ==
            IF n = 0 THEN <<>>
            ELSE IF q[n] \in S THEN Append(kept[n - 1], q[n]) ELSE kept[n - 1]
    IN  kept[Len(q)]

Current == {doc[c].slug : c \in live}
Retired(c) == ToSet(doc[c].old)
RetiredByOthers(c) == UNION {Retired(d) : d \in live \ {c}}
Children(c) == {d \in live : doc[d].parent = c}
At(s) == {c \in live : doc[c].slug = s}
IsRoot(c) == c \in live /\ doc[c].parent = None

-----------------------------------------------------------------------------
(***************************************************************************)
(* Where a request stands.  A request that places a category under a       *)
(* parent, or removes one, goes by what it has already checked.            *)
(***************************************************************************)
Lowers(r) ==
    \/ job[r].at \in {"children", "slug", "name", "write"}
       /\ job[r].kind \in {"create", "update"} /\ job[r].want.parent \in Ids
    \/ job[r].at \in {"count", "pull", "delete"}

ImportLowers == imp.at # "idle" /\ (DOMAIN imp.ids # {} \/ imp.at \in {"stored", "save"})

\* The tree changes while somebody else goes by a check of it; the import also
\* goes by the addresses, so that a change of one is a clash with it.
TreeChange(self, places) ==
    treeClash' = (treeClash \/ (places /\ \E r \in Requests \ {self} : Lowers(r))
                            \/ (self \in Requests /\ ImportLowers))

\* c gets the address s: its other addresses grow older, and everyone who has
\* looked at the addresses goes by an older look.
Aged(c, s) ==
    [age EXCEPT ![c] =
        [t \in Slugs |-> IF t = s THEN 0
                         ELSE IF @[t] > MaxHistory THEN @[t] ELSE @[t] + 1]]

Shift(jobs) ==
    [r \in Requests |->
        IF jobs[r].at \in {"name", "write"} /\ jobs[r].kind \in {"create", "update"}
        THEN [jobs[r] EXCEPT !.shifted = TRUE] ELSE jobs[r]]

Disturbed == IF imp.at = "idle" THEN imp ELSE [imp EXCEPT !.disturbed = TRUE]

Finish(r) == job' = [job EXCEPT ![r] = Idle]
Goto(r, where) == job' = [job EXCEPT ![r].at = where]

-----------------------------------------------------------------------------
(***************************************************************************)
(* POST and PATCH.                                                         *)
(***************************************************************************)
AddressStage(w, slugNow) ==
    IF w.slug = None THEN "name"
    ELSE IF w.slug \notin {Same, slugNow} THEN "slug" ELSE "write"

Start(r) ==
    /\ job[r].at = "idle" /\ requests > 0
    /\ requests' = requests - 1
    /\ UNCHANGED <<treeVars, products, imp, history>>

Create(r, w) ==
    /\ Start(r)
    /\ job' = [job EXCEPT ![r] =
        [kind |-> "create", id |-> None, want |-> w, copy |-> Blank, shifted |-> FALSE,
         at |-> IF w.parent \in Ids THEN "parent" ELSE AddressStage(w, None)]]

\* findById; a parent that is the category itself is refused before any query.
Update(r, c, w) ==
    /\ Start(r)
    /\ c \in live /\ w.parent # c
    /\ job' = [job EXCEPT ![r] =
        [kind |-> "update", id |-> c, want |-> w, copy |-> doc[c], shifted |-> FALSE,
         at |-> IF w.parent \in Ids THEN "parent" ELSE AddressStage(w, doc[c].slug)]]

Checking(r, stage) == job[r].at = stage /\ UNCHANGED <<treeVars, products, imp, requests, history>>

CheckParent(r) ==
    /\ Checking(r, "parent")
    /\ IF IsRoot(job[r].want.parent)
       THEN Goto(r, IF job[r].kind = "update" THEN "children"
                    ELSE AddressStage(job[r].want, None))
       ELSE Finish(r)

CheckChildren(r) ==
    /\ Checking(r, "children")
    /\ IF Children(job[r].id) = {} THEN Goto(r, AddressStage(job[r].want, job[r].copy.slug))
                                   ELSE Finish(r)

\* assertSlugIsFree looks at one category that has, or had, the address: it may
\* be the category itself.
CheckSlug(r) ==
    LET s == job[r].want.slug
        having == {d \in live : s = doc[d].slug \/ s \in Retired(d)}
    IN
    /\ Checking(r, "slug")
    /\ \/ /\ having = {} \/ job[r].id \in having
          /\ Goto(r, "write")
       \/ /\ having \ {job[r].id} # {}
          /\ Finish(r)

\* The hook of the schema: the first address of the name that is nobody's.
NameIt(r) ==
    /\ Checking(r, "name")
    /\ \E k \in DOMAIN Tried[job[r].want.name] :
        LET tries == Tried[job[r].want.name] IN
        /\ tries[k] \notin Current
        /\ \A j \in 1..(k - 1) : tries[j] \in Current
        /\ job' = [job EXCEPT ![r].at = "write", ![r].want.slug = tries[k], ![r].shifted = TRUE]

\* The unique index refuses an address another category has.
Insert(r) ==
    LET w == job[r].want IN
    /\ job[r].at = "write" /\ job[r].kind = "create"
    /\ IF w.slug \in Current
       THEN /\ Finish(r)
            /\ UNCHANGED <<treeVars, imp, history>>
       ELSE \E c \in unborn :
            /\ live' = live \cup {c} /\ unborn' = unborn \ {c}
            /\ doc' = [doc EXCEPT ![c] = [Blank EXCEPT !.parent = w.parent, !.active = w.active,
                                                       !.slug = w.slug]]
            /\ age' = Aged(c, w.slug)
            /\ excused' = excused \cup
                    (IF job[r].shifted THEN {w.slug} \cap RetiredByOthers(c) ELSE {})
            /\ TreeChange(r, w.parent \in Ids)
            /\ job' = Shift([job EXCEPT ![r] = Idle])
            /\ imp' = Disturbed
            /\ UNCHANGED <<nested, deadClash>>
    /\ UNCHANGED <<products, requests>>

\* Mutant: the cut keeps the oldest.
RememberOldest(copy, s) ==
    LET all == Append(Only(copy.old, Slugs \ {s, copy.slug}), copy.slug)
    IN  SubSeq(all, 1, IF Len(all) > MaxHistory THEN MaxHistory ELSE Len(all))

\* rememberSlug: the address given up goes last, the one adopted leaves.
Remember(copy, s) ==
    LET all == Append(Only(copy.old, Slugs \ {s, copy.slug}), copy.slug)
    IN  SubSeq(all, IF Len(all) > MaxHistory THEN Len(all) - MaxHistory + 1 ELSE 1, Len(all))

\* Mutant: the place is written as it was read, even by a PATCH without it.
WrittenWithPlace(c, w, copy) ==
    LET renames == w.slug \notin {Same, copy.slug}
    IN  [doc[c] EXCEPT
            !.parent = IF w.parent = Same THEN copy.parent ELSE w.parent,
            !.active = IF w.active \notin {Same, copy.active} THEN w.active ELSE @,
            !.slug = IF renames THEN w.slug ELSE @,
            !.old = IF renames THEN Remember(copy, w.slug) ELSE @]

\* document.save() writes the fields that differ from the copy that was read;
\* the history is written as it follows from the copy, whatever it is by now.
Written(c, w, copy) ==
    LET moves == w.parent \notin {Same, copy.parent}
        toggles == w.active \notin {Same, copy.active}
        renames == w.slug \notin {Same, copy.slug}
    IN  [doc[c] EXCEPT
            !.parent = IF moves THEN w.parent ELSE @,
            !.active = IF toggles THEN w.active ELSE @,
            !.slug = IF renames THEN w.slug ELSE @,
            !.old = IF renames THEN Remember(copy, w.slug) ELSE @]

Refused(c, w, copy) ==
    \/ c \notin live
    \/ w.slug \notin {Same, copy.slug} /\ w.slug \in {doc[d].slug : d \in live \ {c}}

\* The addresses of c changed since the copy was read: the new history knows
\* nothing of it, and no address of c is sure to be kept, or given up, in order.
Overrun(c, copy) ==
    IF doc[c].slug = copy.slug /\ doc[c].old = copy.old THEN {}
    ELSE Retired(c) \cup ToSet(copy.old) \cup {doc[c].slug, copy.slug}

Save(r) ==
    LET w == job[r].want
        c == job[r].id
        copy == job[r].copy
    IN
    /\ job[r].at = "write" /\ job[r].kind = "update"
    /\ IF Refused(c, w, copy)
       THEN /\ Finish(r)
            /\ UNCHANGED <<treeVars, imp, history>>
       ELSE /\ doc' = [doc EXCEPT ![c] = Written(c, w, copy)]
            /\ IF w.slug \in {Same, copy.slug}
               THEN /\ UNCHANGED <<age, excused>>
                    /\ Finish(r)
               ELSE /\ age' = Aged(c, w.slug)
                    /\ excused' = excused \cup Overrun(c, copy) \cup
                            (IF job[r].shifted THEN {w.slug} \cap RetiredByOthers(c) ELSE {})
                    /\ job' = Shift([job EXCEPT ![r] = Idle])
            /\ TreeChange(r, w.parent \in Ids)
            /\ imp' = Disturbed
            /\ UNCHANGED <<live, unborn, nested, deadClash>>
    /\ UNCHANGED <<products, requests>>

-----------------------------------------------------------------------------
(***************************************************************************)
(* DELETE: both counts, then the references are let go, then the document. *)
(***************************************************************************)
RemoveCategory(r, c) ==
    /\ Start(r)
    /\ c \in live
    /\ job' = [job EXCEPT ![r] = [kind |-> "remove", id |-> c, at |-> "count", left |-> {"children", "products"}]]

Linked(c) == {p \in Products : products[p].active /\ c \in products[p].cats}

Count(r, what) ==
    /\ Checking(r, "count")
    /\ what \in job[r].left
    /\ IF (IF what = "children" THEN Children(job[r].id) ELSE Linked(job[r].id)) # {}
       THEN Finish(r)
       ELSE job' = [job EXCEPT ![r].left = @ \ {what},
                               ![r].at = IF job[r].left = {what} THEN "pull" ELSE "count"]

\* Mutant: the references of inactive products are left.
PullActiveOnly(r) ==
    /\ job[r].at = "pull"
    /\ products' = [p \in Products |->
                    IF products[p].active THEN [products[p] EXCEPT !.cats = @ \ {job[r].id}]
                    ELSE products[p]]
    /\ Goto(r, "delete")
    /\ UNCHANGED <<treeVars, imp, requests, history>>

\* updateMany with $pull: every product, active or not.
Pull(r) ==
    /\ job[r].at = "pull"
    /\ products' = [p \in Products |-> [products[p] EXCEPT !.cats = @ \ {job[r].id}]]
    /\ Goto(r, "delete")
    /\ UNCHANGED <<treeVars, imp, requests, history>>

Fills(r, c) == job[r].at = "fill" /\ c \in job[r].want.cats

Delete(r) ==
    LET c == job[r].id IN
    /\ job[r].at = "delete"
    /\ live' = live \ {c}
    /\ doc' = [doc EXCEPT ![c] = Blank]
    /\ age' = [age EXCEPT ![c] = [s \in Slugs |-> MaxHistory + 1]]
    /\ Finish(r)
    /\ TreeChange(r, TRUE)
    /\ deadClash' = (deadClash \/ (\E q \in Requests : Fills(q, c))
                               \/ (imp.at # "idle" /\ c \in {imp.ids[s] : s \in DOMAIN imp.ids}))
    /\ imp' = Disturbed
    /\ UNCHANGED <<unborn, excused, products, requests, nested>>

-----------------------------------------------------------------------------
(***************************************************************************)
(* A product is saved with the categories the form offered: products       *)
(* .service reads the product and checks nothing about them.               *)
(***************************************************************************)
EditProduct(r, p, cs, on) ==
    /\ Start(r)
    /\ cs \subseteq live
    /\ job' = [job EXCEPT ![r] = [kind |-> "product", id |-> p, at |-> "fill",
                                  want |-> [cats |-> cs, active |-> on], copy |-> products[p]]]

\* A product whose categories differ from the copy is written with them.
Filled(p, cs, copy) ==
    IF cs = copy.cats THEN products[p] ELSE [products[p] EXCEPT !.cats = cs]

\* The category was let go by the products and is about to be deleted.
AboutToGo(cs) == \E r \in Requests : job[r].at = "delete" /\ job[r].id \in cs

SaveProduct(r) ==
    LET p == job[r].id
        w == job[r].want
        copy == job[r].copy
    IN
    /\ job[r].at = "fill"
    /\ products' = [products EXCEPT ![p] = [Filled(p, w.cats, copy) EXCEPT
                        !.active = IF w.active = copy.active THEN @ ELSE w.active]]
    /\ deadClash' = (deadClash \/ AboutToGo(w.cats))
    /\ Finish(r)
    /\ UNCHANGED <<treeVars, imp, requests, treeClash, nested>>

-----------------------------------------------------------------------------
(***************************************************************************)
(* The import of a file: categories, the roots first, then products.       *)
(***************************************************************************)
\* Mutant: the lines are taken as they come.
AsTheyCome(f) == f.categories

InOrder(f) ==
    LET roots == {e \in ToSet(f.categories) : e.parent = None}
    IN  Only(f.categories, roots) \o Only(f.categories, ToSet(f.categories) \ roots)

\* A file has lines of categories, any number of them, each with an address;
\* nothing keeps two of them from giving the same one.
ASSUME FilesHaveLines ==
    \A f \in Files :
        /\ f.categories \in Seq(ToSet(f.categories))
        /\ \A i \in DOMAIN f.categories : f.categories[i].slug \in Slugs

Import(f) ==
    /\ imp.at = "idle" /\ requests > 0
    /\ requests' = requests - 1
    /\ imp' = [at |-> IF f.categories = <<>> THEN "product" ELSE "parent", file |-> f,
               lines |-> InOrder(f), n |-> 1, parent |-> None, stored |-> None, was |-> None,
               ids |-> [s \in {} |-> None], roots |-> {}, failed |-> {}, disturbed |-> FALSE]
    /\ UNCHANGED <<treeVars, products, job, history>>

Entry == imp.lines[imp.n]

\* The next line; after the last category, the products.
Next1(i) ==
    LET more == i.n < Len(i.lines) IN
    [i EXCEPT !.n = IF more THEN @ + 1 ELSE 1, !.at = IF more THEN "parent" ELSE "product",
              !.parent = None, !.stored = None, !.was = None]

Fail == imp' = Next1([imp EXCEPT !.failed = @ \cup {Entry.slug}])

Importing(stage) == imp.at = stage /\ UNCHANGED <<products, job, requests>>

ImportParent ==
    /\ Importing("parent")
    /\ LET p == Entry.parent
           found == {c \in At(p) : IsRoot(c)}
       IN  \/ /\ p = None
              /\ imp' = [imp EXCEPT !.at = "stored"]
           \/ /\ p \in DOMAIN imp.ids
              /\ IF p \in imp.roots
                 THEN imp' = [imp EXCEPT !.at = "stored", !.parent = imp.ids[p]] ELSE Fail
           \/ /\ p # None /\ p \notin DOMAIN imp.ids
              /\ IF found # {}
                 THEN \E c \in found : imp' = [imp EXCEPT !.at = "stored", !.parent = c] ELSE Fail
    /\ UNCHANGED <<treeVars, history>>

ImportStored ==
    /\ Importing("stored")
    /\ IF At(Entry.slug) = {}
       THEN imp' = [imp EXCEPT !.at = "save"]
       ELSE \E c \in At(Entry.slug) :
            imp' = [imp EXCEPT !.at = "save", !.stored = c, !.was = doc[c].parent]
    /\ UNCHANGED <<treeVars, history>>

Done(c) ==
    LET s == Entry.slug IN
    imp' = Next1([imp EXCEPT
        !.ids = [t \in DOMAIN imp.ids \cup {s} |-> IF t = s THEN c ELSE imp.ids[t]],
        !.roots = IF imp.parent = None THEN @ \cup {s} ELSE @])

\* mergeCategory: the file has the say on the place in the tree; an address
\* nobody has is a new category, whoever had it before.
ImportNew ==
    LET s == Entry.slug IN
    /\ Importing("save") /\ imp.stored = None
    /\ IF s \in Current
       THEN /\ Fail
            /\ UNCHANGED <<treeVars, history>>
       ELSE \E c \in unborn :
            /\ live' = live \cup {c} /\ unborn' = unborn \ {c}
            /\ doc' = [doc EXCEPT ![c] = [Blank EXCEPT !.parent = imp.parent, !.active = TRUE,
                                                       !.slug = s]]
            /\ age' = Aged(c, s)
            /\ excused' = excused \cup ({s} \cap RetiredByOthers(c))
            /\ Done(c)
            /\ TreeChange(None, imp.parent \in Ids)
            /\ UNCHANGED <<nested, deadClash>>

ImportStill ==
    LET c == imp.stored
        lowers == imp.parent \in Ids
        moves == lowers /\ imp.parent # imp.was
    IN
    /\ Importing("save") /\ c # None
    /\ IF c \notin live
       THEN /\ Fail
            /\ UNCHANGED <<treeVars, history>>
       ELSE /\ doc' = IF imp.parent = imp.was THEN doc
                      ELSE [doc EXCEPT ![c].parent = imp.parent]
            /\ Done(c)
            /\ IF moves THEN TreeChange(None, TRUE) ELSE UNCHANGED treeClash
            /\ nested' = (nested \/ (moves /\ (Children(c) # {} \/ imp.parent = c))
                                 \/ (lowers /\ Entry.slug \in imp.roots))
            /\ UNCHANGED <<live, unborn, age, excused, deadClash>>

\* A product whose categories are all in the map; the others fail.  The time
\* may be over before any batch of products.
ImportProduct ==
    LET lines == imp.file.products IN
    /\ imp.at = "product"
    /\ \/ imp' = Idle
       \/ /\ imp.n <= Len(lines)
          /\ imp' = IF lines[imp.n].slugs \subseteq DOMAIN imp.ids
                    THEN [imp EXCEPT !.at = "saveProduct", !.was = products[lines[imp.n].product]]
                    ELSE [imp EXCEPT !.n = @ + 1]
    /\ UNCHANGED <<treeVars, products, job, requests, history>>

\* keepFilledList: a line with no category keeps those of the product.
ImportSaveProduct ==
    LET line == imp.file.products[imp.n]
        p == line.product
        cs == IF line.slugs = {} THEN imp.was.cats ELSE {imp.ids[s] : s \in line.slugs}
    IN
    /\ imp.at = "saveProduct"
    /\ products' = [products EXCEPT ![p] = Filled(p, cs, imp.was)]
    /\ deadClash' = (deadClash \/ AboutToGo(cs))
    /\ imp' = [imp EXCEPT !.at = "product", !.n = @ + 1, !.was = None]
    /\ UNCHANGED <<treeVars, job, requests, treeClash, nested>>

-----------------------------------------------------------------------------
Init ==
    /\ live = DOMAIN FirstTree
    /\ unborn = Ids \ live
    /\ doc = [c \in Ids |-> IF c \in live THEN FirstTree[c] ELSE Blank]
    /\ products = FirstProducts
    /\ job = [r \in Requests |-> Idle]
    /\ imp = Idle
    /\ requests = MaxRequests
    /\ age = [c \in Ids |-> [s \in Slugs |->
                IF c \in live /\ doc[c].slug = s THEN 0 ELSE MaxHistory + 1]]
    /\ excused = {}
    /\ treeClash = FALSE /\ nested = FALSE /\ deadClash = FALSE

Panel(r) ==
    \/ \E w \in NewCategories : Create(r, w)
    \/ \E c \in live, w \in Changes : Update(r, c, w)
    \/ CheckParent(r) \/ CheckChildren(r) \/ CheckSlug(r) \/ NameIt(r)
    \/ Insert(r) \/ Save(r)
    \/ \E c \in live : RemoveCategory(r, c)
    \/ \E what \in {"children", "products"} : Count(r, what)
    \/ Pull(r) \/ Delete(r)
    \/ \E p \in Products, cs \in SUBSET live, on \in BOOLEAN : EditProduct(r, p, cs, on)
    \/ SaveProduct(r)

Importer ==
    \/ \E f \in Files : Import(f)
    \/ ImportParent \/ ImportStored \/ ImportNew \/ ImportStill
    \/ ImportProduct \/ ImportSaveProduct

Next == Importer \/ \E r \in Requests : Panel(r)

Spec == Init /\ [][Next]_vars

-----------------------------------------------------------------------------
(***************************************************************************)
(* "Uma subcategoria não pode ter filhos": a category has no parent, or    *)
(* one that exists and has none, or it leaves the menu and the panel       *)
(* (branchesOf) with everything under it.  It holds as long as no two      *)
(* changes of the tree overlap, whatever else overlaps them (changes of    *)
(* address, of the switch, of products), and no import moves a category    *)
(* that has children, or under itself, or that an earlier line put at the  *)
(* root, none of which resolveParent of the import looks at.               *)
(***************************************************************************)
OneLevel ==
    ~treeClash /\ ~nested =>
        \A c \in live : doc[c].parent # None => IsRoot(doc[c].parent)

(***************************************************************************)
(* An address that was printed keeps leading to its category, through any  *)
(* number of changes of address and of requests that overlap, for the      *)
(* MAX_PREVIOUS_SLUGS changes it is remembered for (findPublicBySlug,      *)
(* rememberSlug): unless the address was given again by the hook that      *)
(* names a category, by an import, or by a request whose check was older   *)
(* than another change of address; or two changes of the address of its    *)
(* own category overlapped.                                                *)
(***************************************************************************)
Answers(s) ==
    LET now == {c \in live : doc[c].active /\ doc[c].slug = s}
    IN  IF now # {} THEN now ELSE {c \in live : doc[c].active /\ s \in Retired(c)}

LinksStillLead ==
    \A c \in live, s \in Slugs \ excused :
        doc[c].active /\ age[c][s] <= MaxHistory => Answers(s) = {c}

(***************************************************************************)
(* No product is left with a category that does not exist, whatever the    *)
(* panel and the import do at once, except where the product's categories  *)
(* were being saved around the removal of one of them: a dead id would     *)
(* come back with the product (categories.service.ts, remove).             *)
(***************************************************************************)
NoDeadReference ==
    ~deadClash => \A p \in Products : products[p].cats \subseteq live

(***************************************************************************)
(* An import that nobody disturbs, and that moved no category with         *)
(* children, puts every category of its file where the file says,          *)
(* whatever the order of its lines and whatever was there before; a line   *)
(* fails only when its parent is not a root of the file or, if the file    *)
(* does not mention it, of the store (importCategories, resolveParent,     *)
(* mergeCategory).  The file is one that names every category once: of two *)
(* lines with one address, the later one in the order of the import wins.  *)
(***************************************************************************)
NamesOnce(f) ==
    \A i, j \in DOMAIN f.categories : f.categories[i].slug = f.categories[j].slug => i = j
HasRoot(f, s) == \E e \in ToSet(f.categories) : e.slug = s /\ e.parent = None
Mentions(f, s) == \E e \in ToSet(f.categories) : e.slug = s

FileIsPlaced ==
    imp.at \in {"product", "saveProduct"} /\ ~imp.disturbed /\ ~nested /\ NamesOnce(imp.file) =>
        \A e \in ToSet(imp.file.categories) :
            IF e.slug \in imp.failed
            THEN /\ e.parent # None
                 /\ ~HasRoot(imp.file, e.parent)
                 /\ Mentions(imp.file, e.parent) \/ ~\E c \in At(e.parent) : IsRoot(c)
            ELSE \E c \in At(e.slug) :
                    IF e.parent = None THEN IsRoot(c)
                    ELSE doc[c].parent \in At(e.parent) /\ IsRoot(doc[c].parent)

-----------------------------------------------------------------------------
(***************************************************************************)
(* What the repository says of itself, and the code does not do.           *)
(***************************************************************************)

\* docs/Maison Essence.md: a subcategory has no children.  Two moves that
\* cross, a child created under a category that is being moved or removed,
\* and an import by itself make one.
OneLevelAlways == \A c \in live : doc[c].parent # None => IsRoot(doc[c].parent)

\* assertSlugIsFree: the address somebody gave up is given to nobody else.
\* The hook that names a category and the import do not ask it.
AddressIsGivenOnce ==
    \A c, d \in live : c # d =>
        (Retired(c) \cup {doc[c].slug}) \cap (Retired(d) \cup {doc[d].slug}) = {}

\* rememberSlug: the address a category gives up stays with it.  Two changes of
\* address that overlap forget the one between them.
NoAddressIsForgotten ==
    \A c \in live, s \in Slugs :
        age[c][s] <= MaxHistory => s \in Retired(c) \cup {doc[c].slug}

\* remove: a category with active products is not removed.  A product that
\* comes back between the count and the $pull loses it.
RemovalSparesProducts ==
    [][\A r \in Requests : Pull(r) => Linked(job[r].id) = {}]_vars
=============================================================================
