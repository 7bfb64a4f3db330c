----------------------------- MODULE Catalogue -----------------------------
(***************************************************************************)
(* The shared catalogue: the tree of categories, the products filed under  *)
(* them and the picture gallery of one of them (catalog/service.ts,        *)
(* catalog/repo.ts, catalog/domain).                                       *)
(*                                                                         *)
(* A cycle is a property of the whole tree, so every change of a parent    *)
(* holds one advisory lock.  A gallery is reordered row by row in one      *)
(* transaction: two reorderings may wait for each other, and the database  *)
(* then aborts one.                                                        *)
(***************************************************************************)
EXTENDS Requests, Sequences

CONSTANTS
    Categories,
    NoParent,     \* a null parentId
    Goods,        \* products of the master, each with a SKU of its own
    Images,
    FirstTrees,   \* trees there may be at the start
    FirstGallery, \* sort keys at the start, Nothing for no such image
    MaxCatalogueCalls   \* bound: requests served in one behaviour

VARIABLES
    parent,    \* each category's parent or NoParent; Nothing if not created
    active,    \* categories that are active
    treeLock,  \* the request holding the advisory lock, or Nothing
    filed,     \* each product's category and isActive, Nothing if not created
    sortKey,   \* committed sort key of each image, Nothing if there is none
    imageLock, \* the request holding the image's row, or Nothing
    lastOrder  \* the images of the last reordering, with their new keys

catalogueRows == <<parent, active, treeLock, filed>>
galleryRows == <<sortKey, imageLock, lastOrder>>
catalogueVars == <<request, parent, active, treeLock, filed, sortKey, imageLock, lastOrder>>

Existing(tree) == {c \in Categories : tree[c] # Nothing}

\* Every nonempty set of categories has one whose parent is not in the set.
Acyclic(S, tree) ==
    \A T \in SUBSET S : T # {} => \E c \in T : tree[c] \notin T

Filings == [category : Categories, active : BOOLEAN]

Galleries == [Images -> (0..Cardinality(Images)) \cup {Nothing}]

ASSUME CatalogueConstants ==
    /\ MaxCatalogueCalls \in Nat
    /\ NoParent \notin Categories
    /\ Nothing \notin Categories \cup {NoParent} \cup Nat \cup BOOLEAN
    /\ Nothing \notin Filings
    /\ IsFiniteSet(Images)
    /\ FirstGallery \in Galleries
    /\ \A t \in FirstTrees :
         /\ t \in [Categories -> Categories \cup {NoParent, Nothing}]
         /\ \A c \in Existing(t) : t[c] \in Existing(t) \cup {NoParent}
         /\ Acyclic(Existing(t), t)

-----------------------------------------------------------------------------
(* What is asked; only an administrator may write the catalogue *)

Staff == {User("SUPER_ADMIN", NoStore)}
           \cup {User(role, s) : role \in Roles \ {"SUPER_ADMIN"}, s \in Stores}

MayWrite(action) == \E p \in Staff : Authorized(p, action, NoStore)

CategoryJobs ==
    [op : {"addCategory"}, category : Categories, under : Categories \cup {NoParent}]
        \cup [op : {"moveCategory"}, category : Categories,
              under : Categories \cup {NoParent}, active : BOOLEAN]
        \cup [op : {"deactivate"}, category : Categories, active : {FALSE}]
        \cup [op : {"setActive"}, category : Categories, active : BOOLEAN]

\* A product is created under a category; an update may refile it, and may
\* set whether it is active (deactivateProduct does only that).
ProductJobs ==
    [op : {"addProduct"}, product : Goods, category : Categories, active : {TRUE}]
        \cup [op : {"updateProduct"}, product : Goods,
              category : Categories \cup {Nothing}, active : BOOLEAN \cup {Nothing}]

Shown == {i \in Images : sortKey[i] # Nothing}

\* listImages: by sort key, ties in any order.
ListsOf(keys) ==
    {f \in [1..Cardinality(Shown) -> Shown] :
        /\ \A m, n \in DOMAIN f : f[m] = f[n] => m = n
        /\ \A m, n \in DOMAIN f : m < n => keys[f[m]] <= keys[f[n]]}

-----------------------------------------------------------------------------
(* The tree *)

\* The parent has to exist; addCategory reads that before its transaction.
AskCategory(r) ==
    /\ served < MaxCatalogueCalls
    /\ MayWrite("category:write")
    /\ \E j \in CategoryJobs :
         /\ j.op = "addCategory" => j.under \in Existing(parent) \cup {NoParent}
         /\ j.op = "deactivate" => \A c \in Existing(parent) : parent[c] # j.category
         /\ Starts(r, Nothing, j, "asked", Nothing)
    /\ UNCHANGED <<catalogueRows, galleryRows>>

\* createCategory: the slug is new, or the insert is refused.
AddCategory(r) ==
    /\ pc[r] = "asked" /\ job[r].op = "addCategory"
    /\ LET c == job[r].category IN
         IF parent[c] = Nothing
         THEN /\ parent' = [parent EXCEPT ![c] = job[r].under]
              /\ active' = active \cup {c}
         ELSE UNCHANGED <<parent, active>>
    /\ Answered(r)
    /\ UNCHANGED <<treeLock, filed, galleryRows>>

\* assertNoCycle walks up from the proposed parent: the walk stays in a set of
\* categories closed under parents, ends at a root, and never meets c.
MayHang(c, under, tree) ==
    \/ under = NoParent
    \/ \E S \in SUBSET Existing(tree) :
         /\ under \in S /\ c \notin S
         /\ \A s \in S : tree[s] \in S \cup {NoParent}
         /\ Acyclic(S, tree)

\* Bug: the tree is read without the lock.
CheckTreeUnlocked(r) ==
    /\ pc[r] = "asked" /\ job[r].op = "moveCategory"
    /\ IF parent[job[r].category] # Nothing
          /\ MayHang(job[r].category, job[r].under, parent)
       THEN GoesOn(r, "checked", Nothing)
       ELSE Answered(r)
    /\ UNCHANGED <<catalogueRows, galleryRows>>

\* updateCategory with a parent: lockCategoryTree, then the check on the tree
\* as it is under the lock.
CheckTree(r) ==
    /\ pc[r] = "asked" /\ job[r].op = "moveCategory"
    /\ treeLock = Nothing
    /\ IF parent[job[r].category] # Nothing
          /\ MayHang(job[r].category, job[r].under, parent)
       THEN /\ GoesOn(r, "checked", Nothing)
            /\ treeLock' = r
       ELSE /\ Answered(r)
            /\ UNCHANGED treeLock
    /\ UNCHANGED <<parent, active, filed, galleryRows>>

\* isActive is a column of the same row.
Marked(j) ==
    IF j.active /\ parent[j.category] # Nothing
    THEN active \cup {j.category} ELSE active \ {j.category}

MoveCategory(r) ==
    /\ pc[r] = "checked"
    /\ parent' = [parent EXCEPT ![job[r].category] = job[r].under]
    /\ active' = Marked(job[r])
    /\ treeLock' = Nothing
    /\ Answered(r)
    /\ UNCHANGED <<filed, galleryRows>>

\* updateCategory without a parent takes no lock; deactivateCategory counted no
\* children before it called it.
SetActive(r) ==
    /\ pc[r] = "asked" /\ job[r].op \in {"deactivate", "setActive"}
    /\ active' = Marked(job[r])
    /\ Answered(r)
    /\ UNCHANGED <<parent, treeLock, filed, galleryRows>>

-----------------------------------------------------------------------------
(* The products *)

\* Category and product were read before the transaction.
AskProduct(r) ==
    /\ served < MaxCatalogueCalls
    /\ MayWrite("product:write")
    /\ \E j \in ProductJobs :
         /\ j.category # Nothing => j.category \in Existing(parent)
         /\ j.op = "updateProduct" => filed[j.product] # Nothing
         /\ Starts(r, Nothing, j, "asked", Nothing)
    /\ UNCHANGED <<catalogueRows, galleryRows>>

\* createProduct: a SKU that is taken is refused by the database.  updateProduct
\* writes the columns it was sent.
WriteProduct(r) ==
    /\ pc[r] = "asked" /\ job[r].op \in {"addProduct", "updateProduct"}
    /\ LET row == filed[job[r].product]
           Sent(field, now) == IF field # Nothing THEN field ELSE now
       IN filed' = IF job[r].op = "addProduct" /\ row # Nothing THEN filed
                   ELSE [filed EXCEPT ![job[r].product] =
                           [category |-> Sent(job[r].category, row.category),
                            active |-> Sent(job[r].active, row.active)]]
    /\ Answered(r)
    /\ UNCHANGED <<parent, active, treeLock, galleryRows>>

-----------------------------------------------------------------------------
(* The gallery *)

\* addProductImage counts the images before its transaction.
AskImage(r) ==
    /\ served < MaxCatalogueCalls
    /\ MayWrite("product-image:write")
    /\ \E i \in Images :
         /\ sortKey[i] = Nothing
         /\ Starts(r, Nothing, [op |-> "addImage", image |-> i], "asked",
                   [count |-> Cardinality(Shown)])
    /\ UNCHANGED <<catalogueRows, galleryRows>>

AddImage(r) ==
    /\ pc[r] = "asked" /\ job[r].op = "addImage"
    /\ sortKey[job[r].image] = Nothing
    /\ sortKey' = [sortKey EXCEPT ![job[r].image] = seen[r].count]
    /\ Answered(r)
    /\ UNCHANGED <<catalogueRows, imageLock, lastOrder>>

AskRemoval(r) ==
    /\ served < MaxCatalogueCalls
    /\ MayWrite("product-image:write")
    /\ \E i \in Shown :
         /\ Starts(r, Nothing, [op |-> "removeImage", image |-> i], "asked", Nothing)
    /\ UNCHANGED <<catalogueRows, galleryRows>>

\* removeProductImage waits for the row; a row that is gone is an error.
RemoveImage(r) ==
    /\ pc[r] = "asked" /\ job[r].op = "removeImage"
    /\ imageLock[job[r].image] = Nothing
    /\ sortKey' = [sortKey EXCEPT ![job[r].image] = Nothing]
    /\ lastOrder' = [lastOrder EXCEPT ![job[r].image] = Nothing]
    /\ Answered(r)
    /\ UNCHANGED <<catalogueRows, imageLock>>

\* moveProductImageAction: two neighbours of the list it read are swapped, and
\* reorderProductImages checks that the new order names what there is, once each.
AskOrder(r) ==
    /\ served < MaxCatalogueCalls
    /\ MayWrite("product-image:write")
    /\ \E list \in ListsOf(sortKey) : \E n \in 1..(Cardinality(Shown) - 1) :
         /\ Starts(r, Nothing, [op |-> "order"], "ordering",
                   [done |-> 0,
                    order |-> [list EXCEPT ![n] = list[n + 1], ![n + 1] = list[n]]])
    /\ UNCHANGED <<catalogueRows, galleryRows>>

NextImage(r) == seen[r].order[seen[r].done + 1]
AllSet(r) == seen[r].done = Len(seen[r].order)
Ordering(r) == pc[r] = "ordering"

ReleaseImages(r) ==
    imageLock' = [i \in Images |-> IF imageLock[i] = r THEN Nothing ELSE imageLock[i]]

\* Bug: every row is a transaction of its own.
SetKeyAtOnce(r) ==
    /\ Ordering(r) /\ ~AllSet(r)
    /\ imageLock[NextImage(r)] = Nothing
    /\ IF sortKey[NextImage(r)] # Nothing
       THEN /\ GoesOn(r, "ordering", [seen[r] EXCEPT !.done = seen[r].done + 1])
            /\ sortKey' = [sortKey EXCEPT ![NextImage(r)] = seen[r].done]
       ELSE /\ Answered(r)
            /\ UNCHANGED sortKey
    /\ UNCHANGED <<catalogueRows, imageLock, lastOrder>>

\* One row is updated and stays locked; an image gone meanwhile fails the lot.
SetKey(r) ==
    /\ Ordering(r) /\ ~AllSet(r)
    /\ imageLock[NextImage(r)] = Nothing
    /\ IF sortKey[NextImage(r)] # Nothing
       THEN /\ GoesOn(r, "ordering", [seen[r] EXCEPT !.done = seen[r].done + 1])
            /\ imageLock' = [imageLock EXCEPT ![NextImage(r)] = r]
       ELSE /\ Answered(r)
            /\ ReleaseImages(r)
    /\ UNCHANGED <<catalogueRows, sortKey, lastOrder>>

\* Two reorderings that wait for each other: the database aborts one of them.
BreakDeadlock(r) ==
    /\ Ordering(r) /\ ~AllSet(r)
    /\ \E q \in Requests \ {r} :
         /\ Ordering(q) /\ ~AllSet(q)
         /\ imageLock[NextImage(r)] = q
         /\ imageLock[NextImage(q)] = r
    /\ Answered(r)
    /\ ReleaseImages(r)
    /\ UNCHANGED <<catalogueRows, sortKey, lastOrder>>

KeyIn(order, i) == (CHOOSE n \in 1..Len(order) : order[n] = i) - 1
Ordered(order) == {order[n] : n \in 1..Len(order)}

CommitOrder(r) ==
    /\ Ordering(r) /\ AllSet(r)
    /\ sortKey' = [i \in Images |-> IF i \in Ordered(seen[r].order)
                                    THEN KeyIn(seen[r].order, i) ELSE sortKey[i]]
    /\ lastOrder' = [i \in Images |-> IF i \in Ordered(seen[r].order)
                                      THEN KeyIn(seen[r].order, i) ELSE Nothing]
    /\ Answered(r)
    /\ ReleaseImages(r)
    /\ UNCHANGED catalogueRows

-----------------------------------------------------------------------------
CatalogueInit ==
    /\ RequestsInit
    /\ parent \in FirstTrees
    /\ active = Existing(parent)
    /\ treeLock = Nothing
    /\ filed = [p \in Goods |-> Nothing]
    /\ sortKey = FirstGallery
    /\ imageLock = [i \in Images |-> Nothing]
    /\ lastOrder = [i \in Images |-> Nothing]

CatalogueNext ==
    \E r \in Requests :
        \/ AskCategory(r) \/ AddCategory(r) \/ CheckTree(r) \/ MoveCategory(r) \/ SetActive(r)
        \/ AskProduct(r) \/ WriteProduct(r)
        \/ AskImage(r) \/ AddImage(r) \/ AskRemoval(r) \/ RemoveImage(r)
        \/ AskOrder(r) \/ SetKey(r) \/ BreakDeadlock(r) \/ CommitOrder(r)

CatalogueSpec == CatalogueInit /\ [][CatalogueNext]_catalogueVars

-----------------------------------------------------------------------------
(* Properties *)

TreeRequest(r) ==
    pc[r] = "checked" =>
        /\ treeLock = r
        /\ job[r].op = "moveCategory" /\ job[r] \in CategoryJobs
        /\ parent[job[r].category] # Nothing
        /\ MayHang(job[r].category, job[r].under, parent)

GalleryRequest(r) ==
    Ordering(r) => \A n \in 1..seen[r].done : imageLock[seen[r].order[n]] = r

\* The images of the last reordering that are still there stand in exactly the
\* order it asked for, never in a mixture of two orders or in half of one
\* (service.ts:441 "a half-applied order is a visibly broken gallery").
GalleryIsSomeonesOrder ==
    \A i \in Images : lastOrder[i] # Nothing => sortKey[i] = lastOrder[i]

\* Types; a category hangs under one that exists, and so does a product; what a
\* request checked is still so when it writes, because it holds the lock it
\* checked under; the gallery stands in the order of one reordering.
CatalogueInv ==
    /\ parent \in [Categories -> Categories \cup {NoParent, Nothing}]
    /\ \A c \in Existing(parent) : parent[c] \in Existing(parent) \cup {NoParent}
    /\ active \subseteq Existing(parent)
    /\ filed \in [Goods -> Filings \cup {Nothing}]
    /\ \A p \in Goods : filed[p] # Nothing => filed[p].category \in Existing(parent)
    /\ sortKey \in Galleries
    /\ \A r \in Requests : TreeRequest(r) /\ GalleryRequest(r)
    /\ GalleryIsSomeonesOrder

\* The categories are a forest, whatever moves run at once: no walk up or down
\* the tree can loop (service.ts:104-118, repo.ts lockCategoryTree).
TreeHasNoCycle == Acyclic(Existing(parent), parent)
=============================================================================
