----------------------------- MODULE ShopProofs -----------------------------
(***************************************************************************)
(* Proofs about what a shopper meets: the catalogue with its tree of       *)
(* categories, the map of shops and areas, the stock that seed and stock   *)
(* files put there, a shopper's device with its cookies, and the pages a   *)
(* visitor is shown.  Each has its own specification; a theorem is about   *)
(* one of them, for any number of requests and rows, every line and every  *)
(* file.                                                                   *)
(***************************************************************************)
EXTENDS Catalogue, StoreMap, Seed, ShopVisit, ShopWindow, StockCsv, FiniteSetTheorems,
        SequenceTheorems, NaturalsInduction, TLAPS

\* What is kept for requests is kept for every request.
ShopTables == DOMAIN pc = Requests /\ DOMAIN job = Requests /\ DOMAIN seen = Requests

-----------------------------------------------------------------------------
(* Trees *)

\* A forest: parents exist, and no set of categories hangs under itself.
Forest(tree) ==
    /\ tree \in [Categories -> Categories \cup {NoParent, Nothing}]
    /\ \A c \in Existing(tree) : tree[c] \in Existing(tree) \cup {NoParent}
    /\ Acyclic(Existing(tree), tree)

\* The tree next is tree with c hung under another category, or under none.
Hung(next, tree, c, under) == next = [tree EXCEPT ![c] = under]

\* A category that is new hangs where its parent is, and what could be moved
\* could be moved still.
LEMMA NewLeaf ==
    ASSUME NEW tree, Forest(tree), NEW c \in Categories, tree[c] = Nothing,
           NEW under \in Existing(tree) \cup {NoParent},
           NEW next, Hung(next, tree, c, under)
    PROVE  /\ Forest(next) /\ Existing(next) = Existing(tree) \cup {c}
           /\ \A d, u : MayHang(d, u, tree) => MayHang(d, u, next)
<1>1. /\ under # Nothing /\ under \in Categories \cup {NoParent} /\ c # NoParent
      /\ c \notin Existing(tree)
  BY CatalogueConstants DEF Existing
<1>2. /\ next \in [Categories -> Categories \cup {NoParent, Nothing}]
      /\ next[c] = under /\ \A d \in Categories : d # c => next[d] = tree[d]
  BY <1>1 DEF Forest, Hung
<1>3. Existing(next) = Existing(tree) \cup {c}
  BY <1>1, <1>2 DEF Existing
<1>4. \A d \in Existing(tree) : next[d] = tree[d] /\ tree[d] # c
  BY <1>1, <1>2 DEF Forest, Existing
<1>5. ASSUME NEW T \in SUBSET Existing(next), T # {}
      PROVE  \E d \in T : next[d] \notin T
  <2>1. CASE T \ {c} = {}
    BY <1>1, <1>2, <1>5, <2>1
  <2>2. CASE T \ {c} # {}
    <3>1. T \ {c} \in SUBSET Existing(tree)
      BY <1>3
    <3>2. PICK d \in T \ {c} : tree[d] \notin T \ {c}
      BY <2>2, <3>1 DEF Forest, Acyclic
    <3> QED BY <1>4, <3>1, <3>2
  <2> QED BY <2>1, <2>2
<1>6. ASSUME NEW d, NEW u, MayHang(d, u, tree), u # NoParent
      PROVE  MayHang(d, u, next)
  <2>1. PICK S \in SUBSET Existing(tree) :
          /\ u \in S /\ d \notin S
          /\ \A s \in S : tree[s] \in S \cup {NoParent}
          /\ Acyclic(S, tree)
    BY <1>6 DEF MayHang
  <2>2. Acyclic(S, next) /\ \A s \in S : next[s] \in S \cup {NoParent}
    BY <1>4, <2>1 DEF Acyclic
  <2>3. S \in SUBSET Existing(next)
    BY <1>3
  <2> QED BY <2>1, <2>2, <2>3 DEF MayHang
<1>7. Acyclic(Existing(next), next)
  BY <1>5 DEF Acyclic
<1>8. \A d \in Existing(next) : next[d] \in Existing(next) \cup {NoParent}
  BY <1>2, <1>3, <1>4 DEF Forest
<1> QED BY <1>2, <1>3, <1>6, <1>7, <1>8 DEF Forest, MayHang

\* A category that is moved to where the walk said it may hang closes no circle.
LEMMA MovedBranch ==
    ASSUME NEW tree, Forest(tree), NEW c \in Existing(tree), NEW under, MayHang(c, under, tree),
           NEW next, Hung(next, tree, c, under)
    PROVE  Forest(next) /\ Existing(next) = Existing(tree)
<1>1. under \in Existing(tree) \cup {NoParent}
  BY DEF MayHang
<1>2. under # Nothing /\ under \in Categories \cup {NoParent} /\ c \in Categories
  BY <1>1, CatalogueConstants DEF Existing
<1>3. /\ next \in [Categories -> Categories \cup {NoParent, Nothing}]
      /\ next[c] = under /\ \A d \in Categories : d # c => next[d] = tree[d]
  BY <1>2 DEF Forest, Hung
<1>4. Existing(next) = Existing(tree)
  BY <1>2, <1>3 DEF Existing
<1>5. ASSUME NEW T \in SUBSET Existing(tree), T # {}
      PROVE  \E d \in T : next[d] \notin T
  <2>1. \A d \in T : d # c => next[d] = tree[d]
    BY <1>3 DEF Existing
  <2>2. CASE c \notin T
    BY <1>5, <2>1, <2>2 DEF Forest, Acyclic
  <2>3. CASE c \in T /\ under = NoParent
    BY <1>3, <2>3, CatalogueConstants DEF Existing
  <2>4. CASE c \in T /\ under # NoParent
    <3>1. PICK S \in SUBSET Existing(tree) :
            /\ under \in S /\ c \notin S
            /\ \A s \in S : tree[s] \in S \cup {NoParent}
            /\ Acyclic(S, tree)
      BY <2>4 DEF MayHang
    <3>2. CASE T \cap S = {}
      BY <1>3, <2>4, <3>1, <3>2
    <3>3. CASE T \cap S # {}
      <4>1. PICK d \in T \cap S : tree[d] \notin T \cap S
        BY <3>1, <3>3 DEF Acyclic
      <4>2. tree[d] \notin T
        BY <3>1, <4>1, CatalogueConstants DEF Existing
      <4> QED BY <2>1, <3>1, <4>1, <4>2
    <3> QED BY <3>2, <3>3
  <2> QED BY <2>2, <2>3, <2>4
<1>6. Acyclic(Existing(next), next)
  BY <1>4, <1>5 DEF Acyclic
<1>7. \A d \in Existing(next) : next[d] \in Existing(next) \cup {NoParent}
  BY <1>1, <1>3, <1>4 DEF Forest, Existing
<1> QED BY <1>3, <1>4, <1>6, <1>7 DEF Forest

-----------------------------------------------------------------------------
(* The tree and what is filed in it *)

\* What a request asked may rely on until it writes: rows are never deleted.
Grounded(j, tree, filing) ==
    \/ /\ j \in CategoryJobs
       /\ j.op = "addCategory" => j.under \in Existing(tree) \cup {NoParent}
    \/ /\ j \in ProductJobs
       /\ j.category # Nothing => j.category \in Existing(tree)
       /\ j.op = "updateProduct" => filing[j.product] # Nothing
    \/ j.op \in {"addImage", "removeImage"}

\* What the holder of the lock found on its walk.
Walked(j, tree) ==
    /\ j.op = "moveCategory" /\ j \in CategoryJobs
    /\ tree[j.category] # Nothing
    /\ MayHang(j.category, j.under, tree)

Filed(filing, tree) ==
    /\ filing \in [Goods -> Filings \cup {Nothing}]
    /\ \A p \in Goods : filing[p] # Nothing => filing[p].category \in Existing(tree)

TreeRight ==
    /\ ShopTables
    /\ Forest(parent) /\ active \subseteq Existing(parent) /\ Filed(filed, parent)
    /\ \A r \in Requests :
         /\ pc[r] \in {"idle", "asked", "checked", "ordering"}
         /\ pc[r] = "asked" => Grounded(job[r], parent, filed)
         /\ pc[r] = "checked" => treeLock = r /\ Walked(job[r], parent)

LEMMA TreeNext ==
    ASSUME ShopTables', Forest(parent'), active' \subseteq Existing(parent'), Filed(filed', parent'),
           \A r \in Requests :
             /\ pc'[r] \in {"idle", "asked", "checked", "ordering"}
             /\ pc'[r] = "asked" => Grounded(job'[r], parent', filed')
             /\ pc'[r] = "checked" => treeLock' = r /\ Walked(job'[r], parent')
    PROVE  TreeRight'
<1>1. Forest(parent)' /\ Filed(filed, parent)' /\ Existing(parent)' = Existing(parent')
  BY DEF Forest, Filed, Existing, Acyclic
<1>2. \A r \in Requests : pc'[r] = "asked" => Grounded(job[r], parent, filed)'
  BY DEF Grounded, Existing
<1>3. \A r \in Requests : pc'[r] = "checked" => Walked(job[r], parent)'
  BY DEF Walked, MayHang, Existing, Acyclic
<1> QED BY <1>1, <1>2, <1>3 DEF TreeRight

\* Only request r moves.
Alone(r) ==
    /\ ShopTables'
    /\ \A q \in Requests \ {r} : pc'[q] = pc[q] /\ job'[q] = job[q] /\ seen'[q] = seen[q]

LEMMA StartsAlone ==
    ASSUME ShopTables, NEW r \in Requests, NEW p, NEW j, NEW at, NEW s, Starts(r, p, j, at, s)
    PROVE  Alone(r) /\ pc[r] = "idle" /\ pc'[r] = at /\ job'[r] = j /\ seen'[r] = s
BY DEF ShopTables, Starts, Alone

LEMMA GoesOnAlone ==
    ASSUME ShopTables, NEW r \in Requests, NEW at, NEW s, GoesOn(r, at, s)
    PROVE  Alone(r) /\ pc'[r] = at /\ job'[r] = job[r] /\ seen'[r] = s
BY DEF ShopTables, GoesOn, Alone

LEMMA AnsweredAlone ==
    ASSUME ShopTables, NEW r \in Requests, Answered(r)
    PROVE  Alone(r) /\ pc'[r] = "idle"
BY DEF ShopTables, Answered, Alone

\* Rows come, and stay.
Grows ==
    /\ Existing(parent) \subseteq Existing(parent')
    /\ \A p \in Goods : filed[p] # Nothing => filed'[p] # Nothing

LEMMA OthersStayGrounded ==
    ASSUME Grows, NEW j, Grounded(j, parent, filed)
    PROVE  Grounded(j, parent', filed')
<1>1. CASE j \in ProductJobs
  <2>1. j.product \in Goods
    BY <1>1 DEF ProductJobs
  <2> QED BY <1>1, <2>1 DEF Grounded, Grows
<1>2. CASE j \notin ProductJobs
  BY <1>2 DEF Grounded, Grows
<1> QED BY <1>1, <1>2

\* A step of one request that writes no category.
LEMMA TreeFrame ==
    ASSUME TreeRight, NEW r \in Requests, Alone(r), parent' = parent,
           active' \subseteq Existing(parent), Filed(filed', parent),
           \A p \in Goods : filed[p] # Nothing => filed'[p] # Nothing,
           treeLock' = treeLock \/ treeLock = Nothing,
           pc'[r] \in {"idle", "asked", "checked", "ordering"},
           pc'[r] = "asked" => Grounded(job'[r], parent, filed'),
           pc'[r] = "checked" => treeLock' = r /\ Walked(job'[r], parent)
    PROVE  TreeRight'
<1>1. Grows
  BY DEF Grows
<1>2. ShopTables' /\ \A q \in Requests \ {r} : pc'[q] = pc[q] /\ job'[q] = job[q]
  BY DEF Alone
<1>3. ASSUME NEW q \in Requests
      PROVE  /\ pc'[q] \in {"idle", "asked", "checked", "ordering"}
             /\ pc'[q] = "asked" => Grounded(job'[q], parent', filed')
             /\ pc'[q] = "checked" => treeLock' = q /\ Walked(job'[q], parent')
  <2>1. CASE q = r
    BY <2>1
  <2>2. CASE q # r
    <3>1. /\ pc'[q] = pc[q] /\ job'[q] = job[q] /\ pc[q] \in {"idle", "asked", "checked", "ordering"}
          /\ pc[q] = "asked" => Grounded(job[q], parent, filed)
          /\ pc[q] = "checked" => treeLock = q /\ Walked(job[q], parent)
      BY <1>2, <2>2 DEF TreeRight
    <3>2. pc[q] = "asked" => Grounded(job[q], parent', filed')
      BY <1>1, <3>1, OthersStayGrounded
    <3>3. pc[q] = "checked" => treeLock' = q
      BY <3>1, RequestConstants
    <3> QED BY <3>1, <3>2, <3>3
  <2> QED BY <2>1, <2>2
<1> QED BY <1>2, <1>3, TreeNext DEF TreeRight

LEMMA AddCategoryKeeps ==
    ASSUME TreeRight, NEW r \in Requests, AddCategory(r)
    PROVE  TreeRight'
<1>1. /\ pc[r] = "asked" /\ job[r].op = "addCategory" /\ Answered(r)
      /\ UNCHANGED <<treeLock, filed>>
  BY DEF AddCategory
<1>2. Alone(r) /\ pc'[r] = "idle"
  BY <1>1, AnsweredAlone DEF TreeRight
<1> DEFINE c == job[r].category
           under == job[r].under
<1>3. c \in Categories /\ under \in Existing(parent) \cup {NoParent}
  <2>1. Grounded(job[r], parent, filed)
    BY <1>1 DEF TreeRight
  <2>2. job[r] \notin ProductJobs
    BY <1>1 DEF ProductJobs
  <2> QED BY <1>1, <2>1, <2>2 DEF Grounded, CategoryJobs
<1>4. CASE parent[c] # Nothing
  <2>1. UNCHANGED <<parent, active>>
    BY <1>4 DEF AddCategory
  <2> QED BY <1>1, <1>2, <2>1, TreeFrame DEF TreeRight
<1>5. CASE parent[c] = Nothing
  <2>1. Hung(parent', parent, c, under) /\ active' = active \cup {c}
    BY <1>5 DEF AddCategory, Hung
  <2>2. /\ Forest(parent') /\ Existing(parent') = Existing(parent) \cup {c}
        /\ \A d, u : MayHang(d, u, parent) => MayHang(d, u, parent')
    <3>1. Forest(parent) /\ c \in Categories /\ under \in Existing(parent) \cup {NoParent}
      BY <1>3 DEF TreeRight
    <3> HIDE DEF c, under
    <3> QED BY <1>5, <2>1, <3>1, NewLeaf
  <2>3. Grows /\ active' \subseteq Existing(parent') /\ Filed(filed', parent')
    BY <1>1, <2>1, <2>2 DEF Grows, TreeRight, Filed
  <2>4. ASSUME NEW q \in Requests
        PROVE  /\ pc'[q] \in {"idle", "asked", "checked", "ordering"}
               /\ pc'[q] = "asked" => Grounded(job'[q], parent', filed')
               /\ pc'[q] = "checked" => treeLock' = q /\ Walked(job'[q], parent')
    <3>1. CASE q = r
      BY <1>2, <3>1
    <3>2. CASE q # r
      <4>1. /\ pc'[q] = pc[q] /\ job'[q] = job[q]
            /\ pc[q] \in {"idle", "asked", "checked", "ordering"}
            /\ pc[q] = "asked" => Grounded(job[q], parent, filed)
            /\ pc[q] = "checked" => treeLock = q /\ Walked(job[q], parent)
        BY <1>2, <3>2 DEF TreeRight, Alone
      <4>2. pc[q] = "asked" => Grounded(job[q], parent', filed')
        BY <2>3, <4>1, OthersStayGrounded
      <4>3. pc[q] = "checked" => Walked(job[q], parent')
        <5>1. ASSUME Walked(job[q], parent)
              PROVE  job[q].category \in Existing(parent')
          BY <2>2, <5>1 DEF Walked, Existing, CategoryJobs
        <5> QED BY <2>2, <4>1, <5>1 DEF Walked, Existing
      <4> QED BY <1>1, <4>1, <4>2, <4>3
    <3> QED BY <3>1, <3>2
  <2> QED BY <1>2, <2>2, <2>3, <2>4, TreeNext DEF Alone
<1> QED BY <1>4, <1>5

LEMMA MarkedExist ==
    ASSUME TreeRight, NEW j, j.category \in Categories
    PROVE  Marked(j) \subseteq Existing(parent)
BY DEF TreeRight, Marked, Existing

LEMMA CheckTreeKeeps ==
    ASSUME TreeRight, NEW r \in Requests, CheckTree(r)
    PROVE  TreeRight'
<1>1. /\ pc[r] = "asked" /\ job[r].op = "moveCategory" /\ treeLock = Nothing
      /\ UNCHANGED <<parent, active, filed>>
  BY DEF CheckTree
<1>2. CASE /\ parent[job[r].category] # Nothing
           /\ MayHang(job[r].category, job[r].under, parent)
  <2>1. GoesOn(r, "checked", Nothing) /\ treeLock' = r
    BY <1>2 DEF CheckTree
  <2>2. Alone(r) /\ pc'[r] = "checked" /\ job'[r] = job[r]
    BY <2>1, GoesOnAlone DEF TreeRight
  <2>3. job[r] \in CategoryJobs
    BY <1>1 DEF TreeRight, Grounded, ProductJobs
  <2>4. Walked(job'[r], parent)
    BY <1>1, <1>2, <2>2, <2>3 DEF Walked
  <2> QED BY <1>1, <2>1, <2>2, <2>4, TreeFrame DEF TreeRight
<1>3. CASE ~(/\ parent[job[r].category] # Nothing
             /\ MayHang(job[r].category, job[r].under, parent))
  <2>1. Answered(r) /\ treeLock' = treeLock
    BY <1>3 DEF CheckTree
  <2>2. Alone(r) /\ pc'[r] = "idle"
    BY <2>1, AnsweredAlone DEF TreeRight
  <2> QED BY <1>1, <2>1, <2>2, TreeFrame DEF TreeRight
<1> QED BY <1>2, <1>3

LEMMA MoveCategoryKeeps ==
    ASSUME TreeRight, NEW r \in Requests, MoveCategory(r)
    PROVE  TreeRight'
<1> DEFINE c == job[r].category
           under == job[r].under
<1>1. /\ pc[r] = "checked" /\ treeLock = r /\ Walked(job[r], parent) /\ Answered(r)
      /\ Hung(parent', parent, c, under) /\ active' = Marked(job[r]) /\ filed' = filed
  BY DEF MoveCategory, TreeRight, Hung
<1>2. Alone(r) /\ pc'[r] = "idle"
  BY <1>1, AnsweredAlone DEF TreeRight
<1>3. c \in Existing(parent) /\ MayHang(c, under, parent)
  BY <1>1 DEF Walked, Existing, CategoryJobs
<1>4. Forest(parent') /\ Existing(parent') = Existing(parent)
  BY <1>1, <1>3, MovedBranch DEF TreeRight
<1>5. active' \subseteq Existing(parent')
  BY <1>1, <1>3, <1>4, MarkedExist DEF Existing
<1>6. Filed(filed', parent') /\ Grows
  BY <1>1, <1>4 DEF TreeRight, Filed, Grows
<1>7. ASSUME NEW q \in Requests
      PROVE  /\ pc'[q] \in {"idle", "asked", "ordering"}
             /\ pc'[q] = "asked" => Grounded(job'[q], parent', filed')
  <2>1. CASE q = r
    BY <1>2, <2>1
  <2>2. CASE q # r
    <3>1. /\ pc'[q] = pc[q] /\ job'[q] = job[q] /\ pc[q] \in {"idle", "asked", "ordering"}
          /\ pc[q] = "asked" => Grounded(job[q], parent, filed)
      BY <1>1, <1>2, <2>2 DEF TreeRight, Alone
    <3> QED BY <1>6, <3>1, OthersStayGrounded
  <2> QED BY <2>1, <2>2
<1> QED BY <1>2, <1>4, <1>5, <1>6, <1>7, TreeNext DEF Alone

LEMMA SetActiveKeeps ==
    ASSUME TreeRight, NEW r \in Requests, SetActive(r)
    PROVE  TreeRight'
<1>1. /\ pc[r] = "asked" /\ job[r].op \in {"deactivate", "setActive"} /\ Answered(r)
      /\ active' = Marked(job[r]) /\ UNCHANGED <<parent, treeLock, filed>>
  BY DEF SetActive
<1>2. Alone(r) /\ pc'[r] = "idle"
  BY <1>1, AnsweredAlone DEF TreeRight
<1>3. job[r].category \in Categories
  BY <1>1 DEF TreeRight, Grounded, ProductJobs, CategoryJobs
<1> QED BY <1>1, <1>2, <1>3, MarkedExist, TreeFrame DEF TreeRight

LEMMA WriteProductKeeps ==
    ASSUME TreeRight, NEW r \in Requests, WriteProduct(r)
    PROVE  TreeRight'
<1> DEFINE j == job[r]
           row == filed[j.product]
           Sent(told, now) == IF told # Nothing THEN told ELSE now
           new == [category |-> Sent(j.category, row.category), active |-> Sent(j.active, row.active)]
<1>1. /\ pc[r] = "asked" /\ j.op \in {"addProduct", "updateProduct"} /\ Answered(r)
      /\ filed' = IF j.op = "addProduct" /\ row # Nothing THEN filed
                  ELSE [filed EXCEPT ![j.product] = new]
      /\ UNCHANGED <<parent, active, treeLock>>
  BY DEF WriteProduct
<1>2. Alone(r) /\ pc'[r] = "idle"
  BY <1>1, AnsweredAlone DEF TreeRight
<1>3. /\ j \in ProductJobs
      /\ j.category # Nothing => j.category \in Existing(parent)
      /\ j.op = "updateProduct" => row # Nothing
  BY <1>1 DEF TreeRight, Grounded, CategoryJobs
<1>4. /\ j.product \in Goods
      /\ j.op = "addProduct" => j.category \in Categories /\ j.active = TRUE
      /\ j.op = "updateProduct" => /\ j.category \in Categories \cup {Nothing}
                                   /\ j.active \in BOOLEAN \cup {Nothing}
  BY <1>1, <1>3 DEF ProductJobs
<1>5. /\ row # Nothing => row \in Filings /\ row.category \in Existing(parent)
      /\ filed \in [Goods -> Filings \cup {Nothing}]
  BY <1>4 DEF TreeRight, Filed
<1>6. ~(j.op = "addProduct" /\ row # Nothing) => new \in Filings /\ new.category \in Existing(parent)
  <2>1. CASE j.op = "addProduct"
    BY <1>3, <1>4, <2>1, CatalogueConstants DEF Filings
  <2>2. CASE j.op = "updateProduct"
    BY <1>3, <1>4, <1>5, <2>2 DEF Filings
  <2> QED BY <1>1, <2>1, <2>2
<1> HIDE DEF new
<1>7. Filed(filed', parent) /\ \A p \in Goods : filed[p] # Nothing => filed'[p] # Nothing
  BY <1>1, <1>4, <1>5, <1>6, CatalogueConstants DEF TreeRight, Filed
<1> QED BY <1>1, <1>2, <1>7, TreeFrame DEF TreeRight

\* Steps that only read the tree, or are about the gallery.
LEMMA TreeStays ==
    ASSUME TreeRight, NEW r \in Requests, Alone(r), UNCHANGED catalogueRows,
           pc'[r] \in {"idle", "asked", "ordering"},
           pc'[r] = "asked" => Grounded(job'[r], parent, filed)
    PROVE  TreeRight'
<1>1. parent' = parent /\ active' = active /\ treeLock' = treeLock /\ filed' = filed
  BY DEF catalogueRows
<1> QED BY <1>1, TreeFrame DEF TreeRight

LEMMA TreeStep == TreeRight /\ [CatalogueNext]_catalogueVars => TreeRight'
<1> SUFFICES ASSUME TreeRight, [CatalogueNext]_catalogueVars
             PROVE  TreeRight'
  OBVIOUS
<1>0. ShopTables
  BY DEF TreeRight
<1>1. ASSUME NEW r \in Requests, AskCategory(r)
      PROVE  TreeRight'
  <2>1. PICK j \in CategoryJobs :
          /\ j.op = "addCategory" => j.under \in Existing(parent) \cup {NoParent}
          /\ Starts(r, Nothing, j, "asked", Nothing)
    BY <1>1 DEF AskCategory
  <2>2. Alone(r) /\ pc'[r] = "asked" /\ job'[r] = j
    BY <1>0, <2>1, StartsAlone
  <2>3. Grounded(j, parent, filed)
    BY <2>1 DEF Grounded
  <2> QED BY <1>1, <2>2, <2>3, TreeStays DEF AskCategory
<1>2. ASSUME NEW r \in Requests, AskProduct(r)
      PROVE  TreeRight'
  <2>1. PICK j \in ProductJobs :
          /\ j.category # Nothing => j.category \in Existing(parent)
          /\ j.op = "updateProduct" => filed[j.product] # Nothing
          /\ Starts(r, Nothing, j, "asked", Nothing)
    BY <1>2 DEF AskProduct
  <2>2. Alone(r) /\ pc'[r] = "asked" /\ job'[r] = j
    BY <1>0, <2>1, StartsAlone
  <2>3. Grounded(j, parent, filed)
    BY <2>1 DEF Grounded
  <2> QED BY <1>2, <2>2, <2>3, TreeStays DEF AskProduct
<1>3. ASSUME NEW r \in Requests, AskImage(r) \/ AskRemoval(r) \/ AskOrder(r)
      PROVE  TreeRight'
  <2>1. /\ \E j, at, s : /\ Starts(r, Nothing, j, at, s) /\ at \in {"asked", "ordering"}
                         /\ at = "asked" => j.op \in {"addImage", "removeImage"}
        /\ UNCHANGED catalogueRows
    <3>1. CASE AskImage(r)
      <4>1. PICK i \in Images :
              Starts(r, Nothing, [op |-> "addImage", image |-> i], "asked",
                     [count |-> Cardinality(Shown)])
        BY <3>1 DEF AskImage
      <4> DEFINE j == [op |-> "addImage", image |-> i]
      <4>2. Starts(r, Nothing, j, "asked", [count |-> Cardinality(Shown)]) /\ j.op = "addImage"
        BY <4>1
      <4> HIDE DEF j
      <4> QED BY <3>1, <4>2 DEF AskImage
    <3>2. CASE AskRemoval(r)
      <4>1. PICK i \in Shown :
              Starts(r, Nothing, [op |-> "removeImage", image |-> i], "asked", Nothing)
        BY <3>2 DEF AskRemoval
      <4> DEFINE j == [op |-> "removeImage", image |-> i]
      <4>2. Starts(r, Nothing, j, "asked", Nothing) /\ j.op = "removeImage"
        BY <4>1
      <4> HIDE DEF j
      <4> QED BY <3>2, <4>2 DEF AskRemoval
    <3>3. CASE AskOrder(r)
      BY <3>3 DEF AskOrder
    <3> QED BY <1>3, <3>1, <3>2, <3>3
  <2>2. /\ Alone(r) /\ pc'[r] \in {"asked", "ordering"}
        /\ pc'[r] = "asked" => job'[r].op \in {"addImage", "removeImage"}
    BY <1>0, <2>1, StartsAlone
  <2> QED BY <2>1, <2>2, TreeStays DEF Grounded
<1>4. ASSUME NEW r \in Requests, Answered(r), UNCHANGED catalogueRows
      PROVE  TreeRight'
  BY <1>0, <1>4, AnsweredAlone, TreeStays
<1>5. ASSUME NEW r \in Requests, AddImage(r) \/ RemoveImage(r) \/ BreakDeadlock(r) \/ CommitOrder(r)
      PROVE  TreeRight'
  BY <1>4, <1>5 DEF AddImage, RemoveImage, BreakDeadlock, CommitOrder
<1>6. ASSUME NEW r \in Requests, SetKey(r)
      PROVE  TreeRight'
  <2>1. UNCHANGED catalogueRows /\ (Answered(r) \/ \E s : GoesOn(r, "ordering", s))
    BY <1>6 DEF SetKey
  <2>2. ASSUME NEW s, GoesOn(r, "ordering", s)
        PROVE  TreeRight'
    BY <1>0, <2>1, <2>2, GoesOnAlone, TreeStays
  <2> QED BY <1>4, <2>1, <2>2
<1>7. CASE UNCHANGED catalogueVars
  <2>1. /\ pc' = pc /\ job' = job /\ seen' = seen /\ parent' = parent /\ active' = active
        /\ treeLock' = treeLock /\ filed' = filed
    BY <1>7 DEF catalogueVars, request
  <2> QED BY <2>1, TreeNext DEF TreeRight, ShopTables
<1> QED BY <1>1, <1>2, <1>3, <1>5, <1>6, <1>7, AddCategoryKeeps, CheckTreeKeeps,
           MoveCategoryKeeps, SetActiveKeeps, WriteProductKeeps DEF CatalogueNext

LEMMA TreeInit == CatalogueInit => TreeRight
BY CatalogueConstants DEF CatalogueInit, RequestsInit, TreeRight, ShopTables, Forest, Filed

\* Whatever moves of categories run at once, the tree stays a tree: the check
\* for cycles and the write after it happen under one lock (service.ts
\* updateCategory, lockCategoryTree).
THEOREM TreeStaysATree == CatalogueSpec => []TreeHasNoCycle
<1>1. TreeRight => TreeHasNoCycle
  BY DEF TreeRight, Forest, TreeHasNoCycle
<1> QED BY <1>1, TreeInit, TreeStep, PTL DEF CatalogueSpec

-----------------------------------------------------------------------------
(* The gallery *)

\* An order that is being written: so many of its rows are done.
Reordering(s) ==
    /\ s \in [done : Nat, order : Seq(Images)]
    /\ s.done <= Len(s.order) /\ Len(s.order) <= Cardinality(Images)

Holds(r, s, locks) == \A n \in 1..s.done : locks[s.order[n]] = r

GalleryRight ==
    /\ ShopTables
    /\ sortKey \in Galleries
    /\ imageLock \in [Images -> Requests \cup {Nothing}]
    /\ DOMAIN lastOrder = Images
    /\ GalleryIsSomeonesOrder
    /\ \A r \in Requests :
         /\ pc[r] = "asked" /\ job[r].op = "addImage" => seen[r].count \in 0..Cardinality(Images)
         /\ Ordering(r) => Reordering(seen[r]) /\ Holds(r, seen[r], imageLock)

\* A step of one request that takes nobody else's lock.
LEMMA GalleryFrame ==
    ASSUME GalleryRight, NEW r \in Requests, Alone(r),
           sortKey' \in Galleries,
           imageLock' \in [Images -> Requests \cup {Nothing}],
           \A i \in Images : imageLock[i] \notin {Nothing, r} => imageLock'[i] = imageLock[i],
           DOMAIN lastOrder' = Images,
           \A i \in Images : lastOrder'[i] # Nothing => sortKey'[i] = lastOrder'[i],
           pc'[r] = "asked" /\ job'[r].op = "addImage" => seen'[r].count \in 0..Cardinality(Images),
           pc'[r] = "ordering" => Reordering(seen'[r]) /\ Holds(r, seen'[r], imageLock')
    PROVE  GalleryRight'
<1>1. ASSUME NEW q \in Requests
      PROVE  /\ pc'[q] = "asked" /\ job'[q].op = "addImage" => seen'[q].count \in 0..Cardinality(Images)
             /\ pc'[q] = "ordering" => Reordering(seen'[q]) /\ Holds(q, seen'[q], imageLock')
  <2>1. CASE q = r
    BY <2>1
  <2>2. CASE q # r
    <3>1. /\ pc'[q] = pc[q] /\ job'[q] = job[q] /\ seen'[q] = seen[q]
          /\ pc[q] = "asked" /\ job[q].op = "addImage" => seen[q].count \in 0..Cardinality(Images)
          /\ pc[q] = "ordering" => Reordering(seen[q]) /\ Holds(q, seen[q], imageLock)
      BY <2>2 DEF Alone, GalleryRight, Ordering
    <3>2. ASSUME Reordering(seen[q]), Holds(q, seen[q], imageLock)
          PROVE  Holds(q, seen[q], imageLock')
      <4>1. ASSUME NEW n \in 1..seen[q].done
            PROVE  imageLock'[seen[q].order[n]] = q
        <5>1. n \in 1..Len(seen[q].order) /\ seen[q].order \in Seq(Images)
          BY <3>2, <4>1, LenProperties DEF Reordering
        <5>2. seen[q].order[n] \in Images
          BY <5>1, ElementOfSeq
        <5>3. imageLock[seen[q].order[n]] = q
          BY <3>2, <4>1 DEF Holds
        <5> QED BY <2>2, <5>2, <5>3, RequestConstants
      <4> QED BY <4>1 DEF Holds
    <3> QED BY <3>1, <3>2
  <2> QED BY <2>1, <2>2
<1>2. \A q \in Requests : Ordering(q)' => Reordering(seen[q])' /\ Holds(q, seen[q], imageLock)'
  BY <1>1 DEF Ordering, Reordering, Holds
<1> QED BY <1>1, <1>2 DEF GalleryRight, GalleryIsSomeonesOrder, Alone

\* A step of one request that touches no picture.
LEMMA GalleryStays ==
    ASSUME GalleryRight, NEW r \in Requests, Alone(r), UNCHANGED galleryRows,
           pc'[r] \in {"idle", "asked", "checked"},
           pc'[r] = "asked" => job'[r].op # "addImage"
    PROVE  GalleryRight'
<1>1. sortKey' = sortKey /\ imageLock' = imageLock /\ lastOrder' = lastOrder
  BY DEF galleryRows
<1> QED BY <1>1, GalleryFrame DEF GalleryRight, GalleryIsSomeonesOrder

LEMMA ShownCount == Cardinality(Shown) \in 0..Cardinality(Images)
<1>1. Shown \in SUBSET Images
  BY DEF Shown
<1> QED BY <1>1, CatalogueConstants, FS_Subset, FS_CardinalityType

\* Two neighbours of the list change places.
LEMMA Swapped ==
    ASSUME NEW k \in Nat, NEW S, NEW list \in [1..k -> S], NEW n \in 1..(k - 1)
    PROVE  LET order == [list EXCEPT ![n] = list[n + 1], ![n + 1] = list[n]]
           IN order \in Seq(S) /\ Len(order) = k
<1> DEFINE order == [list EXCEPT ![n] = list[n + 1], ![n + 1] = list[n]]
<1>1. order \in [1..k -> S]
  OBVIOUS
<1> HIDE DEF order
<1>2. order \in Seq(S) /\ DOMAIN order = 1..k
  BY <1>1, SeqDef
<1>3. Len(order) = k
  BY <1>2, LenProperties
<1> QED BY <1>2, <1>3 DEF order

LEMMA Released ==
    ASSUME GalleryRight, NEW r \in Requests, ReleaseImages(r)
    PROVE  /\ imageLock' \in [Images -> Requests \cup {Nothing}]
           /\ \A i \in Images : imageLock[i] # r => imageLock'[i] = imageLock[i]
BY DEF GalleryRight, ReleaseImages

LEMMA SetKeyKeeps ==
    ASSUME GalleryRight, NEW r \in Requests, SetKey(r)
    PROVE  GalleryRight'
<1> DEFINE s == seen[r]
           next == [s EXCEPT !.done = s.done + 1]
           i == s.order[s.done + 1]
<1>1. /\ pc[r] = "ordering" /\ s.done # Len(s.order) /\ imageLock[i] = Nothing
      /\ Reordering(s) /\ Holds(r, s, imageLock) /\ sortKey' = sortKey /\ lastOrder' = lastOrder
  BY DEF SetKey, Ordering, AllSet, NextImage, GalleryRight
<1>2. CASE sortKey[i] # Nothing
  <2>1. GoesOn(r, "ordering", next) /\ imageLock' = [imageLock EXCEPT ![i] = r]
    BY <1>2 DEF SetKey, NextImage
  <2>2. Alone(r) /\ pc'[r] = "ordering" /\ seen'[r] = next
    BY <2>1, GoesOnAlone DEF GalleryRight
  <2>3. /\ s \in [done : Nat, order : Seq(Images)] /\ Len(s.order) \in Nat
        /\ s.done + 1 \in 1..Len(s.order)
    BY <1>1, LenProperties DEF Reordering
  <2>4. i \in Images
    BY <2>3, ElementOfSeq
  <2>5. /\ next \in [done : Nat, order : Seq(Images)]
        /\ next.done = s.done + 1 /\ next.order = s.order
    BY <2>3
  <2>6. Reordering(next)
    BY <1>1, <2>3, <2>5 DEF Reordering
  <2>7. /\ imageLock' \in [Images -> Requests \cup {Nothing}] /\ imageLock'[i] = r
        /\ \A k \in Images : imageLock[k] # Nothing => imageLock'[k] = imageLock[k]
    BY <1>1, <2>1, <2>4 DEF GalleryRight
  <2>8. ASSUME NEW n \in 1..next.done
        PROVE  imageLock'[next.order[n]] = r
    <3>1. n \in 1..Len(s.order) /\ s.order[n] \in Images
      BY <2>3, <2>5, <2>8, ElementOfSeq
    <3>2. CASE n = s.done + 1
      BY <2>5, <2>7, <3>2
    <3>3. CASE n # s.done + 1
      <4>1. n \in 1..s.done
        BY <2>3, <2>5, <2>8, <3>3
      <4>2. imageLock[s.order[n]] = r
        BY <1>1, <4>1 DEF Holds
      <4> QED BY <2>5, <2>7, <3>1, <4>2, RequestConstants
    <3> QED BY <3>2, <3>3
  <2> HIDE DEF s, next
  <2>9. Holds(r, next, imageLock')
    BY <2>8 DEF Holds
  <2> QED BY <1>1, <2>2, <2>6, <2>7, <2>9, GalleryFrame DEF GalleryRight, GalleryIsSomeonesOrder
<1>3. CASE sortKey[i] = Nothing
  <2>1. Answered(r) /\ ReleaseImages(r)
    BY <1>3 DEF SetKey, NextImage
  <2>2. Alone(r) /\ pc'[r] = "idle"
    BY <2>1, AnsweredAlone DEF GalleryRight
  <2> QED BY <1>1, <2>1, <2>2, Released, GalleryFrame DEF GalleryRight, GalleryIsSomeonesOrder
<1> QED BY <1>2, <1>3

LEMMA CommitOrderKeeps ==
    ASSUME GalleryRight, NEW r \in Requests, CommitOrder(r)
    PROVE  GalleryRight'
<1> DEFINE order == seen[r].order
<1>1. /\ order \in Seq(Images) /\ Len(order) \in Nat /\ Len(order) <= Cardinality(Images)
      /\ Answered(r) /\ ReleaseImages(r)
  BY LenProperties DEF CommitOrder, GalleryRight, Reordering
<1>2. Alone(r) /\ pc'[r] = "idle"
  BY <1>1, AnsweredAlone DEF GalleryRight
<1>3. /\ DOMAIN sortKey' = Images /\ DOMAIN lastOrder' = Images
      /\ \A i \in Images : i \in Ordered(order) =>
           sortKey'[i] = KeyIn(order, i) /\ lastOrder'[i] = KeyIn(order, i)
      /\ \A i \in Images : i \notin Ordered(order) =>
           sortKey'[i] = sortKey[i] /\ lastOrder'[i] = Nothing
  BY DEF CommitOrder
<1>4. ASSUME NEW i \in Images, i \in Ordered(order)
      PROVE  KeyIn(order, i) \in 0..Cardinality(Images)
  <2>1. \E n \in 1..Len(order) : order[n] = i
    BY <1>4 DEF Ordered
  <2> DEFINE n == CHOOSE n \in 1..Len(order) : order[n] = i
  <2>2. n \in 1..Len(order)
    BY <2>1
  <2>3. KeyIn(order, i) = n - 1
    BY DEF KeyIn
  <2> HIDE DEF n
  <2> QED BY <1>1, <2>2, <2>3, CatalogueConstants, FS_CardinalityType
<1>5. sortKey' = [i \in Images |-> sortKey'[i]]
  BY DEF CommitOrder
<1>6. \A i \in Images : sortKey'[i] \in (0..Cardinality(Images)) \cup {Nothing}
  BY <1>3, <1>4 DEF GalleryRight, Galleries
<1>7. sortKey' \in Galleries
  BY <1>5, <1>6 DEF Galleries
<1> HIDE DEF order
<1>8. \A i \in Images : lastOrder'[i] # Nothing => sortKey'[i] = lastOrder'[i]
  BY <1>3
<1> QED BY <1>1, <1>2, <1>3, <1>7, <1>8, Released, GalleryFrame

LEMMA GalleryStep == TreeRight /\ GalleryRight /\ [CatalogueNext]_catalogueVars => GalleryRight'
<1> SUFFICES ASSUME TreeRight, GalleryRight, [CatalogueNext]_catalogueVars
             PROVE  GalleryRight'
  OBVIOUS
<1>0. ShopTables
  BY DEF GalleryRight
<1>1. ASSUME NEW r \in Requests, AskCategory(r) \/ AskProduct(r)
      PROVE  GalleryRight'
  <2>1. PICK j \in CategoryJobs \cup ProductJobs : Starts(r, Nothing, j, "asked", Nothing)
    BY <1>1 DEF AskCategory, AskProduct
  <2>2. Alone(r) /\ pc'[r] = "asked" /\ job'[r] = j
    BY <1>0, <2>1, StartsAlone
  <2>3. j.op # "addImage"
    BY DEF CategoryJobs, ProductJobs
  <2> QED BY <1>1, <2>2, <2>3, GalleryStays DEF AskCategory, AskProduct
<1>2. ASSUME NEW r \in Requests, Answered(r), UNCHANGED galleryRows
      PROVE  GalleryRight'
  <2>1. Alone(r) /\ pc'[r] = "idle"
    BY <1>0, <1>2, AnsweredAlone
  <2> QED BY <1>2, <2>1, GalleryStays
<1>3. ASSUME NEW r \in Requests, CheckTree(r)
      PROVE  GalleryRight'
  <2>1. UNCHANGED galleryRows /\ (Answered(r) \/ GoesOn(r, "checked", Nothing))
    BY <1>3 DEF CheckTree
  <2>2. ASSUME GoesOn(r, "checked", Nothing)
        PROVE  GalleryRight'
    <3>1. Alone(r) /\ pc'[r] = "checked"
      BY <1>0, <2>2, GoesOnAlone
    <3> QED BY <2>1, <3>1, GalleryStays
  <2> QED BY <1>2, <2>1, <2>2
<1>4. ASSUME NEW r \in Requests,
             AddCategory(r) \/ MoveCategory(r) \/ SetActive(r) \/ WriteProduct(r)
      PROVE  GalleryRight'
  BY <1>2, <1>4 DEF AddCategory, MoveCategory, SetActive, WriteProduct
<1>5. ASSUME NEW r \in Requests, AskImage(r)
      PROVE  GalleryRight'
  <2>1. PICK i \in Images :
          Starts(r, Nothing, [op |-> "addImage", image |-> i], "asked",
                 [count |-> Cardinality(Shown)])
    BY <1>5 DEF AskImage
  <2>2. /\ Alone(r) /\ pc'[r] = "asked" /\ seen'[r] = [count |-> Cardinality(Shown)]
    BY <1>0, <2>1, StartsAlone
  <2>3. seen'[r].count \in 0..Cardinality(Images)
    BY <2>2, ShownCount
  <2>4. sortKey' = sortKey /\ imageLock' = imageLock /\ lastOrder' = lastOrder
    BY <1>5 DEF AskImage, galleryRows
  <2> QED BY <2>2, <2>3, <2>4, GalleryFrame DEF GalleryRight, GalleryIsSomeonesOrder
<1>6. ASSUME NEW r \in Requests, AddImage(r)
      PROVE  GalleryRight'
  <2> DEFINE i == job[r].image
             n == seen[r].count
  <2>1. /\ n \in 0..Cardinality(Images) /\ sortKey[i] = Nothing /\ Answered(r)
        /\ sortKey' = [sortKey EXCEPT ![i] = n]
        /\ imageLock' = imageLock /\ lastOrder' = lastOrder
    BY <1>6 DEF AddImage, GalleryRight
  <2>2. Alone(r) /\ pc'[r] = "idle"
    BY <1>0, <2>1, AnsweredAlone
  <2>3. sortKey' \in Galleries /\ \A k \in Images : sortKey[k] # Nothing => sortKey'[k] = sortKey[k]
    BY <2>1 DEF GalleryRight, Galleries
  <2>4. \A k \in Images : lastOrder'[k] # Nothing => sortKey'[k] = lastOrder'[k]
    BY <2>1, <2>3 DEF GalleryRight, GalleryIsSomeonesOrder
  <2> QED BY <2>1, <2>2, <2>3, <2>4, GalleryFrame DEF GalleryRight
<1>7. ASSUME NEW r \in Requests, AskRemoval(r)
      PROVE  GalleryRight'
  <2>1. PICK i \in Shown :
          Starts(r, Nothing, [op |-> "removeImage", image |-> i], "asked", Nothing)
    BY <1>7 DEF AskRemoval
  <2>2. Alone(r) /\ pc'[r] = "asked" /\ job'[r] = [op |-> "removeImage", image |-> i]
    BY <1>0, <2>1, StartsAlone
  <2>3. job'[r].op # "addImage" /\ UNCHANGED galleryRows
    BY <1>7, <2>2 DEF AskRemoval
  <2> QED BY <2>2, <2>3, GalleryStays
<1>8. ASSUME NEW r \in Requests, RemoveImage(r)
      PROVE  GalleryRight'
  <2> DEFINE i == job[r].image
  <2>1. /\ sortKey' = [sortKey EXCEPT ![i] = Nothing]
        /\ lastOrder' = [lastOrder EXCEPT ![i] = Nothing]
        /\ imageLock' = imageLock /\ Answered(r)
    BY <1>8 DEF RemoveImage
  <2>2. Alone(r) /\ pc'[r] = "idle"
    BY <1>0, <2>1, AnsweredAlone
  <2>3. /\ sortKey' \in Galleries /\ DOMAIN lastOrder' = Images
        /\ \A k \in Images : lastOrder'[k] # Nothing => sortKey'[k] = lastOrder'[k]
    BY <2>1 DEF GalleryRight, GalleryIsSomeonesOrder, Galleries
  <2> QED BY <2>1, <2>2, <2>3, GalleryFrame DEF GalleryRight
<1>9. ASSUME NEW r \in Requests, AskOrder(r)
      PROVE  GalleryRight'
  <2>1. PICK list \in ListsOf(sortKey), n \in 1..(Cardinality(Shown) - 1) :
          Starts(r, Nothing, [op |-> "order"], "ordering",
                 [done |-> 0,
                  order |-> [list EXCEPT ![n] = list[n + 1], ![n + 1] = list[n]]])
    BY <1>9 DEF AskOrder
  <2> DEFINE order == [list EXCEPT ![n] = list[n + 1], ![n + 1] = list[n]]
  <2>2. list \in [1..Cardinality(Shown) -> Images]
    BY DEF ListsOf, Shown
  <2>3. order \in Seq(Images) /\ Len(order) = Cardinality(Shown)
    BY <2>2, Swapped, ShownCount
  <2>4. Alone(r) /\ pc'[r] = "ordering" /\ seen'[r] = [done |-> 0, order |-> order]
    BY <1>0, <2>1, StartsAlone
  <2> HIDE DEF order
  <2>5. Reordering(seen'[r]) /\ Holds(r, seen'[r], imageLock')
    BY <2>3, <2>4, ShownCount DEF Reordering, Holds
  <2>6. sortKey' = sortKey /\ imageLock' = imageLock /\ lastOrder' = lastOrder
    BY <1>9 DEF AskOrder, galleryRows
  <2> QED BY <2>4, <2>5, <2>6, GalleryFrame DEF GalleryRight, GalleryIsSomeonesOrder
<1>10. ASSUME NEW r \in Requests, BreakDeadlock(r)
       PROVE  GalleryRight'
  <2>1. Answered(r) /\ ReleaseImages(r) /\ sortKey' = sortKey /\ lastOrder' = lastOrder
    BY <1>10 DEF BreakDeadlock
  <2>2. Alone(r) /\ pc'[r] = "idle"
    BY <1>0, <2>1, AnsweredAlone
  <2> QED BY <2>1, <2>2, Released, GalleryFrame DEF GalleryRight, GalleryIsSomeonesOrder
<1>11. CASE UNCHANGED catalogueVars
  <2>1. /\ pc' = pc /\ job' = job /\ seen' = seen /\ sortKey' = sortKey
        /\ imageLock' = imageLock /\ lastOrder' = lastOrder
    BY <1>11 DEF catalogueVars, request
  <2> QED BY <2>1 DEF GalleryRight, ShopTables, GalleryIsSomeonesOrder, Ordering, Reordering, Holds
<1> QED BY <1>1, <1>3, <1>4, <1>5, <1>6, <1>7, <1>8, <1>9, <1>10, <1>11,
           SetKeyKeeps, CommitOrderKeeps DEF CatalogueNext

LEMMA GalleryInit == CatalogueInit => GalleryRight
BY CatalogueConstants, RequestConstants
   DEF CatalogueInit, RequestsInit, GalleryRight, ShopTables, GalleryIsSomeonesOrder, Ordering

\* Categories and products hang under rows that exist, and the gallery stands
\* in the order of one reordering: each takes its rows' locks and writes them
\* all or none (service.ts reorderProductImages, repo.ts setImageSortKey).
THEOREM CatalogueHolds == CatalogueSpec => []CatalogueInv
<1>1. TreeRight /\ GalleryRight => CatalogueInv
  BY DEF TreeRight, GalleryRight, CatalogueInv, Forest, Filed, TreeRequest, Walked,
         GalleryRequest, Ordering, Reordering, Holds
<1> QED BY <1>1, TreeInit, GalleryInit, TreeStep, GalleryStep, PTL DEF CatalogueSpec

-----------------------------------------------------------------------------
(* The map: which shop an address belongs to *)

LEMMA OnlyOne ==
    ASSUME NEW S \in SUBSET AreaIds, Only(S), NEW a \in S, NEW b \in S
    PROVE  a = b
<1>1. PICK x : S = {x}
  BY MapConstants, FS_Singleton, FS_Subset DEF Only
<1> QED BY <1>1

\* An answer by name is one area, or several of one shop.
LEMMA NamesRouteToOneShop ==
    ASSUME NEW q, NEW a \in ByName(q), NEW b \in ByName(q)
    PROVE  ShopOf(a) = ShopOf(b)
<1> DEFINE pinned == WithPincode(q.pincode)
           pool == IF q.pincode # Nothing /\ pinned # {} THEN pinned ELSE Open
           exact == {c \in pool : area[c].name = q.name}
           hinted == {c \in pool : q.name \in area[c].hints}
           prefixed == {c \in pool : {<<q.name, area[c].name>>, <<area[c].name, q.name>>} \cap Begins # {}}
           all == exact \cup hinted \cup prefixed
<1>1. exact \in SUBSET AreaIds /\ hinted \in SUBSET AreaIds /\ prefixed \in SUBSET AreaIds
  BY DEF WithPincode, Open, AreasThere
<1>2. ByName(q) = CASE Only(exact) -> exact
                    [] ~Only(exact) /\ Only(hinted) -> hinted
                    [] ~Only(exact) /\ ~Only(hinted) /\ Only(prefixed) -> prefixed
                    [] OTHER -> IF OfOneShop(all) THEN all ELSE {}
  BY DEF ByName
<1> HIDE DEF exact, hinted, prefixed, all
<1>3. \/ Only(exact) /\ ByName(q) = exact
      \/ Only(hinted) /\ ByName(q) = hinted
      \/ Only(prefixed) /\ ByName(q) = prefixed
      \/ OfOneShop(all) /\ ByName(q) = all
  BY <1>2
<1>4. CASE OfOneShop(all) /\ ByName(q) = all
  BY <1>4 DEF OfOneShop
<1> QED BY <1>1, <1>3, <1>4, OnlyOne

LEMMA PincodesRouteToOneShop ==
    ASSUME NEW q, NEW a \in ByPincode(q), NEW b \in ByPincode(q)
    PROVE  ShopOf(a) = ShopOf(b)
BY DEF ByPincode, OfOneShop

LEMMA RoutesAgree == RoutesToOneShop
<1> SUFFICES ASSUME NEW q \in Questions, NEW a \in Routes(q), NEW b \in Routes(q)
             PROVE  ShopOf(a) = ShopOf(b)
  BY DEF RoutesToOneShop
<1>1. CASE a \in {q.area} /\ b \in {q.area}
  BY <1>1
<1>2. CASE a \in ByName(q) /\ b \in ByName(q)
  BY <1>2, NamesRouteToOneShop
<1>3. CASE a \in ByPincode(q) /\ b \in ByPincode(q)
  BY <1>3, PincodesRouteToOneShop, Zenon
<1> QED BY <1>1, <1>2, <1>3 DEF Routes

LEMMA RoutesAreOpen ==
    ASSUME NEW q, NEW a \in Routes(q)
    PROVE  a \in AreasThere
BY DEF Routes, ByName, ByPincode, WithPincode, Open

\* Rows come and are switched, and none moves.
MapStays ==
    /\ \A s \in Stores : shop[s] # Nothing => shop'[s] # Nothing
    /\ \A z \in ZonesThere : zoneOf'[z] # Nothing /\ zoneOf'[z].store = zoneOf[z].store
    /\ \A a \in AreasThere : area'[a] # Nothing /\ area'[a].zone = area[a].zone

MapRows ==
    /\ shop \in [Stores -> Shops \cup {Nothing}]
    /\ zoneOf \in [ZoneIds -> ZoneRows \cup {Nothing}]
    /\ area \in [AreaIds -> AreaRows \cup {Nothing}]
    /\ \A z \in ZonesThere : shop[zoneOf[z].store] # Nothing
    /\ \A a \in AreasThere : area[a].zone \in ZonesThere

MapRequest(r) ==
    /\ pc[r] \in {"idle", "asked", "routed"}
    /\ pc[r] = "asked" => job[r] \in MapJobs /\ Grants(caller[r], job[r])
    /\ pc[r] = "routed" => job[r].area \in AreasThere /\ seen[r] = ShopOf(job[r].area)

MapRight ==
    /\ ShopTables /\ DOMAIN caller = Requests
    /\ MapRows
    /\ \A o \in routed : o.area \in AreasThere /\ o.store = ShopOf(o.area)
    /\ \A r \in Requests : MapRequest(r)

\* A grant is kept, as the row it was given for never moves.
LEMMA RequestsRely ==
    ASSUME MapRows, MapStays, NEW r \in Requests, MapRequest(r),
           pc'[r] = pc[r], job'[r] = job[r], seen'[r] = seen[r], caller'[r] = caller[r]
    PROVE  MapRequest(r)'
<1>1. ASSUME NEW a \in AreasThere
      PROVE  a \in AreasThere' /\ area'[a].zone = area[a].zone /\ ShopOf(a)' = ShopOf(a)
  BY DEF MapRows, MapStays, AreasThere, ShopOf
<1>2. ASSUME NEW z \in ZonesThere
      PROVE  z \in ZonesThere' /\ zoneOf'[z].store = zoneOf[z].store
  BY DEF MapStays, ZonesThere
<1>3. ASSUME pc[r] = "asked"
      PROVE  Grants(caller[r], job[r])'
  <2>1. job[r] \in MapJobs /\ Grants(caller[r], job[r])
    BY <1>3 DEF MapRequest
  <2>2. CASE job[r].op \in {"addShop", "addZone", "setShop", "setAccepting"}
    <3>1. job[r].op = "addZone" => job[r].store \in Stores
      BY <2>1 DEF MapJobs
    <3>2. job[r].op \in {"setShop", "setAccepting"} => job[r].at \in Stores
      BY <2>1 DEF MapJobs
    <3> QED BY <2>1, <2>2, <3>1, <3>2 DEF Grants, MapStays
  <2>3. CASE job[r].op \in {"addArea", "setZone"}
    BY <1>2, <2>1, <2>3 DEF Grants
  <2>4. CASE job[r].op = "setArea"
    BY <1>1, <2>1, <2>4 DEF Grants
  <2> QED BY <2>1, <2>2, <2>3, <2>4 DEF MapJobs
<1>4. ASSUME pc[r] = "routed"
      PROVE  job'[r].area \in AreasThere' /\ seen'[r] = ShopOf(job[r].area)'
  BY <1>1, <1>4 DEF MapRequest
<1> QED BY <1>3, <1>4 DEF MapRequest

\* Only request r moves, and what it relies on holds.
MapStepOf(r) ==
    /\ ShopTables' /\ DOMAIN caller' = Requests
    /\ \A q \in Requests \ {r} :
         pc'[q] = pc[q] /\ job'[q] = job[q] /\ seen'[q] = seen[q] /\ caller'[q] = caller[q]
    /\ MapRequest(r)'

\* A step of one request.
LEMMA MapFrame ==
    ASSUME MapRight, NEW r \in Requests, MapStepOf(r), MapRows', MapStays,
           \A o \in routed' \ routed : o.area \in AreasThere /\ o.store = ShopOf(o.area)
    PROVE  MapRight'
<1>1. ASSUME NEW a \in AreasThere
      PROVE  a \in AreasThere' /\ ShopOf(a)' = ShopOf(a)
  BY DEF MapRight, MapRows, MapStays, AreasThere, ShopOf
<1>2. \A o \in routed' : o.area \in AreasThere' /\ o.store = ShopOf(o.area)'
  BY <1>1 DEF MapRight
<1>3. \A q \in Requests : MapRequest(q)'
  BY RequestsRely DEF MapRight, MapStepOf
<1> QED BY <1>2, <1>3 DEF MapRight, MapStepOf

LEMMA WriteMapKeeps ==
    ASSUME MapRight, NEW r \in Requests, WriteMap(r)
    PROVE  MapRight'
<1> DEFINE j == job[r]
<1>1. /\ j \in MapJobs /\ Grants(caller[r], j) /\ Answered(r) /\ routed' = routed
      /\ MapRows
  BY DEF WriteMap, MapRight, MapRequest
<1>2. /\ shop' = CASE j.op = "addShop" -> Put(shop, j.at, [active |-> TRUE, accepting |-> TRUE])
                   [] j.op = "setShop" -> [shop EXCEPT ![j.at].active = j.active]
                   [] j.op = "setAccepting" -> [shop EXCEPT ![j.at].accepting = j.active]
                   [] OTHER -> shop
      /\ zoneOf' = CASE j.op = "addZone" -> Put(zoneOf, j.at, [store |-> j.store, active |-> TRUE])
                     [] j.op = "setZone" -> [zoneOf EXCEPT ![j.at].active = j.active]
                     [] OTHER -> zoneOf
      /\ area' = CASE j.op = "addArea" -> Put(area, j.at, j.row)
                   [] j.op = "setArea" -> [area EXCEPT ![j.at].active = j.active]
                   [] OTHER -> area
  BY DEF WriteMap
<1>3. /\ shop' \in [Stores -> Shops \cup {Nothing}]
      /\ \A s \in Stores : shop[s] # Nothing => shop'[s] # Nothing
  <2>1. CASE j.op = "addShop"
    <3>1. j.at \in Stores /\ [active |-> TRUE, accepting |-> TRUE] \in Shops
      BY <1>1, <2>1 DEF MapJobs, Shops
    <3>2. shop' = Put(shop, j.at, [active |-> TRUE, accepting |-> TRUE])
      BY <1>2, <2>1
    <3> QED BY <1>1, <3>1, <3>2 DEF Put, MapRows
  <2>2. CASE j.op \in {"setShop", "setAccepting"}
    <3>1. j.at \in Stores /\ j.active \in BOOLEAN
      BY <1>1, <2>2 DEF MapJobs
    <3>2. shop[j.at] \in Shops
      BY <1>1, <2>2, <3>1 DEF Grants, MapRows
    <3>3. /\ [shop[j.at] EXCEPT !.active = j.active] \in Shops
          /\ [shop[j.at] EXCEPT !.accepting = j.active] \in Shops
      BY <3>1, <3>2 DEF Shops
    <3>4. \/ shop' = [shop EXCEPT ![j.at] = [shop[j.at] EXCEPT !.active = j.active]]
          \/ shop' = [shop EXCEPT ![j.at] = [shop[j.at] EXCEPT !.accepting = j.active]]
      BY <1>2, <2>2
    <3> QED BY <1>1, <3>1, <3>3, <3>4, MapConstants DEF MapRows
  <2>3. CASE j.op \notin {"addShop", "setShop", "setAccepting"}
    BY <1>1, <1>2, <2>3 DEF MapRows
  <2> QED BY <2>1, <2>2, <2>3
<1>4. /\ zoneOf' \in [ZoneIds -> ZoneRows \cup {Nothing}]
      /\ \A z \in ZonesThere : zoneOf'[z] # Nothing /\ zoneOf'[z].store = zoneOf[z].store
      /\ \A z \in ZoneIds : zoneOf'[z] # Nothing =>
           z \in ZonesThere \/ shop[zoneOf'[z].store] # Nothing
  <2>1. CASE j.op = "addZone"
    <3>1. /\ j.at \in ZoneIds /\ [store |-> j.store, active |-> TRUE] \in ZoneRows
          /\ shop[j.store] # Nothing
      BY <1>1, <2>1 DEF MapJobs, ZoneRows, Grants
    <3>2. zoneOf' = Put(zoneOf, j.at, [store |-> j.store, active |-> TRUE])
      BY <1>2, <2>1
    <3> QED BY <1>1, <3>1, <3>2 DEF Put, MapRows, ZonesThere
  <2>2. CASE j.op = "setZone"
    <3>1. j.at \in ZoneIds /\ j.active \in BOOLEAN /\ zoneOf[j.at] \in ZoneRows
      BY <1>1, <2>2 DEF MapJobs, Grants, MapRows, ZonesThere
    <3> DEFINE row == [zoneOf[j.at] EXCEPT !.active = j.active]
    <3>2. row \in ZoneRows /\ row.store = zoneOf[j.at].store
      BY <3>1 DEF ZoneRows
    <3>3. zoneOf' = [zoneOf EXCEPT ![j.at] = row]
      BY <1>2, <2>2
    <3> HIDE DEF row
    <3> QED BY <1>1, <3>1, <3>2, <3>3, MapConstants DEF MapRows, ZonesThere
  <2>3. CASE j.op \notin {"addZone", "setZone"}
    BY <1>1, <1>2, <2>3 DEF MapRows, ZonesThere
  <2> QED BY <2>1, <2>2, <2>3
<1>5. /\ area' \in [AreaIds -> AreaRows \cup {Nothing}]
      /\ \A a \in AreasThere : area'[a] # Nothing /\ area'[a].zone = area[a].zone
      /\ \A a \in AreaIds : area'[a] # Nothing => a \in AreasThere \/ area'[a].zone \in ZonesThere
  <2>1. CASE j.op = "addArea"
    <3>1. j.at \in AreaIds /\ j.row \in AreaRows /\ j.row.zone \in ZonesThere
      BY <1>1, <2>1, MapConstants DEF MapJobs, Grants
    <3>2. area' = Put(area, j.at, j.row)
      BY <1>2, <2>1
    <3> QED BY <1>1, <3>1, <3>2 DEF Put, MapRows, AreasThere
  <2>2. CASE j.op = "setArea"
    <3>1. j.at \in AreaIds /\ j.active \in BOOLEAN /\ area[j.at] \in AreaRows
      BY <1>1, <2>2 DEF MapJobs, Grants, MapRows, AreasThere
    <3> DEFINE row == [area[j.at] EXCEPT !.active = j.active]
    <3>2. row \in AreaRows /\ row.zone = area[j.at].zone
      BY <3>1 DEF AreaRows
    <3>3. area' = [area EXCEPT ![j.at] = row]
      BY <1>2, <2>2
    <3> HIDE DEF row
    <3> QED BY <1>1, <3>1, <3>2, <3>3, MapConstants DEF MapRows, AreasThere
  <2>3. CASE j.op \notin {"addArea", "setArea"}
    BY <1>1, <1>2, <2>3 DEF MapRows, AreasThere
  <2> QED BY <2>1, <2>2, <2>3
<1>6. MapStays
  BY <1>3, <1>4, <1>5 DEF MapStays
<1>7. \A z \in ZoneIds : zoneOf'[z] # Nothing => shop'[zoneOf'[z].store] # Nothing
  <2>1. \A z \in ZoneIds : zoneOf'[z] # Nothing =>
          zoneOf'[z].store \in Stores /\ shop[zoneOf'[z].store] # Nothing
    BY <1>1, <1>4 DEF MapRows, ZoneRows
  <2> QED BY <1>3, <2>1
<1>8. \A a \in AreaIds : area'[a] # Nothing => area'[a].zone \in ZonesThere'
  BY <1>1, <1>4, <1>5 DEF MapRows, ZonesThere
<1>9. MapRows'
  BY <1>3, <1>4, <1>5, <1>7, <1>8 DEF MapRows, ZonesThere, AreasThere
<1>10. /\ ShopTables' /\ DOMAIN caller' = Requests /\ pc'[r] = "idle"
       /\ \A q \in Requests \ {r} :
            pc'[q] = pc[q] /\ job'[q] = job[q] /\ seen'[q] = seen[q] /\ caller'[q] = caller[q]
  BY <1>1 DEF Answered, MapRight, ShopTables
<1>11. MapStepOf(r)
  BY <1>10 DEF MapRequest, MapStepOf
<1>12. \A o \in routed' \ routed : o.area \in AreasThere /\ o.store = ShopOf(o.area)
  BY <1>1
<1> HIDE DEF j
<1> QED BY <1>6, <1>9, <1>11, <1>12, MapFrame

\* A step that changes no row of the map.
LEMMA MapRowsStay ==
    ASSUME MapRight, UNCHANGED <<shop, area, zoneOf>>
    PROVE  MapRows' /\ MapStays
<1>1. shop' = shop /\ area' = area /\ zoneOf' = zoneOf
  OBVIOUS
<1> QED BY <1>1 DEF MapRight, MapRows, MapStays, ZonesThere, AreasThere

LEMMA MapStep == MapRight /\ [MapNext]_mapVars => MapRight'
<1> SUFFICES ASSUME MapRight, [MapNext]_mapVars
             PROVE  MapRight'
  OBVIOUS
<1>1. ASSUME NEW r \in Requests, AskMap(r)
      PROVE  MapRight'
  <2>1. PICK p \in Planners, j \in MapJobs : Grants(p, j) /\ Starts(r, p, j, "asked", Nothing)
    BY <1>1 DEF AskMap
  <2>2. shop' = shop /\ area' = area /\ zoneOf' = zoneOf /\ routed' = routed
    BY <1>1 DEF AskMap
  <2>3. /\ ShopTables' /\ DOMAIN caller' = Requests
        /\ pc'[r] = "asked" /\ job'[r] = j /\ caller'[r] = p
        /\ \A q \in Requests \ {r} :
             pc'[q] = pc[q] /\ job'[q] = job[q] /\ seen'[q] = seen[q] /\ caller'[q] = caller[q]
    BY <2>1 DEF Starts, MapRight, ShopTables
  <2>4. Grants(caller[r], job[r])'
    BY <2>1, <2>2, <2>3 DEF Grants, ZonesThere, AreasThere, ShopOf
  <2>5. MapStepOf(r)
    BY <2>3, <2>4 DEF MapStepOf, MapRequest
  <2>6. MapRows' /\ MapStays
    BY <2>2, MapRowsStay
  <2>7. \A o \in routed' \ routed : o.area \in AreasThere /\ o.store = ShopOf(o.area)
    BY <2>2
  <2> QED BY <2>5, <2>6, <2>7, MapFrame
<1>2. ASSUME NEW r \in Requests, AskRoute(r)
      PROVE  MapRight'
  <2>0. PICK q \in Questions : \E a \in Routes(q) :
          Starts(r, Shopper(ShopOf(a)), [op |-> "order", area |-> a], "routed", ShopOf(a))
    BY <1>2 DEF AskRoute
  <2>1. PICK a \in Routes(q) :
          Starts(r, Shopper(ShopOf(a)), [op |-> "order", area |-> a], "routed", ShopOf(a))
    BY <2>0
  <2>2. shop' = shop /\ area' = area /\ zoneOf' = zoneOf /\ routed' = routed
    BY <1>2 DEF AskRoute
  <2>3. /\ ShopTables' /\ DOMAIN caller' = Requests
        /\ pc'[r] = "routed" /\ job'[r] = [op |-> "order", area |-> a] /\ seen'[r] = ShopOf(a)
        /\ \A s \in Requests \ {r} :
             pc'[s] = pc[s] /\ job'[s] = job[s] /\ seen'[s] = seen[s] /\ caller'[s] = caller[s]
    BY <2>1 DEF Starts, MapRight, ShopTables
  <2>4. a \in AreasThere' /\ ShopOf(a) = zoneOf'[area'[a].zone].store
    BY <2>2, RoutesAreOpen DEF AreasThere, ShopOf
  <2>5. MapRequest(r)'
    BY <2>3, <2>4 DEF MapRequest, ShopOf
  <2>6. MapStepOf(r)
    BY <2>3, <2>5 DEF MapStepOf
  <2>7. MapRows' /\ MapStays
    BY <2>2, MapRowsStay
  <2>8. \A o \in routed' \ routed : o.area \in AreasThere /\ o.store = ShopOf(o.area)
    BY <2>2
  <2> QED BY <2>6, <2>7, <2>8, MapFrame
<1>3. ASSUME NEW r \in Requests, OrderThere(r)
      PROVE  MapRight'
  <2>1. /\ Answered(r) /\ shop' = shop /\ area' = area /\ zoneOf' = zoneOf
        /\ routed' = routed \cup {[store |-> seen[r], area |-> job[r].area]}
        /\ job[r].area \in AreasThere /\ seen[r] = ShopOf(job[r].area)
    BY <1>3 DEF OrderThere, MapRight, MapRequest
  <2>2. /\ ShopTables' /\ DOMAIN caller' = Requests /\ pc'[r] = "idle"
        /\ \A q \in Requests \ {r} :
             pc'[q] = pc[q] /\ job'[q] = job[q] /\ seen'[q] = seen[q] /\ caller'[q] = caller[q]
    BY <2>1 DEF Answered, MapRight, ShopTables
  <2>3. MapStepOf(r)
    BY <2>2 DEF MapStepOf, MapRequest
  <2>4. MapRows' /\ MapStays
    BY <2>1, MapRowsStay
  <2>5. \A o \in routed' \ routed : o.area \in AreasThere /\ o.store = ShopOf(o.area)
    BY <2>1
  <2> QED BY <2>3, <2>4, <2>5, MapFrame
<1>4. CASE UNCHANGED mapVars
  BY <1>4 DEF mapVars, request, MapRight, ShopTables, MapRows, MapRequest, Grants, ZonesThere,
              AreasThere, ShopOf
<1> QED BY <1>1, <1>2, <1>3, <1>4, WriteMapKeeps DEF MapNext

LEMMA MapStarts == MapInit => MapRight
<1> SUFFICES ASSUME MapInit
             PROVE  MapRight
  OBVIOUS
<1>1. PICK m \in FirstMaps : shop = m.shops /\ zoneOf = m.zones /\ area = m.areas
  BY DEF MapInit
<1>2. MapRows
  <2>1. /\ shop \in [Stores -> Shops \cup {Nothing}]
        /\ zoneOf \in [ZoneIds -> ZoneRows \cup {Nothing}]
        /\ area \in [AreaIds -> AreaRows \cup {Nothing}]
        /\ \A z \in ZoneIds : zoneOf[z] # Nothing => shop[zoneOf[z].store] # Nothing
        /\ \A a \in AreaIds : area[a] # Nothing => zoneOf[area[a].zone] # Nothing
    BY <1>1, MapConstants
  <2>2. \A a \in AreaIds : area[a] # Nothing => area[a].zone \in ZoneIds
    BY <2>1 DEF AreaRows
  <2> QED BY <2>1, <2>2 DEF MapRows, ZonesThere, AreasThere
<1>3. ShopTables /\ DOMAIN caller = Requests /\ routed = {} /\ \A r \in Requests : pc[r] = "idle"
  BY DEF MapInit, RequestsInit, ShopTables
<1> QED BY <1>2, <1>3 DEF MapRight, MapRequest

\* An address leads to one shop however the areas are listed, what a request was
\* granted for a row is granted when it writes, and an order is in the shop its
\* area is mapped to, though nobody routes it again (stores/service.ts
\* resolveServiceability, stores/domain resolveServiceabilityFrom).
THEOREM TheMapHolds == MapSpec => [](MapInv /\ RoutesToOneShop)
<1>1. MapRight => MapInv
  BY DEF MapRight, MapRows, MapRequest, MapInv
<1> QED BY <1>1, MapStarts, MapStep, RoutesAgree, PTL DEF MapSpec

-----------------------------------------------------------------------------
(* The seed *)

Movement == [of : 0..3, delta : Int, after : Int]

\* The rows of a ledger that are of one thing.
OfWhat(h, what) == {k \in DOMAIN h : h[k].of = what}

\* A ledger explains the stock of a product.
Explains(h, stock) ==
    /\ h # <<>> => h[1].after = h[1].delta /\ h[Len(h)].after = stock
    /\ \A k \in 2..Len(h) : h[k].after = h[k - 1].after + h[k].delta
    /\ OfWhat(h, opening) \subseteq {1}

LEMMA RowsAreFinite ==
    ASSUME NEW h \in Seq(Movement), NEW what
    PROVE  IsFiniteSet(OfWhat(h, what)) /\ Cardinality(OfWhat(h, what)) \in Nat
<1>1. Len(h) \in Nat /\ DOMAIN h = 1..Len(h)
  BY LenProperties
<1>2. IsFiniteSet(1..Len(h)) /\ OfWhat(h, what) \in SUBSET (1..Len(h))
  BY <1>1, FS_Interval DEF OfWhat
<1> QED BY <1>2, FS_Subset, FS_CardinalityType

\* One row more.
LEMMA OneRowMore ==
    ASSUME NEW h \in Seq(Movement), NEW row \in Movement
    PROVE  LET more == Append(h, row) IN
           /\ more \in Seq(Movement) /\ more # <<>> /\ Len(more) = Len(h) + 1
           /\ more[Len(h) + 1] = row /\ \A k \in 1..Len(h) : more[k] = h[k]
           /\ OfWhat(more, row.of) = OfWhat(h, row.of) \cup {Len(h) + 1}
           /\ Cardinality(OfWhat(more, row.of)) = Cardinality(OfWhat(h, row.of)) + 1
           /\ \A what : what # row.of => OfWhat(more, what) = OfWhat(h, what)
<1> DEFINE more == Append(h, row)
<1>1. Len(h) \in Nat /\ DOMAIN h = 1..Len(h)
  BY LenProperties
<1>2. /\ more \in Seq(Movement) /\ more # <<>> /\ Len(more) = Len(h) + 1
      /\ more[Len(h) + 1] = row /\ \A k \in 1..Len(h) : more[k] = h[k]
  BY AppendProperties
<1>3. DOMAIN more = (1..Len(h)) \cup {Len(h) + 1}
  BY <1>1, <1>2, LenProperties
<1> HIDE DEF more
<1>4. OfWhat(more, row.of) = OfWhat(h, row.of) \cup {Len(h) + 1}
  BY <1>1, <1>2, <1>3 DEF OfWhat
<1>5. \A what : what # row.of => OfWhat(more, what) = OfWhat(h, what)
  BY <1>1, <1>2, <1>3 DEF OfWhat
<1>6. Len(h) + 1 \notin OfWhat(h, row.of)
  BY <1>1 DEF OfWhat
<1>7. Cardinality(OfWhat(more, row.of)) = Cardinality(OfWhat(h, row.of)) + 1
  BY <1>4, <1>6, RowsAreFinite, FS_AddElement
<1> QED BY <1>2, <1>4, <1>5, <1>7 DEF more

\* A movement of a product that has an item.
LEMMA MovedOnce ==
    ASSUME NEW h \in Seq(Movement), NEW stock \in Int, h # <<>>, Explains(h, stock),
           NEW what \in 1..3, NEW delta \in Int
    PROVE  LET row == [of |-> what, delta |-> delta, after |-> stock + delta]
           IN Append(h, row) \in Seq(Movement) /\ Append(h, row) # <<>>
              /\ Explains(Append(h, row), stock + delta)
<1> DEFINE row == [of |-> what, delta |-> delta, after |-> stock + delta]
           more == Append(h, row)
<1>1. row \in Movement /\ row.of = what /\ row.delta = delta /\ row.after = stock + delta
  BY DEF Movement
<1> HIDE DEF row
<1>2. /\ more \in Seq(Movement) /\ more # <<>> /\ Len(more) = Len(h) + 1
      /\ more[Len(h) + 1] = row /\ \A k \in 1..Len(h) : more[k] = h[k]
      /\ \A w : w # what => OfWhat(more, w) = OfWhat(h, w)
  BY <1>1, OneRowMore
<1> HIDE DEF more
<1>3. Len(h) \in Nat \ {0} /\ h[Len(h)].after = stock /\ h[1].after = h[1].delta
  BY EmptySeq DEF Explains
<1>4. ASSUME NEW k \in 2..Len(more)
      PROVE  more[k].after = more[k - 1].after + more[k].delta
  <2>1. CASE k = Len(h) + 1
    BY <1>1, <1>2, <1>3, <2>1
  <2>2. CASE k # Len(h) + 1
    <3>1. k \in 2..Len(h) /\ k \in 1..Len(h) /\ k - 1 \in 1..Len(h)
      BY <1>2, <1>3, <2>2
    <3> QED BY <1>2, <3>1 DEF Explains
  <2> QED BY <2>1, <2>2
<1>5. more[1] = h[1] /\ more[Len(more)].after = stock + delta
  BY <1>1, <1>2, <1>3
<1>6. OfWhat(more, opening) \subseteq {1}
  BY <1>2 DEF Explains, opening
<1>7. Explains(more, stock + delta)
  BY <1>2, <1>3, <1>4, <1>5, <1>6 DEF Explains
<1> QED BY <1>2, <1>7 DEF more, row

\* The first row, the opening balance.
LEMMA Opened ==
    ASSUME NEW stock \in Int
    PROVE  LET h == Append(<<>>, [of |-> opening, delta |-> stock, after |-> stock]) IN
           /\ h \in Seq(Movement) /\ h # <<>> /\ Explains(h, stock)
           /\ \A what : what # opening => OfWhat(h, what) = {}
<1> DEFINE row == [of |-> opening, delta |-> stock, after |-> stock]
           h == Append(<<>>, row)
<1>1. row \in Movement /\ row.of = opening /\ row.delta = stock /\ row.after = stock
  BY DEF Movement, opening
<1> HIDE DEF row
<1>2. <<>> \in Seq(Movement) /\ Len(<<>>) = 0
  BY EmptySeq
<1>3. h \in Seq(Movement) /\ h # <<>> /\ Len(h) = 1 /\ h[1] = row /\ DOMAIN h = 1..1
  BY <1>1, <1>2, AppendProperties, LenProperties
<1> HIDE DEF h
<1>4. Explains(h, stock)
  BY <1>1, <1>3 DEF Explains, OfWhat
<1>5. \A what : what # opening => OfWhat(h, what) = {}
  BY <1>1, <1>3 DEF OfWhat
<1> QED BY <1>3, <1>4, <1>5 DEF h, row

DemoRows == [state : {"none", "live", "cancelled"}, lines : SUBSET Skus]

\* How many rows of a product an order has.
Owed(o, p) == IF p \notin o.lines THEN 0 ELSE IF o.state = "live" THEN 1 ELSE 2

ShelfKept(p) ==
    /\ p \in DOMAIN shelf <=> movements[p] # <<>>
    /\ Explains(movements[p], shelf[p])
    /\ \A n \in DemoOrders : Cardinality(OfWhat(movements[p], n)) = Owed(demo[n], p)

SeedRight ==
    /\ DOMAIN shelf \subseteq Skus /\ \A p \in DOMAIN shelf : shelf[p] \in Int
    /\ movements \in [Skus -> Seq(Movement)]
    /\ onSale \subseteq Skus /\ picked \subseteq Skus
    /\ demo \in [DemoOrders -> DemoRows]
    /\ \A n \in DemoOrders : /\ demo[n].lines \subseteq DOMAIN shelf
                             /\ demo[n].state = "none" => demo[n].lines = {}
    /\ \A p \in Skus : ShelfKept(p)

\* Stock that moves moves with its row: what was moved has one row more, and
\* nothing else has.
LEMMA MovesKeep ==
    ASSUME SeedRight, NEW lines, lines \subseteq DOMAIN shelf,
           NEW what \in 1..3, NEW delta \in Int, Moves(lines, what, delta)
    PROVE  /\ DOMAIN shelf' = DOMAIN shelf /\ \A p \in DOMAIN shelf : shelf'[p] \in Int
           /\ movements' \in [Skus -> Seq(Movement)]
           /\ \A p \in Skus :
                /\ p \in DOMAIN shelf <=> movements'[p] # <<>>
                /\ Explains(movements'[p], shelf'[p])
                /\ \A n \in DemoOrders :
                     Cardinality(OfWhat(movements'[p], n)) =
                        IF p \in lines /\ n = what THEN Owed(demo[n], p) + 1 ELSE Owed(demo[n], p)
<1>1. /\ DOMAIN shelf' = DOMAIN shelf /\ DOMAIN movements' = Skus
      /\ \A p \in DOMAIN shelf : shelf'[p] = IF p \in lines THEN shelf[p] + delta ELSE shelf[p]
      /\ \A p \in Skus : movements'[p] = IF p \in lines
                                         THEN Append(movements[p], Row(p, what, delta))
                                         ELSE movements[p]
      /\ movements' = [p \in Skus |-> movements'[p]]
  BY DEF Moves
<1>2. ASSUME NEW p \in Skus
      PROVE  /\ movements'[p] \in Seq(Movement)
             /\ p \in DOMAIN shelf <=> movements'[p] # <<>>
             /\ Explains(movements'[p], shelf'[p])
             /\ \A n \in DemoOrders :
                  Cardinality(OfWhat(movements'[p], n)) =
                    IF p \in lines /\ n = what THEN Owed(demo[n], p) + 1 ELSE Owed(demo[n], p)
  <2>1. /\ movements[p] \in Seq(Movement) /\ (p \in DOMAIN shelf <=> movements[p] # <<>>)
        /\ Explains(movements[p], shelf[p])
        /\ \A n \in DemoOrders : Cardinality(OfWhat(movements[p], n)) = Owed(demo[n], p)
    BY DEF SeedRight, ShelfKept
  <2>2. CASE p \in lines
    <3> DEFINE row == Row(p, what, delta)
               more == Append(movements[p], row)
    <3>1. p \in DOMAIN shelf /\ shelf[p] \in Int /\ movements[p] # <<>>
      BY <2>1, <2>2 DEF SeedRight
    <3>2. /\ row = [of |-> what, delta |-> delta, after |-> shelf[p] + delta]
          /\ row \in Movement /\ row.of = what
      BY <3>1 DEF Row, Movement
    <3>3. more \in Seq(Movement) /\ more # <<>> /\ Explains(more, shelf[p] + delta)
      BY <2>1, <3>1, <3>2, MovedOnce
    <3>4. /\ Cardinality(OfWhat(more, what)) = Cardinality(OfWhat(movements[p], what)) + 1
          /\ \A n : n # what => OfWhat(more, n) = OfWhat(movements[p], n)
      BY <2>1, <3>2, OneRowMore
    <3>5. movements'[p] = more /\ shelf'[p] = shelf[p] + delta
      BY <1>1, <2>2, <3>1
    <3> HIDE DEF row, more
    <3>6. ASSUME NEW n \in DemoOrders
          PROVE  Cardinality(OfWhat(movements'[p], n)) =
                   IF p \in lines /\ n = what THEN Owed(demo[n], p) + 1 ELSE Owed(demo[n], p)
      BY <2>1, <2>2, <3>4, <3>5
    <3> QED BY <3>1, <3>3, <3>5, <3>6
  <2>3. CASE p \notin lines
    <3>1. movements'[p] = movements[p] /\ (p \in DOMAIN shelf => shelf'[p] = shelf[p])
      BY <1>1, <2>3
    <3>2. Explains(movements[p], shelf'[p])
      <4>1. CASE p \in DOMAIN shelf
        BY <2>1, <3>1, <4>1
      <4>2. CASE p \notin DOMAIN shelf
        BY <2>1, <4>2 DEF Explains
      <4> QED BY <4>1, <4>2
    <3> QED BY <2>1, <2>3, <3>1, <3>2
  <2> QED BY <2>2, <2>3
<1>3. movements' \in [Skus -> Seq(Movement)]
  BY <1>1, <1>2
<1>4. \A p \in DOMAIN shelf : shelf'[p] \in Int
  BY <1>1 DEF SeedRight
<1> QED BY <1>1, <1>2, <1>3, <1>4

LEMMA CreateItemKeeps ==
    ASSUME SeedRight, NEW p \in Skus, CreateItem(p)
    PROVE  SeedRight'
<1>1. onSale' = onSale /\ picked' = picked /\ demo' = demo
  BY DEF CreateItem
<1>2. CASE p \in DOMAIN shelf
  <2>1. shelf' = shelf /\ movements' = movements
    BY <1>2 DEF CreateItem
  <2> QED BY <1>1, <2>1 DEF SeedRight, ShelfKept
<1>3. CASE p \notin DOMAIN shelf
  <2> DEFINE h == Append(<<>>, [of |-> opening, delta |-> OpeningStock[p], after |-> OpeningStock[p]])
  <2>1. /\ movements[p] = <<>> /\ ShelfKept(p) /\ movements \in [Skus -> Seq(Movement)]
        /\ OpeningStock[p] \in Int
    BY <1>3, SeedConstants DEF SeedRight, ShelfKept
  <2>2. /\ h \in Seq(Movement) /\ h # <<>> /\ Explains(h, OpeningStock[p])
        /\ \A what : what # opening => OfWhat(h, what) = {}
    BY <2>1, Opened
  <2>3. /\ DOMAIN shelf' = DOMAIN shelf \cup {p} /\ shelf'[p] = OpeningStock[p]
        /\ \A q \in DOMAIN shelf : shelf'[q] = shelf[q]
        /\ movements' = [movements EXCEPT ![p] = h]
    BY <1>3, <2>1 DEF CreateItem
  <2> HIDE DEF h
  <2>4. /\ movements' \in [Skus -> Seq(Movement)] /\ movements'[p] = h
        /\ \A q \in Skus \ {p} : movements'[q] = movements[q]
    BY <2>1, <2>2, <2>3
  <2>5. ASSUME NEW n \in DemoOrders
        PROVE  Cardinality(OfWhat(h, n)) = Owed(demo[n], p)
    <3>1. OfWhat(h, n) = {}
      BY <2>2 DEF DemoOrders, opening
    <3>2. p \notin demo[n].lines
      BY <1>3 DEF SeedRight
    <3> QED BY <3>1, <3>2, FS_EmptySet DEF Owed
  <2>6. ASSUME NEW q \in Skus, q # p
        PROVE  ShelfKept(q)'
    <3>1. ShelfKept(q) /\ movements'[q] = movements[q] /\ (q \in DOMAIN shelf' <=> q \in DOMAIN shelf)
      BY <2>3, <2>4, <2>6 DEF SeedRight
    <3>2. Explains(movements[q], shelf'[q])
      <4>1. CASE q \in DOMAIN shelf
        BY <2>3, <3>1, <4>1 DEF ShelfKept
      <4>2. CASE q \notin DOMAIN shelf
        BY <3>1, <4>2 DEF ShelfKept, Explains
      <4> QED BY <4>1, <4>2
    <3> QED BY <1>1, <3>1, <3>2 DEF ShelfKept
  <2>7. ShelfKept(p)'
    BY <1>1, <2>2, <2>3, <2>4, <2>5 DEF ShelfKept
  <2>8. \A q \in DOMAIN shelf' : shelf'[q] \in Int
    BY <2>1, <2>3 DEF SeedRight
  <2> QED BY <1>1, <2>3, <2>4, <2>6, <2>7, <2>8 DEF SeedRight
<1> QED BY <1>2, <1>3

\* A step that moves stock for an order, which stands in it then, or for trade.
LEMMA SeedMoves ==
    ASSUME SeedRight, NEW lines, lines \subseteq DOMAIN shelf,
           NEW what \in 1..3, NEW delta \in Int, Moves(lines, what, delta),
           onSale' \subseteq Skus, picked' \subseteq Skus,
           demo' \in [DemoOrders -> DemoRows],
           \A n \in DemoOrders : n # what => demo'[n] = demo[n],
           what \in DemoOrders =>
             /\ demo'[what].lines = lines /\ demo'[what].state # "none"
             /\ \A p \in Skus : Owed(demo'[what], p) =
                  IF p \in lines THEN Owed(demo[what], p) + 1 ELSE Owed(demo[what], p)
    PROVE  SeedRight'
<1>1. /\ DOMAIN shelf' = DOMAIN shelf /\ \A p \in DOMAIN shelf : shelf'[p] \in Int
      /\ movements' \in [Skus -> Seq(Movement)]
      /\ \A p \in Skus :
           /\ p \in DOMAIN shelf <=> movements'[p] # <<>>
           /\ Explains(movements'[p], shelf'[p])
           /\ \A n \in DemoOrders :
                Cardinality(OfWhat(movements'[p], n)) =
                   IF p \in lines /\ n = what THEN Owed(demo[n], p) + 1 ELSE Owed(demo[n], p)
  BY MovesKeep
<1>2. ASSUME NEW p \in Skus, NEW n \in DemoOrders
      PROVE  Cardinality(OfWhat(movements'[p], n)) = Owed(demo'[n], p)
  BY <1>1
<1>3. \A p \in Skus : ShelfKept(p)'
  BY <1>1, <1>2 DEF ShelfKept
<1>4. ASSUME NEW n \in DemoOrders
      PROVE  /\ demo'[n].lines \subseteq DOMAIN shelf'
             /\ demo'[n].state = "none" => demo'[n].lines = {}
  BY <1>1 DEF SeedRight
<1> QED BY <1>1, <1>3, <1>4 DEF SeedRight

LEMMA DemoOrderKeeps ==
    ASSUME SeedRight, NEW n \in DemoOrders, DemoOrder(n)
    PROVE  SeedRight'
<1> DEFINE lines == LinesOf(n)
<1>1. onSale' = onSale /\ picked' = picked
  BY DEF DemoOrder
<1>2. CASE UNCHANGED <<shelf, movements, demo>>
  BY <1>1, <1>2 DEF SeedRight, ShelfKept
<1>3. CASE ~UNCHANGED <<shelf, movements, demo>>
  <2>1. /\ demo[n].state = "none" /\ Short(n) = {} /\ Moves(lines, n, -n)
        /\ demo' = [demo EXCEPT ![n] = [state |-> "live", lines |-> lines]]
    BY <1>3 DEF DemoOrder, PlaceDemo
  <2>2. lines \subseteq DOMAIN shelf /\ lines \in SUBSET Skus
    BY <2>1 DEF Short, LinesOf, SeedRight
  <2> HIDE DEF lines
  <2>3. n \in 1..3 /\ -n \in Int
    BY DEF DemoOrders
  <2>4. [state |-> "live", lines |-> lines] \in DemoRows
    BY <2>2 DEF DemoRows
  <2>5. /\ demo' \in [DemoOrders -> DemoRows] /\ demo'[n] = [state |-> "live", lines |-> lines]
        /\ \A m \in DemoOrders : m # n => demo'[m] = demo[m]
    BY <2>1, <2>4 DEF SeedRight
  <2>6. \A p \in Skus : /\ Owed(demo[n], p) = 0
                        /\ Owed(demo'[n], p) = IF p \in lines THEN 1 ELSE 0
    BY <2>1, <2>5 DEF SeedRight, Owed
  <2>7. \A p \in Skus : Owed(demo'[n], p) =
          IF p \in lines THEN Owed(demo[n], p) + 1 ELSE Owed(demo[n], p)
    BY <2>6
  <2>8. demo'[n].lines = lines /\ demo'[n].state # "none"
    BY <2>5
  <2>9. onSale' \subseteq Skus /\ picked' \subseteq Skus
    BY <1>1 DEF SeedRight
  <2> QED BY <2>1, <2>2, <2>3, <2>5, <2>7, <2>8, <2>9, SeedMoves
<1> QED BY <1>2, <1>3

LEMMA CancelDemoKeeps ==
    ASSUME SeedRight, CancelDemo
    PROVE  SeedRight'
<1>1. PICK n \in DemoOrders : /\ demo[n].state = "live" /\ Moves(demo[n].lines, n, n)
                              /\ demo' = [demo EXCEPT ![n].state = "cancelled"]
  BY DEF CancelDemo
<1> DEFINE lines == demo[n].lines
<1>2. /\ lines \subseteq DOMAIN shelf /\ lines \in SUBSET Skus
      /\ onSale' \subseteq Skus /\ picked' \subseteq Skus
  BY DEF SeedRight, CancelDemo, ShopWorks, DemoRows
<1>3. n \in 1..3 /\ n \in Int
  BY DEF DemoOrders
<1>4. /\ demo' \in [DemoOrders -> DemoRows]
      /\ demo'[n].lines = lines /\ demo'[n].state = "cancelled"
      /\ \A m \in DemoOrders : m # n => demo'[m] = demo[m]
  BY <1>1 DEF SeedRight, DemoRows
<1>5. \A p \in Skus : /\ Owed(demo[n], p) = IF p \in lines THEN 1 ELSE 0
                      /\ Owed(demo'[n], p) = IF p \in lines THEN 2 ELSE 0
  BY <1>1, <1>4 DEF Owed
<1>6. \A p \in Skus : Owed(demo'[n], p) =
        IF p \in lines THEN Owed(demo[n], p) + 1 ELSE Owed(demo[n], p)
  BY <1>5
<1> HIDE DEF lines
<1>7. Moves(lines, n, n) /\ demo'[n].state # "none"
  BY <1>1, <1>4 DEF lines
<1> QED BY <1>2, <1>3, <1>4, <1>6, <1>7, SeedMoves

LEMMA SeedStep == SeedRight /\ [SeedNext]_seedVars => SeedRight'
<1> SUFFICES ASSUME SeedRight, [SeedNext]_seedVars
             PROVE  SeedRight'
  OBVIOUS
<1>1. ASSUME UNCHANGED <<shelf, movements, demo>>, onSale' \subseteq Skus, picked' \subseteq Skus
      PROVE  SeedRight'
  BY <1>1 DEF SeedRight, ShelfKept
<1>2. onSale \subseteq Skus /\ picked \subseteq Skus
  BY DEF SeedRight
<1>3. CASE Start \/ ReadListings \/ Kill \/ Relist \/ \E p \in Skus : UpsertListing(p)
  BY <1>1, <1>2, <1>3 DEF Start, ReadListings, Kill, Relist, ShopWorks, UpsertListing
<1>4. CASE Trade
  <2>1. PICK p \in DOMAIN shelf, delta \in {-1, 1} : Moves({p}, trade, delta)
    BY <1>4 DEF Trade
  <2>2. trade \in 1..3 /\ trade \notin DemoOrders /\ delta \in Int /\ {p} \subseteq DOMAIN shelf
    BY DEF trade, DemoOrders
  <2>3. demo' = demo /\ onSale' \subseteq Skus /\ picked' \subseteq Skus
    BY <1>2, <1>4 DEF Trade, ShopWorks
  <2>4. demo' \in [DemoOrders -> DemoRows] /\ \A n \in DemoOrders : n # trade => demo'[n] = demo[n]
    BY <2>3 DEF SeedRight
  <2> QED BY <2>1, <2>2, <2>3, <2>4, SeedMoves
<1>5. CASE UNCHANGED seedVars
  BY <1>1, <1>2, <1>5 DEF seedVars
<1> QED BY <1>3, <1>4, <1>5, CreateItemKeeps, DemoOrderKeeps, CancelDemoKeeps DEF SeedNext

LEMMA SeedStarts == SeedInit => SeedRight
<1> SUFFICES ASSUME SeedInit
             PROVE  SeedRight
  OBVIOUS
<1>1. /\ shelf = <<>> /\ DOMAIN shelf = {} /\ onSale = {} /\ picked = {}
      /\ movements = [p \in Skus |-> <<>>]
      /\ demo = [n \in DemoOrders |-> NoOrder] /\ NoOrder \in DemoRows
      /\ NoOrder.lines = {}
  BY DEF SeedInit, NoOrder, DemoRows
<1>2. <<>> \in Seq(Movement)
  BY EmptySeq
<1>3. ASSUME NEW p \in Skus, NEW n \in DemoOrders
      PROVE  Cardinality(OfWhat(movements[p], n)) = Owed(demo[n], p)
  BY <1>1, FS_EmptySet DEF OfWhat, Owed
<1>4. \A p \in Skus : Explains(movements[p], shelf[p])
  BY <1>1 DEF Explains, OfWhat
<1>5. \A p \in Skus : ShelfKept(p)
  BY <1>1, <1>3, <1>4 DEF ShelfKept
<1> QED BY <1>1, <1>2, <1>5 DEF SeedRight

\* However often the seed is started, wherever it is killed and whatever the
\* shop does between two runs, every movement it makes is made once and comes
\* with its row (prisma/seed.ts seedStore, seedDemoOrders).
THEOREM TheSeedMovesOnce == SeedSpec => []SeedMovesOnce
<1>1. SeedRight => SeedMovesOnce
  BY DEF SeedRight, ShelfKept, Explains, OfWhat, Owed, SeedMovesOnce, RowsOf
<1> QED BY <1>1, SeedStarts, SeedStep, PTL DEF SeedSpec

-----------------------------------------------------------------------------
(* The shopper's device *)

\* The jar once an answer has set its cookies.
AreaAfter(sent) == IF "area" \in DOMAIN sent THEN sent["area"] ELSE jar.area
BasketAfter(sent) == IF "basket" \in DOMAIN sent THEN sent["basket"] ELSE jar.basket

\* An area and a basket lead to one shop.
Fits(place, t) == place # Nothing /\ Live(t) => basket[t].shop = ShopFor[place]

Carried(j) ==
    /\ j \in [area : Places \cup {Nothing}, basket : Baskets \cup {Nothing}]
    /\ j.basket # Nothing => basket[j.basket] # Nothing

Sets(sent) ==
    \/ sent = NoCookies
    \/ \E a \in Places \cup {Nothing} : sent = SetsArea(a)
    \/ \E b \in Baskets : basket[b] # Nothing /\ sent = SetsBasket(b)

FormRight(f) == f \in Form /\ (~f.saved => f.shows = ShopFor[f.area])

ClickRight(j) ==
    /\ j.kind = "choose" => j.area \in Places
    /\ j.kind = "place" => FormRight(j.form)

\* Where a request goes on with the cookies it was sent with.
WithJar == {"arrived", "rebuild", "ensure", "view", "place"}

VisitRequest(r) ==
    /\ pc[r] \in WithJar \cup {"idle", "item", "answer"}
    /\ pc[r] # "idle" => ClickRight(job[r])
    /\ pc[r] \in WithJar => Carried(seen[r].jar)
    /\ pc[r] \in {"rebuild", "place"} => seen[r].jar.basket # Nothing
    /\ pc[r] \in {"ensure", "view"} =>
         seen[r].jar.area \in Places /\ seen[r].shop = ShopFor[seen[r].jar.area]
    /\ pc[r] = "place" => seen[r].shop = ShopFor[job[r].form.area]
    /\ pc[r] = "item" => Sets(seen[r].cookies)
    /\ pc[r] = "answer" =>
         /\ Sets(seen[r].cookies)
         /\ seen[r].says = "form" => FormRight(seen[r].form)
         /\ seen[r].says = "unserviceable" => seen[r].cookies = SetsArea(Nothing)

\* A request that no other was under way with works on the cookies the device
\* still has, and its answer brings area and basket together.
AloneRight(r) ==
    pc[r] # "idle" /\ r \notin crossed =>
        /\ \A q \in Requests \ {r} : pc[q] = "idle"
        /\ pc[r] \in WithJar => seen[r].jar = jar
        /\ pc[r] \in WithJar /\ ~apart => Fits(jar.area, jar.basket)
        /\ pc[r] = "item" /\ ~apart =>
             Fits(AreaAfter(seen[r].cookies), BasketAfter(seen[r].cookies))
        /\ pc[r] = "answer" /\ (~apart \/ job[r].kind = "choose") =>
             /\ Fits(AreaAfter(seen[r].cookies), BasketAfter(seen[r].cookies))
             /\ seen[r].says # "broken"

\* A basket that was sold is not sold again.
SalesRight ==
    /\ BuysWhereTheFormSays /\ SoldOnce
    /\ \A o \in bought :
         o.basket \in Baskets /\ basket[o.basket] # Nothing /\ ~Live(o.basket)

DeviceRight ==
    /\ jar.basket # Nothing => basket[jar.basket] # Nothing
    /\ form = Nothing \/ FormRight(form)
    /\ apart \in BOOLEAN
    /\ crossed \subseteq {r \in Requests : pc[r] # "idle"}
    /\ ~apart /\ (\A r \in Requests : pc[r] = "idle") => Fits(jar.area, jar.basket)
    /\ ~apart => shown # "broken"

VisitRight ==
    /\ ShopTables /\ VisitTypes /\ shopper \in Shoppers
    /\ TurnedAwayHasNoShop /\ DeviceRight /\ SalesRight
    /\ \A r \in Requests : VisitRequest(r) /\ AloneRight(r)

LEMMA VisitInvHolds == VisitRight => VisitInv
BY DEF VisitRight, VisitInv, DeviceRight, SalesRight, BasketIsOfTheShop, Fits

\* Baskets are never taken away, and none becomes active again.
Forward ==
    \A b \in Baskets :
        basket[b] # Nothing =>
            /\ basket'[b] # Nothing
            /\ basket[b].status # "ACTIVE" => basket'[b].status # "ACTIVE"

SameShops ==
    \A b \in Baskets :
        basket[b] # Nothing /\ basket'[b].status = "ACTIVE" => basket'[b].shop = basket[b].shop

LEMMA FitsStay ==
    ASSUME Forward, SameShops, NEW place, NEW t \in Baskets \cup {Nothing},
           t # Nothing => basket[t] # Nothing, Fits(place, t)
    PROVE  Fits(place, t)'
BY ShopVisitConstants DEF Forward, SameShops, Fits, Live

LEMMA SalesStay ==
    ASSUME SalesRight, Forward, UNCHANGED bought
    PROVE  SalesRight'
BY ShopVisitConstants DEF SalesRight, Forward, Live, BuysWhereTheFormSays, SoldOnce

\* What a request relies on lasts while baskets go on.
LEMMA VisitRequestStays ==
    ASSUME Forward, NEW q \in Requests, VisitRequest(q),
           pc'[q] = pc[q], job'[q] = job[q], seen'[q] = seen[q]
    PROVE  VisitRequest(q)'
<1>1. pc[q] \in WithJar => Carried(seen[q].jar)'
  BY ShopVisitConstants DEF VisitRequest, Carried, Forward
<1>2. pc[q] \in {"item", "answer"} => Sets(seen[q].cookies)'
  BY DEF VisitRequest, Sets, Forward
<1> QED BY <1>1, <1>2 DEF VisitRequest, ClickRight, FormRight

\* Nobody else is disturbed by a step of r: whoever else is under way is one of
\* those that crossed.
LEMMA OthersGoOn ==
    ASSUME VisitRight, Forward, NEW r \in Requests, Alone(r),
           \A q \in Requests \ {r} : pc[q] # "idle" => q \in crossed',
           VisitRequest(r)', AloneRight(r)'
    PROVE  \A q \in Requests : VisitRequest(q)' /\ AloneRight(q)'
<1>1. ASSUME NEW q \in Requests \ {r} PROVE VisitRequest(q)' /\ AloneRight(q)'
  <2>1. pc'[q] = pc[q] /\ job'[q] = job[q] /\ seen'[q] = seen[q]
    BY DEF Alone
  <2>2. VisitRequest(q)'
    BY <2>1, VisitRequestStays DEF VisitRight
  <2>3. AloneRight(q)'
    BY <2>1 DEF AloneRight
  <2> QED BY <2>2, <2>3
<1> QED BY <1>1

LEMMA OthersCrossed ==
    ASSUME VisitRight, NEW r \in Requests, pc[r] # "idle"
    PROVE  \A q \in Requests \ {r} : pc[q] # "idle" => q \in crossed
BY DEF VisitRight, AloneRight

\* A request is served: the device knows nothing of it before the answer comes.
LEMMA VisitServed ==
    ASSUME VisitRight, NEW r \in Requests, Alone(r), pc[r] # "idle", pc'[r] # "idle",
           UNCHANGED <<deviceRows, staffSide>>,
           basket' \in [Baskets -> Cart \cup {Nothing}], Forward, SalesRight',
           VisitRequest(r)', AloneRight(r)'
    PROVE  VisitRight'
<1>1. /\ jar' = jar /\ form' = form /\ shown' = shown /\ crossed' = crossed
      /\ apart' = apart /\ reached' = reached /\ shopper' = shopper
  BY DEF deviceRows, staffSide
<1>2. \A q \in Requests : VisitRequest(q)' /\ AloneRight(q)'
  BY <1>1, OthersGoOn, OthersCrossed
<1>3. jar'.basket # Nothing => basket'[jar'.basket] # Nothing
  BY <1>1 DEF VisitRight, VisitTypes, DeviceRight, Forward
<1>4. VisitTypes' /\ TurnedAwayHasNoShop'
  BY <1>1, <1>3 DEF VisitRight, VisitTypes, TurnedAwayHasNoShop
<1>5. crossed' \subseteq {q \in Requests : pc'[q] # "idle"}
  BY <1>1 DEF VisitRight, DeviceRight, Alone
<1>6. DeviceRight'
  BY <1>1, <1>3, <1>5 DEF VisitRight, DeviceRight, FormRight
<1> QED BY <1>1, <1>2, <1>4, <1>6 DEF VisitRight, Alone

\* Most requests leave baskets and orders alone.
LEMMA VisitRead ==
    ASSUME VisitRight, NEW r \in Requests, Alone(r), pc[r] # "idle", pc'[r] # "idle",
           UNCHANGED <<deviceRows, staffSide>>, UNCHANGED <<basket, bought>>,
           VisitRequest(r)', AloneRight(r)'
    PROVE  VisitRight'
<1>1. basket' = basket /\ bought' = bought
  OBVIOUS
<1>2. Forward /\ basket' \in [Baskets -> Cart \cup {Nothing}]
  BY <1>1 DEF Forward, VisitRight, VisitTypes
<1>3. SalesRight'
  BY <1>1, <1>2, SalesStay DEF VisitRight
<1> QED BY <1>2, <1>3, VisitServed

LEMMA SetsWhat ==
    /\ AreaAfter(NoCookies) = jar.area /\ BasketAfter(NoCookies) = jar.basket
    /\ \A a : AreaAfter(SetsArea(a)) = a /\ BasketAfter(SetsArea(a)) = jar.basket
    /\ \A t : AreaAfter(SetsBasket(t)) = jar.area /\ BasketAfter(SetsBasket(t)) = t
BY DEF AreaAfter, BasketAfter, NoCookies, SetsArea, SetsBasket

\* What an answer has to keep to.
LEMMA AnswerIsRight ==
    ASSUME VisitRight, NEW r \in Requests, pc[r] # "idle", Alone(r), job'[r] = job[r],
           jar' = jar, crossed' = crossed, apart' = apart,
           NEW says, NEW sent, NEW f,
           GoesOn(r, "answer", [says |-> says, cookies |-> sent, form |-> f]),
           Sets(sent)', says = "form" => FormRight(f),
           says = "unserviceable" => sent = SetsArea(Nothing),
           r \notin crossed /\ (~apart \/ job[r].kind = "choose") =>
               Fits(AreaAfter(sent), BasketAfter(sent))' /\ says # "broken"
    PROVE  VisitRequest(r)' /\ AloneRight(r)'
<1>1. /\ pc'[r] = "answer" /\ seen'[r].says = says /\ seen'[r].cookies = sent
      /\ seen'[r].form = f
  BY GoesOnAlone DEF VisitRight
<1>2. ClickRight(job[r])
  BY DEF VisitRight, VisitRequest
<1>3. Sets(seen[r].cookies)'
  BY <1>1 DEF Sets
<1>4. VisitRequest(r)'
  BY <1>1, <1>2, <1>3 DEF VisitRequest, ClickRight, FormRight, WithJar
<1>5. r \notin crossed => \A q \in Requests \ {r} : pc'[q] = "idle"
  BY DEF VisitRight, AloneRight, Alone
<1>6. AloneRight(r)'
  BY <1>1, <1>5 DEF AloneRight, Fits, AreaAfter, BasketAfter, Live, WithJar
<1> QED BY <1>4, <1>6

\* What every action of a served request has in common.
Serving(r, kind, step) == VisitRight /\ At(r, kind, step) /\ UNCHANGED <<deviceRows, staffSide>>

LEMMA WhoIsServed ==
    ASSUME NEW r \in Requests, NEW kind, NEW step \in WithJar \cup {"item"}, Serving(r, kind, step)
    PROVE  /\ VisitRight /\ ShopTables /\ pc[r] = step /\ pc[r] # "idle" /\ job[r].kind = kind
           /\ UNCHANGED <<deviceRows, staffSide>>
           /\ jar' = jar /\ crossed' = crossed /\ apart' = apart
           /\ reached' = reached /\ shopper' = shopper
           /\ VisitRequest(r) /\ AloneRight(r)
BY DEF Serving, At, VisitRight, WithJar, deviceRows, staffSide

\* A request that only answers.
LEMMA OnlySays ==
    ASSUME NEW r \in Requests, NEW kind, NEW step \in WithJar \cup {"item"}, Serving(r, kind, step),
           NEW says, NEW sent, Says(r, says, sent), says # "form", Sets(sent),
           says = "unserviceable" => sent = SetsArea(Nothing),
           r \notin crossed /\ (~apart \/ kind = "choose") =>
               Fits(AreaAfter(sent), BasketAfter(sent)) /\ says # "broken"
    PROVE  VisitRight'
<1>1. /\ VisitRight /\ ShopTables /\ pc[r] # "idle" /\ job[r].kind = kind
      /\ UNCHANGED <<deviceRows, staffSide>>
      /\ jar' = jar /\ crossed' = crossed /\ apart' = apart
  BY WhoIsServed
<1>2. /\ GoesOn(r, "answer", [says |-> says, cookies |-> sent, form |-> Nothing])
      /\ UNCHANGED <<basket, bought>>
  BY DEF Says, Answer
<1>3. /\ Alone(r) /\ job'[r] = job[r] /\ pc'[r] # "idle"
  BY <1>1, <1>2, GoesOnAlone
<1>4. Sets(sent)'
  BY <1>2 DEF Sets
<1>5. r \notin crossed /\ (~apart \/ job[r].kind = "choose") =>
        Fits(AreaAfter(sent), BasketAfter(sent))' /\ says # "broken"
  BY <1>1, <1>2 DEF Fits, AreaAfter, BasketAfter, Live
<1>6. VisitRequest(r)' /\ AloneRight(r)'
  BY <1>1, <1>2, <1>3, <1>4, <1>5, AnswerIsRight
<1> QED BY <1>1, <1>2, <1>3, <1>6, VisitRead

\* A request that goes on with what it read.
LEMMA OnlyReads ==
    ASSUME NEW r \in Requests, NEW kind, NEW step \in WithJar, Serving(r, kind, step),
           NEW next \in WithJar, NEW read, Goes(r, next, read), read.jar = seen[r].jar,
           next \in {"rebuild", "place"} => read.jar.basket # Nothing,
           next \in {"ensure", "view"} =>
               read.jar.area \in Places /\ read.shop = ShopFor[read.jar.area],
           next = "place" => read.shop = ShopFor[job[r].form.area]
    PROVE  VisitRight'
<1>1. /\ VisitRight /\ ShopTables /\ pc[r] = step /\ pc[r] # "idle" /\ job[r].kind = kind
      /\ UNCHANGED <<deviceRows, staffSide>>
      /\ jar' = jar /\ crossed' = crossed /\ apart' = apart
      /\ VisitRequest(r) /\ AloneRight(r)
  BY WhoIsServed
<1>2. GoesOn(r, next, read) /\ UNCHANGED <<basket, bought>>
  BY DEF Goes
<1>3. Alone(r) /\ job'[r] = job[r] /\ pc'[r] = next /\ seen'[r] = read
  BY <1>1, <1>2, GoesOnAlone
<1>4. Carried(seen[r].jar)
  BY <1>1 DEF VisitRequest
<1>5. Carried(seen[r].jar)'
  BY <1>2, <1>3, <1>4 DEF Carried
<1>6. VisitRequest(r)'
  BY <1>1, <1>3, <1>5 DEF VisitRequest, ClickRight, FormRight, WithJar
<1>7. AloneRight(r)'
  BY <1>1, <1>2, <1>3 DEF AloneRight, Alone, Fits, Live, WithJar
<1> QED BY <1>1, <1>2, <1>3, <1>6, <1>7, VisitRead DEF WithJar

LEMMA AnswersFit ==
    ASSUME NEW r \in Requests, NEW kind, NEW step \in WithJar, Serving(r, kind, step)
    PROVE  /\ Sets(NoCookies) /\ \A a \in Places \cup {Nothing} : Sets(SetsArea(a))
           /\ r \notin crossed => seen[r].jar = jar
           /\ r \notin crossed /\ ~apart => Fits(jar.area, jar.basket)
           /\ r \notin crossed /\ ~apart =>
                  Fits(AreaAfter(NoCookies), BasketAfter(NoCookies))
           /\ Fits(AreaAfter(SetsArea(Nothing)), BasketAfter(SetsArea(Nothing)))
           /\ Carried(seen[r].jar) /\ ClickRight(job[r])
<1>1. /\ VisitRight /\ pc[r] = step /\ pc[r] # "idle" /\ VisitRequest(r) /\ AloneRight(r)
  BY WhoIsServed
<1>2. /\ r \notin crossed => seen[r].jar = jar
      /\ r \notin crossed /\ ~apart => Fits(jar.area, jar.basket)
  BY <1>1 DEF AloneRight
<1>3. /\ r \notin crossed /\ ~apart =>
             Fits(AreaAfter(NoCookies), BasketAfter(NoCookies))
      /\ Fits(AreaAfter(SetsArea(Nothing)), BasketAfter(SetsArea(Nothing)))
  BY <1>2, SetsWhat DEF Fits
<1>4. Sets(NoCookies) /\ \A a \in Places \cup {Nothing} : Sets(SetsArea(a))
  BY DEF Sets
<1>5. Carried(seen[r].jar) /\ ClickRight(job[r])
  BY <1>1 DEF VisitRequest
<1> QED BY <1>2, <1>3, <1>4, <1>5

LEMMA ContextIsServed ==
    ASSUME NEW r \in Requests, Carried(seen[r].jar), VisitTypes, Context(seen[r].jar) # Nothing
    PROVE  seen[r].jar.area \in Places /\ Context(seen[r].jar) = ShopFor[seen[r].jar.area]
BY DEF Carried, VisitTypes, Context

LEMMA VisitReads ==
    ASSUME VisitRight, NEW r \in Requests, UNCHANGED <<deviceRows, staffSide>>,
           \/ ChooseResolve(r) \/ Forget(r) \/ ReadContext(r) \/ ReadCheckoutContext(r)
           \/ PlaceResolve(r)
    PROVE  VisitRight'
<1> USE DEF WithJar
<1>0. VisitTypes
  BY DEF VisitRight
<1>1. CASE ChooseResolve(r)
  <2>1. Serving(r, "choose", "arrived") /\ job[r].kind = "choose"
    BY <1>1 DEF ChooseResolve, Serving, At
  <2>2. job[r].area \in Places
    BY <2>1, AnswersFit DEF ClickRight
  <2>3. CASE job[r].area \notin reached
    BY <1>1, <2>1, <2>3, AnswersFit, OnlySays DEF ChooseResolve
  <2>4. CASE job[r].area \in reached /\ seen[r].jar.basket = Nothing
    <3>1. r \notin crossed => Fits(AreaAfter(SetsArea(job[r].area)),
                                   BasketAfter(SetsArea(job[r].area)))
      BY <2>1, <2>4, AnswersFit, SetsWhat DEF Fits, Live
    <3>2. Says(r, "chosen", SetsArea(job[r].area)) /\ Sets(SetsArea(job[r].area))
      BY <1>1, <2>1, <2>2, <2>4, AnswersFit DEF ChooseResolve
    <3> QED BY <2>1, <3>1, <3>2, OnlySays
  <2>5. CASE job[r].area \in reached /\ seen[r].jar.basket # Nothing
    <3>1. Goes(r, "rebuild", seen[r])
      BY <1>1, <2>5 DEF ChooseResolve
    <3> QED BY <2>1, <2>5, <3>1, OnlyReads
  <2> QED BY <2>3, <2>4, <2>5
<1>2. CASE Forget(r)
  <2>1. Serving(r, "forget", "arrived") /\ Says(r, "picker", SetsArea(Nothing))
    BY <1>2 DEF Forget, Serving
  <2> QED BY <2>1, AnswersFit, OnlySays
<1>3. CASE ReadContext(r)
  <2>1. Serving(r, "add", "arrived")
    BY <1>3 DEF ReadContext, Serving
  <2>2. CASE Context(seen[r].jar) = Nothing
    BY <1>3, <2>1, <2>2, AnswersFit, OnlySays DEF ReadContext
  <2>3. CASE Context(seen[r].jar) # Nothing
    <3>1. Goes(r, "ensure", [jar |-> seen[r].jar, shop |-> Context(seen[r].jar)])
      BY <1>3, <2>3 DEF ReadContext
    <3>2. seen[r].jar.area \in Places /\ Context(seen[r].jar) = ShopFor[seen[r].jar.area]
      BY <1>0, <2>1, <2>3, AnswersFit, ContextIsServed
    <3> QED BY <2>1, <3>1, <3>2, OnlyReads
  <2> QED BY <2>2, <2>3
<1>4. CASE ReadCheckoutContext(r)
  <2>1. Serving(r, "checkout", "arrived")
    BY <1>4 DEF ReadCheckoutContext, Serving
  <2>2. CASE Context(seen[r].jar) = Nothing
    BY <1>4, <2>1, <2>2, AnswersFit, OnlySays DEF ReadCheckoutContext
  <2>3. CASE Context(seen[r].jar) # Nothing
    <3>1. Goes(r, "view", [jar |-> seen[r].jar, shop |-> Context(seen[r].jar)])
      BY <1>4, <2>3 DEF ReadCheckoutContext
    <3>2. seen[r].jar.area \in Places /\ Context(seen[r].jar) = ShopFor[seen[r].jar.area]
      BY <1>0, <2>1, <2>3, AnswersFit, ContextIsServed
    <3> QED BY <2>1, <3>1, <3>2, OnlyReads
  <2> QED BY <2>2, <2>3
<1>5. CASE PlaceResolve(r)
  <2>1. Serving(r, "place", "arrived") /\ job[r].kind = "place"
    BY <1>5 DEF PlaceResolve, Serving, At
  <2>2. CASE seen[r].jar.basket = Nothing \/ job[r].form.area \notin reached
    BY <1>5, <2>1, <2>2, AnswersFit, OnlySays DEF PlaceResolve
  <2>3. CASE ~(seen[r].jar.basket = Nothing \/ job[r].form.area \notin reached)
    <3>1. Goes(r, "place", [jar |-> seen[r].jar, shop |-> ShopFor[job[r].form.area]])
      BY <1>5, <2>3 DEF PlaceResolve
    <3> QED BY <2>1, <2>3, <3>1, OnlyReads
  <2> QED BY <2>2, <2>3
<1> QED BY <1>1, <1>2, <1>3, <1>4, <1>5

\* A basket that is rebuilt moves to the shop of the area that was chosen.
LEMMA VisitRebuilds ==
    ASSUME VisitRight, NEW r \in Requests, UNCHANGED <<deviceRows, staffSide>>, Rebuild(r)
    PROVE  VisitRight'
<1> USE DEF WithJar
<1> DEFINE t == seen[r].jar.basket
           sent == SetsArea(job[r].area)
<1>1. Serving(r, "choose", "rebuild") /\ job[r].kind = "choose"
  BY DEF Rebuild, Serving, At
<1>2. /\ ShopTables /\ pc[r] # "idle" /\ pc[r] = "rebuild" /\ VisitRequest(r)
      /\ jar' = jar /\ crossed' = crossed /\ apart' = apart
  BY <1>1, WhoIsServed
<1>3. job[r].area \in Places /\ t # Nothing /\ t \in Baskets /\ basket[t] # Nothing
  BY <1>1, <1>2, AnswersFit DEF ClickRight, VisitRequest, Carried
<1>4. r \notin crossed => AreaAfter(sent) = job[r].area /\ BasketAfter(sent) = t
  BY <1>1, AnswersFit, SetsWhat
<1>5. Sets(sent)
  BY <1>3 DEF Sets
<1>6. CASE ~Live(t)
  <2>1. Says(r, "refused", sent)
    BY <1>6 DEF Rebuild
  <2>2. r \notin crossed => Fits(AreaAfter(sent), BasketAfter(sent))
    BY <1>4, <1>6 DEF Fits
  <2> QED BY <1>1, <1>5, <2>1, <2>2, OnlySays
<1>7. CASE Live(t)
  <2>1. /\ basket' = [basket EXCEPT ![t].shop = ShopFor[job[r].area]]
        /\ GoesOn(r, "answer", [says |-> "chosen", cookies |-> sent, form |-> Nothing])
        /\ bought' = bought
    BY <1>7 DEF Rebuild, Answer
  <2> DEFINE moved == [basket[t] EXCEPT !.shop = ShopFor[job[r].area]]
  <2>2. basket[t] \in Cart /\ ShopFor[job[r].area] \in Stores
    BY <1>3, ShopVisitConstants DEF VisitRight, VisitTypes
  <2>3. /\ moved \in Cart /\ moved # Nothing /\ moved.shop = ShopFor[job[r].area]
        /\ moved.status = basket[t].status
    BY <2>2, ShopVisitConstants DEF Cart
  <2>4. basket' = [basket EXCEPT ![t] = moved]
    BY <2>1
  <2> HIDE DEF moved
  <2>5. /\ basket' \in [Baskets -> Cart \cup {Nothing}] /\ basket'[t] = moved
        /\ \A b \in Baskets : b # t => basket'[b] = basket[b]
    BY <1>3, <2>3, <2>4 DEF VisitRight, VisitTypes
  <2>6. Forward
    BY <2>3, <2>5 DEF Forward
  <2>7. Alone(r) /\ job'[r] = job[r] /\ pc'[r] = "answer"
    BY <1>2, <2>1, GoesOnAlone
  <2>8. Sets(sent)'
    BY <1>2, <1>3, <2>7 DEF Sets
  <2>9. r \notin crossed => Fits(AreaAfter(sent), BasketAfter(sent))'
    <3>1. r \notin crossed => AreaAfter(sent)' = job[r].area /\ BasketAfter(sent)' = t
      BY <1>2, <1>4, <2>7 DEF AreaAfter, BasketAfter, SetsArea
    <3>2. basket'[t].shop = ShopFor[job[r].area]
      BY <2>3, <2>5
    <3> QED BY <3>1, <3>2 DEF Fits
  <2>10. VisitRequest(r)' /\ AloneRight(r)'
    <3>1. sent' = sent
      BY <2>7
    <3> HIDE DEF sent
    <3> QED BY <1>2, <2>1, <2>7, <2>8, <2>9, <3>1, AnswerIsRight
  <2>11. SalesRight'
    BY <2>1, <2>6, SalesStay DEF VisitRight
  <2> QED BY <1>2, <2>5, <2>6, <2>7, <2>10, <2>11, VisitServed
<1> QED BY <1>6, <1>7

\* The customer's other baskets are put aside, and stay where they are.
LEMMA OthersPutAside ==
    ASSUME VisitTypes, NEW kept
    PROVE  LET carts == AbandonOthers(basket, kept) IN
             /\ carts \in [Baskets -> Cart \cup {Nothing}]
             /\ \A b \in Baskets :
                  /\ basket[b] = Nothing => carts[b] = Nothing
                  /\ basket[b] # Nothing =>
                       /\ carts[b] # Nothing /\ carts[b].shop = basket[b].shop
                       /\ carts[b].status = "ACTIVE" => basket[b].status = "ACTIVE"
                  /\ b = kept => carts[b] = basket[b]
<1> DEFINE carts == AbandonOthers(basket, kept)
           gone(b) == [basket[b] EXCEPT !.status = "ABANDONED"]
<1>1. ASSUME NEW b \in Baskets, basket[b] # Nothing
      PROVE  /\ basket[b] \in Cart /\ gone(b) \in Cart /\ gone(b) # Nothing
             /\ gone(b).shop = basket[b].shop /\ gone(b).status = "ABANDONED"
  <2>1. basket[b] \in Cart
    BY <1>1 DEF VisitTypes
  <2>2. gone(b) \in Cart /\ gone(b).shop = basket[b].shop /\ gone(b).status = "ABANDONED"
    BY <2>1 DEF Cart
  <2> QED BY <2>1, <2>2, ShopVisitConstants
<1>2. /\ DOMAIN carts = Baskets
      /\ carts = [b \in Baskets |-> carts[b]]
      /\ \A b \in Baskets :
           \/ carts[b] = basket[b]
           \/ b # kept /\ basket[b] # Nothing /\ carts[b] = gone(b)
  BY DEF AbandonOthers
<1> HIDE DEF carts, gone
<1>3. \A b \in Baskets : carts[b] \in Cart \cup {Nothing}
  BY <1>1, <1>2 DEF VisitTypes
<1>4. carts \in [Baskets -> Cart \cup {Nothing}]
  BY <1>2, <1>3
<1>5. \A b \in Baskets :
        /\ basket[b] = Nothing => carts[b] = Nothing
        /\ basket[b] # Nothing =>
             /\ carts[b] # Nothing /\ carts[b].shop = basket[b].shop
             /\ carts[b].status = "ACTIVE" => basket[b].status = "ACTIVE"
        /\ b = kept => carts[b] = basket[b]
  BY <1>1, <1>2
<1> QED BY <1>4, <1>5 DEF carts

LEMMA VisitEnsures ==
    ASSUME VisitRight, NEW r \in Requests, UNCHANGED <<deviceRows, staffSide>>, Ensure(r)
    PROVE  VisitRight'
<1> USE DEF WithJar
<1> DEFINE t == seen[r].jar.basket
<1>1. Serving(r, "add", "ensure")
  BY DEF Ensure, Serving
<1>2. /\ ShopTables /\ pc[r] = "ensure" /\ pc[r] # "idle" /\ VisitRequest(r) /\ AloneRight(r)
      /\ jar' = jar /\ crossed' = crossed /\ apart' = apart /\ VisitTypes
  BY <1>1, WhoIsServed DEF VisitRight
<1>3. /\ Carried(seen[r].jar) /\ ClickRight(job[r])
      /\ seen[r].jar.area \in Places /\ seen[r].shop = ShopFor[seen[r].jar.area]
      /\ t \in Baskets \cup {Nothing}
      /\ t # Nothing => basket[t] # Nothing
  BY <1>2 DEF VisitRequest, Carried
<1>4. seen[r].shop \in Stores
  BY <1>3, ShopVisitConstants
<1>5. PICK b, sent :
        /\ b \in Baskets
        /\ GoesOn(r, "item", [cart |-> b, shop |-> seen[r].shop, cookies |-> sent])
        /\ basket' \in [Baskets -> Cart \cup {Nothing}] /\ Forward /\ basket'[b] # Nothing
        /\ \/ SameShops /\ sent = NoCookies
           \/ basket'[b].shop = seen[r].shop /\ sent = SetsBasket(b)
  <2>1. CASE Live(t)
    <3>1. /\ t \in Baskets /\ basket[t] # Nothing
          /\ GoesOn(r, "item", [cart |-> t, shop |-> seen[r].shop, cookies |-> NoCookies])
      <4>1. t # Nothing
        BY <2>1 DEF Live
      <4> QED BY <1>3, <2>1, <4>1 DEF Ensure
    <3>2. CASE basket' = basket
      BY <1>2, <3>1, <3>2 DEF VisitTypes, Forward, SameShops
    <3>3. CASE basket' = [AbandonOthers(basket, t) EXCEPT ![t].owned = TRUE]
      <4> DEFINE carts == AbandonOthers(basket, t)
                 row == [basket[t] EXCEPT !.owned = TRUE]
      <4>1. /\ carts \in [Baskets -> Cart \cup {Nothing}] /\ carts[t] = basket[t]
            /\ \A c \in Baskets :
                 basket[c] # Nothing =>
                     /\ carts[c] # Nothing /\ carts[c].shop = basket[c].shop
                     /\ carts[c].status = "ACTIVE" => basket[c].status = "ACTIVE"
        BY <1>2, <3>1, OthersPutAside
      <4>2. row \in Cart /\ row # Nothing /\ row.shop = basket[t].shop /\ row.status = basket[t].status
        <5>1. basket[t] \in Cart
          BY <1>2, <3>1 DEF VisitTypes
        <5>2. row \in Cart /\ row.shop = basket[t].shop /\ row.status = basket[t].status
          BY <5>1 DEF Cart
        <5> QED BY <5>2, ShopVisitConstants
      <4>3. basket' = [carts EXCEPT ![t] = row]
        BY <3>3, <4>1
      <4> HIDE DEF carts, row
      <4>4. /\ basket' \in [Baskets -> Cart \cup {Nothing}] /\ basket'[t] = row
            /\ \A c \in Baskets : c # t => basket'[c] = carts[c]
        BY <3>1, <4>1, <4>2, <4>3
      <4>5. Forward /\ SameShops
        BY <4>1, <4>2, <4>4 DEF Forward, SameShops
      <4> QED BY <3>1, <4>2, <4>4, <4>5
    <3> QED BY <2>1, <3>2, <3>3 DEF Ensure
  <2>2. CASE ~Live(t)
    <3> DEFINE row == [shop |-> seen[r].shop, status |-> "ACTIVE", owned |-> shopper.member]
    <3>1. PICK b \in Baskets :
            /\ basket[b] = Nothing
            /\ basket' = [AbandonOthers(basket, b) EXCEPT ![b] = row]
            /\ GoesOn(r, "item", [cart |-> b, shop |-> seen[r].shop, cookies |-> SetsBasket(b)])
      BY <2>2 DEF Ensure
    <3>2. row \in Cart /\ row # Nothing /\ row.shop = seen[r].shop
      <4>1. shopper.member \in BOOLEAN
        BY ShopVisitConstants DEF VisitRight, Session
      <4>2. row \in Cart
        BY <1>4, <4>1 DEF Cart
      <4> QED BY <4>2, ShopVisitConstants
    <3> HIDE DEF row
    <3> DEFINE carts == AbandonOthers(basket, b)
    <3>3. /\ carts \in [Baskets -> Cart \cup {Nothing}]
          /\ \A c \in Baskets :
               basket[c] # Nothing =>
                   carts[c] # Nothing /\ (carts[c].status = "ACTIVE" => basket[c].status = "ACTIVE")
      BY <1>2, OthersPutAside
    <3>4. basket' = [carts EXCEPT ![b] = row]
      BY <3>1
    <3> HIDE DEF carts
    <3>5. /\ basket' \in [Baskets -> Cart \cup {Nothing}] /\ basket'[b] = row
          /\ \A c \in Baskets : c # b => basket'[c] = carts[c]
      BY <3>2, <3>3, <3>4
    <3>6. Forward
      BY <3>1, <3>3, <3>5 DEF Forward
    <3> QED BY <3>1, <3>2, <3>5, <3>6
  <2> QED BY <2>1, <2>2
<1>6. /\ Alone(r) /\ job'[r] = job[r] /\ pc'[r] = "item" /\ bought' = bought
      /\ seen'[r].cookies = sent
  BY <1>2, <1>5, GoesOnAlone DEF Ensure
<1>7. Sets(seen[r].cookies)'
  BY <1>5, <1>6 DEF Sets
<1>8. VisitRequest(r)'
  BY <1>3, <1>6, <1>7 DEF VisitRequest, ClickRight, FormRight
<1>9. ASSUME r \notin crossed, ~apart
      PROVE  Fits(AreaAfter(sent), BasketAfter(sent))'
  <2>1. seen[r].jar = jar /\ Fits(jar.area, jar.basket) /\ jar.basket = t
    BY <1>1, <1>9, AnswersFit
  <2>2. CASE SameShops /\ sent = NoCookies
    <3>1. Fits(jar.area, jar.basket)'
      BY <1>2, <1>3, <1>5, <2>1, <2>2, FitsStay DEF Fits, Live
    <3> QED BY <1>2, <2>2, <3>1 DEF Fits, AreaAfter, BasketAfter, NoCookies
  <2>3. CASE basket'[b].shop = seen[r].shop /\ sent = SetsBasket(b)
    BY <1>2, <1>3, <2>1, <2>3 DEF Fits, AreaAfter, BasketAfter, SetsBasket
  <2> QED BY <1>5, <2>2, <2>3
<1>10. AloneRight(r)'
  <2>1. Fits(AreaAfter(seen[r].cookies), BasketAfter(seen[r].cookies))' <=>
            Fits(AreaAfter(sent), BasketAfter(sent))'
    BY <1>6 DEF Fits, AreaAfter, BasketAfter, Live
  <2>2. r \notin crossed => \A q \in Requests \ {r} : pc'[q] = "idle"
    BY <1>2, <1>6 DEF AloneRight, Alone
  <2> QED BY <1>2, <1>6, <1>9, <2>1, <2>2 DEF AloneRight
<1>11. SalesRight'
  BY <1>5, <1>6, SalesStay DEF VisitRight
<1> QED BY <1>2, <1>5, <1>6, <1>8, <1>10, <1>11, VisitServed

LEMMA VisitAdds ==
    ASSUME VisitRight, NEW r \in Requests, UNCHANGED <<deviceRows, staffSide>>, AddItem(r)
    PROVE  VisitRight'
<1>1. Serving(r, "add", "item")
  BY DEF AddItem, Serving
<1>2. pc[r] = "item" /\ VisitRequest(r) /\ AloneRight(r)
  BY <1>1, WhoIsServed
<1>3. /\ Sets(seen[r].cookies)
      /\ r \notin crossed /\ ~apart =>
           Fits(AreaAfter(seen[r].cookies), BasketAfter(seen[r].cookies))
  BY <1>2 DEF VisitRequest, AloneRight
<1>4. PICK says \in {"added", "refused"} : Says(r, says, seen[r].cookies)
  BY DEF AddItem
<1> QED BY <1>1, <1>3, <1>4, OnlySays

\* The checkout page: it names the community of the context, and its shop.
LEMMA VisitShowsCheckout ==
    ASSUME VisitRight, NEW r \in Requests, UNCHANGED <<deviceRows, staffSide>>, ShowCheckout(r)
    PROVE  VisitRight'
<1> USE DEF WithJar
<1> DEFINE t == seen[r].jar.basket
           placed == [area |-> IF shopper.home # Nothing THEN shopper.home ELSE seen[r].jar.area,
                      shows |-> seen[r].shop, saved |-> shopper.home # Nothing]
<1>1. Serving(r, "checkout", "view")
  BY DEF ShowCheckout, Serving
<1>2. /\ ShopTables /\ pc[r] = "view" /\ pc[r] # "idle" /\ VisitRequest(r)
      /\ job[r].kind = "checkout"
      /\ jar' = jar /\ crossed' = crossed /\ apart' = apart
  BY <1>1, WhoIsServed
<1>3. seen[r].jar.area \in Places /\ seen[r].shop = ShopFor[seen[r].jar.area]
  BY <1>2 DEF VisitRequest
<1>4. basket' = basket /\ bought' = bought
  BY DEF ShowCheckout
<1>5. CASE \E says \in {"empty", "broken", "blocked"} :
             /\ Answer(r, says, NoCookies)
             /\ says = "broken" => Live(t) /\ basket[t].shop # seen[r].shop
  <2>1. PICK says \in {"empty", "broken", "blocked"} :
          /\ Answer(r, says, NoCookies)
          /\ says = "broken" => Live(t) /\ basket[t].shop # seen[r].shop
    BY <1>5
  <2>2. Says(r, says, NoCookies)
    BY <1>4, <2>1 DEF Says
  <2>3. r \notin crossed /\ ~apart => says # "broken"
    BY <1>1, <1>3, <2>1, AnswersFit, ShopVisitConstants DEF Fits
  <2> QED BY <1>1, <2>2, <2>3, AnswersFit, OnlySays
<1>6. CASE GoesOn(r, "answer", [says |-> "form", cookies |-> NoCookies, form |-> placed])
  <2>1. /\ shopper.home \in Places \cup {Nothing}
        /\ seen[r].shop \in Stores
    BY <1>3, ShopVisitConstants DEF VisitRight, Session
  <2>2. FormRight(placed)
    BY <1>3, <2>1 DEF FormRight, Form
  <2> HIDE DEF placed
  <2>3. Alone(r) /\ job'[r] = job[r] /\ pc'[r] # "idle"
    BY <1>2, <1>6, GoesOnAlone
  <2>4. Sets(NoCookies)'
    BY DEF Sets
  <2>5. r \notin crossed /\ (~apart \/ job[r].kind = "choose") =>
          Fits(AreaAfter(NoCookies), BasketAfter(NoCookies))' /\ "form" # "broken"
    <3>1. r \notin crossed /\ ~apart => Fits(AreaAfter(NoCookies), BasketAfter(NoCookies))
      BY <1>1, AnswersFit
    <3> QED BY <1>2, <1>4, <3>1 DEF Fits, AreaAfter, BasketAfter, Live
  <2>6. VisitRequest(r)' /\ AloneRight(r)'
    BY <1>2, <1>6, <2>2, <2>3, <2>4, <2>5, AnswerIsRight
  <2> QED BY <1>2, <1>4, <2>3, <2>6, VisitRead
<1> QED BY <1>5, <1>6 DEF ShowCheckout

\* An order is of a basket that is active, and ends it.
LEMMA VisitPlaces ==
    ASSUME VisitRight, NEW r \in Requests, UNCHANGED <<deviceRows, staffSide>>, Place(r)
    PROVE  VisitRight'
<1> USE DEF WithJar
<1> DEFINE t == seen[r].jar.basket
           sale == [shop |-> seen[r].shop, basket |-> t, form |-> job[r].form]
<1>1. Serving(r, "place", "place") /\ job[r].kind = "place"
  BY DEF Place, Serving, At
<1>2. /\ ShopTables /\ pc[r] = "place" /\ pc[r] # "idle" /\ VisitRequest(r)
      /\ jar' = jar /\ crossed' = crossed /\ apart' = apart
  BY <1>1, WhoIsServed
<1>3. /\ Carried(seen[r].jar) /\ t # Nothing /\ FormRight(job[r].form)
      /\ seen[r].shop = ShopFor[job[r].form.area]
  BY <1>1, <1>2 DEF VisitRequest, ClickRight
<1>4. t \in Baskets /\ basket[t] # Nothing
  BY <1>3 DEF Carried
<1>5. CASE Says(r, "declined", NoCookies)
  BY <1>1, <1>5, AnswersFit, OnlySays
<1>6. CASE /\ Live(t) /\ basket[t].shop = seen[r].shop
           /\ basket' = [basket EXCEPT ![t].status = "CONVERTED"]
           /\ bought' = bought \cup {sale}
           /\ Answer(r, "placed", NoCookies)
  <2> DEFINE row == [basket[t] EXCEPT !.status = "CONVERTED"]
  <2>1. basket[t] \in Cart
    BY <1>4 DEF VisitRight, VisitTypes
  <2>2. row \in Cart /\ row.status = "CONVERTED"
    BY <2>1 DEF Cart
  <2>3. row # Nothing
    BY <2>2, ShopVisitConstants
  <2>4. basket' = [basket EXCEPT ![t] = row]
    BY <1>6
  <2> HIDE DEF row
  <2>5. /\ basket' \in [Baskets -> Cart \cup {Nothing}] /\ basket'[t] = row
        /\ \A b \in Baskets : b # t => basket'[b] = basket[b]
    BY <1>4, <2>2, <2>4 DEF VisitRight, VisitTypes
  <2>6. Forward /\ SameShops
    BY <2>2, <2>3, <2>5 DEF Forward, SameShops
  <2>7. GoesOn(r, "answer", [says |-> "placed", cookies |-> NoCookies, form |-> Nothing])
    BY <1>6 DEF Answer
  <2>8. Alone(r) /\ job'[r] = job[r] /\ pc'[r] # "idle"
    BY <1>2, <2>7, GoesOnAlone
  <2>9. Sets(NoCookies)'
    BY DEF Sets
  <2>10. r \notin crossed /\ (~apart \/ job[r].kind = "choose") =>
           Fits(AreaAfter(NoCookies), BasketAfter(NoCookies))' /\ "placed" # "broken"
    <3>1. r \notin crossed => jar.basket = t
      BY <1>1, AnswersFit
    <3>2. basket'[t].status # "ACTIVE"
      BY <2>2, <2>5
    <3> QED BY <1>2, <3>1, <3>2 DEF Fits, AreaAfter, BasketAfter, NoCookies, Live
  <2>11. VisitRequest(r)' /\ AloneRight(r)'
    BY <1>2, <2>7, <2>8, <2>9, <2>10, AnswerIsRight
  <2>12. SalesRight'
    <3>1. SalesRight
      BY DEF VisitRight
    <3>2. \A o \in bought : o.basket \in Baskets /\ basket[o.basket] # Nothing /\ o.basket # t
      BY <1>6, <3>1 DEF SalesRight
    <3>3. sale.basket = t /\ sale.shop = ShopFor[sale.form.area]
          /\ (~sale.form.saved => sale.shop = sale.form.shows)
      BY <1>3 DEF FormRight
    <3> HIDE DEF sale, t
    <3>4. bought' = bought \cup {sale}
      BY <1>6
    <3>5. BuysWhereTheFormSays' /\ SoldOnce'
      BY <3>1, <3>2, <3>3, <3>4 DEF SalesRight, BuysWhereTheFormSays, SoldOnce
    <3>6. ASSUME NEW o \in bought'
          PROVE  o.basket \in Baskets /\ basket'[o.basket] # Nothing /\ ~Live(o.basket)'
      <4>1. CASE o \in bought
        BY <2>5, <3>1, <3>2, <4>1 DEF SalesRight, Live
      <4>2. CASE o = sale
        BY <1>4, <2>2, <2>3, <2>5, <3>3, <4>2 DEF Live
      <4> QED BY <3>4, <4>1, <4>2
    <3> QED BY <3>5, <3>6 DEF SalesRight, Live
  <2> QED BY <1>2, <2>5, <2>6, <2>8, <2>11, <2>12, VisitServed
<1> QED BY <1>5, <1>6 DEF Place

\* The cookies of an answer name a basket there is.
LEMMA JarAfterIsRight ==
    ASSUME VisitTypes, NEW sent, Sets(sent)
    PROVE  /\ AreaAfter(sent) \in Places \cup {Nothing}
           /\ BasketAfter(sent) \in Baskets \cup {Nothing}
           /\ BasketAfter(sent) # Nothing => basket[BasketAfter(sent)] # Nothing
<1>1. /\ jar.area \in Places \cup {Nothing} /\ jar.basket \in Baskets \cup {Nothing}
      /\ jar.basket # Nothing => basket[jar.basket] # Nothing
  BY DEF VisitTypes
<1>2. CASE sent = NoCookies
  BY <1>1, <1>2, SetsWhat
<1> QED BY <1>1, <1>2, SetsWhat DEF Sets

LEMMA VisitSends ==
    ASSUME VisitRight, NEW r \in Requests, Send(r)
    PROVE  VisitRight'
<1> DEFINE others == {q \in Requests : pc[q] # "idle"}
<1>1. /\ jar' = jar /\ basket' = basket /\ form' = form /\ shown' = shown /\ bought' = bought
      /\ apart' = apart /\ reached' = reached /\ shopper' = shopper /\ ShopTables
      /\ crossed' = crossed \cup (IF others = {} THEN {} ELSE others \cup {r})
  BY DEF Send, staffSide, VisitRight
<1>2. PICK j \in Clicks : Starts(r, shopper, j, "arrived", [jar |-> jar])
  BY DEF Send
<1>3. /\ Alone(r) /\ pc[r] = "idle" /\ pc'[r] = "arrived" /\ job'[r] = j
      /\ seen'[r] = [jar |-> jar]
  BY <1>1, <1>2, StartsAlone
<1>4. ClickRight(j)
  BY DEF Clicks, ClickRight, VisitRight, DeviceRight
<1>5. Forward
  BY <1>1 DEF Forward
<1>6. VisitRequest(r)'
  <2>1. Carried(jar)
    BY DEF VisitRight, VisitTypes, Carried
  <2>2. Carried(seen[r].jar)'
    BY <1>1, <1>3, <2>1 DEF Carried
  <2> QED BY <1>3, <1>4, <2>2 DEF VisitRequest, ClickRight, FormRight, WithJar
<1>7. AloneRight(r)'
  <2> SUFFICES ASSUME r \notin crossed'
               PROVE  /\ \A q \in Requests \ {r} : pc'[q] = "idle"
                      /\ ~apart => Fits(jar.area, jar.basket)'
    BY <1>1, <1>3 DEF AloneRight, WithJar, Fits, Live
  <2>1. others = {}
    BY <1>1
  <2>2. ~apart => Fits(jar.area, jar.basket)
    BY <2>1 DEF VisitRight, DeviceRight
  <2> QED BY <1>1, <1>3, <2>1, <2>2 DEF Alone, Fits, Live
<1>8. \A q \in Requests \ {r} : pc[q] # "idle" => q \in crossed'
  BY <1>1
<1>9. \A q \in Requests : VisitRequest(q)' /\ AloneRight(q)'
  BY <1>3, <1>5, <1>6, <1>7, <1>8, OthersGoOn
<1>10. crossed' \subseteq {q \in Requests : pc'[q] # "idle"}
  BY <1>1, <1>3 DEF VisitRight, DeviceRight, Alone
<1>11. DeviceRight'
  BY <1>1, <1>3, <1>10 DEF VisitRight, DeviceRight, FormRight
<1>12. VisitTypes' /\ TurnedAwayHasNoShop'
  BY <1>1 DEF VisitRight, VisitTypes, TurnedAwayHasNoShop
<1>13. SalesRight'
  BY <1>1, <1>5, SalesStay DEF VisitRight
<1> QED BY <1>1, <1>3, <1>9, <1>11, <1>12, <1>13 DEF VisitRight, Alone

\* An answer is done with, whether it arrived or not.
LEMMA VisitEnds ==
    ASSUME VisitRight, NEW r \in Requests, Ends(r)
    PROVE  /\ Alone(r) /\ pc'[r] = "idle" /\ SalesRight'
           /\ basket' = basket /\ bought' = bought /\ reached' = reached
           /\ shopper' = shopper /\ crossed' = crossed \ {r}
           /\ crossed' \subseteq {q \in Requests : pc'[q] # "idle"}
           /\ \A q \in Requests : VisitRequest(q)' /\ AloneRight(q)'
<1>1. /\ basket' = basket /\ bought' = bought /\ reached' = reached /\ shopper' = shopper
      /\ crossed' = crossed \ {r} /\ pc[r] # "idle" /\ ShopTables
  BY DEF Ends, staffSide, VisitRight
<1>2. Alone(r) /\ pc'[r] = "idle"
  BY <1>1, AnsweredAlone DEF Ends
<1>3. Forward /\ SalesRight'
  BY <1>1, SalesStay DEF Forward, VisitRight
<1>4. VisitRequest(r)' /\ AloneRight(r)'
  BY <1>2 DEF VisitRequest, AloneRight, WithJar
<1>5. \A q \in Requests : VisitRequest(q)' /\ AloneRight(q)'
  BY <1>1, <1>2, <1>3, <1>4, OthersCrossed, OthersGoOn
<1>6. crossed' \subseteq {q \in Requests : pc'[q] # "idle"}
  BY <1>1, <1>2 DEF VisitRight, DeviceRight, Alone
<1> QED BY <1>1, <1>2, <1>3, <1>5, <1>6

LEMMA VisitDelivers ==
    ASSUME VisitRight, NEW r \in Requests, Deliver(r)
    PROVE  VisitRight'
<1> DEFINE sent == seen[r].cookies
<1>1. /\ Ends(r) /\ pc[r] = "answer" /\ VisitRequest(r) /\ AloneRight(r) /\ VisitTypes
      /\ shown' = seen[r].says
      /\ apart' = (r \in crossed \/ (apart /\ job[r].kind # "choose"))
  BY DEF Deliver, Ends, VisitRight
<1>2. /\ Alone(r) /\ pc'[r] = "idle" /\ SalesRight'
      /\ basket' = basket /\ reached' = reached /\ shopper' = shopper
      /\ crossed' \subseteq {q \in Requests : pc'[q] # "idle"}
      /\ \A q \in Requests : VisitRequest(q)' /\ AloneRight(q)'
  BY <1>1, VisitEnds
<1>3. /\ Sets(sent)
      /\ seen[r].says = "form" => FormRight(seen[r].form)
      /\ seen[r].says = "unserviceable" => sent = SetsArea(Nothing)
      /\ r \notin crossed /\ (~apart \/ job[r].kind = "choose") =>
           Fits(AreaAfter(sent), BasketAfter(sent)) /\ seen[r].says # "broken"
  BY <1>1 DEF VisitRequest, AloneRight
<1>4. /\ jar' = [c \in DOMAIN jar |-> IF c \in DOMAIN sent THEN sent[c] ELSE jar[c]]
      /\ DOMAIN jar = {"area", "basket"}
  BY <1>1 DEF Deliver, VisitTypes
<1> HIDE DEF sent
<1>5. /\ jar'.area = AreaAfter(sent) /\ jar'.basket = BasketAfter(sent)
      /\ jar' = [area |-> AreaAfter(sent), basket |-> BasketAfter(sent)]
  BY <1>4 DEF AreaAfter, BasketAfter
<1>6. /\ jar' \in [area : Places \cup {Nothing}, basket : Baskets \cup {Nothing}]
      /\ jar'.basket # Nothing => basket[jar'.basket] # Nothing
  BY <1>1, <1>3, <1>5, JarAfterIsRight
<1>7. form' = Nothing \/ FormRight(form')
  <2>1. form' = CASE seen[r].says = "form" -> seen[r].form
                  [] seen[r].says = "placed" -> Nothing
                  [] OTHER -> form
    BY DEF Deliver
  <2>2. form = Nothing \/ FormRight(form)
    BY DEF VisitRight, DeviceRight
  <2> QED BY <1>3, <2>1, <2>2
<1>8. VisitTypes'
  BY <1>1, <1>2, <1>6, <1>7 DEF VisitTypes, FormRight
<1>9. TurnedAwayHasNoShop'
  BY <1>1, <1>3, <1>5, SetsWhat DEF TurnedAwayHasNoShop
<1>10. ~apart' => r \notin crossed /\ (~apart \/ job[r].kind = "choose")
  BY <1>1
<1>11. ~apart' => Fits(jar.area, jar.basket)' /\ shown' # "broken"
  BY <1>1, <1>2, <1>3, <1>5, <1>10 DEF Fits, Live
<1>12. apart' \in BOOLEAN
  BY <1>1
<1>13. DeviceRight'
  BY <1>2, <1>6, <1>7, <1>11, <1>12 DEF DeviceRight, FormRight
<1> QED BY <1>2, <1>8, <1>9, <1>13 DEF VisitRight, Alone

LEMMA VisitLoses ==
    ASSUME VisitRight, NEW r \in Requests, Lose(r)
    PROVE  VisitRight'
<1>1. /\ Ends(r) /\ jar' = jar /\ form' = form /\ shown' = shown /\ apart' = TRUE
  BY DEF Lose
<1>2. /\ Alone(r) /\ pc'[r] = "idle" /\ SalesRight'
      /\ basket' = basket /\ reached' = reached /\ shopper' = shopper
      /\ crossed' \subseteq {q \in Requests : pc'[q] # "idle"}
      /\ \A q \in Requests : VisitRequest(q)' /\ AloneRight(q)'
  BY <1>1, VisitEnds
<1>3. VisitTypes' /\ TurnedAwayHasNoShop'
  BY <1>1, <1>2 DEF VisitRight, VisitTypes, TurnedAwayHasNoShop
<1>4. DeviceRight'
  BY <1>1, <1>2 DEF VisitRight, DeviceRight, FormRight
<1> QED BY <1>2, <1>3, <1>4 DEF VisitRight, Alone

\* Staff and the shopper's other devices.
LEMMA VisitTurns ==
    ASSUME VisitRight, UNCHANGED <<request, deviceRows, shopper, bought>>,
           basket' \in [Baskets -> Cart \cup {Nothing}], reached' \subseteq Places,
           Forward, SameShops
    PROVE  VisitRight'
<1>1. /\ pc' = pc /\ job' = job /\ seen' = seen /\ jar' = jar /\ form' = form /\ shown' = shown
      /\ crossed' = crossed /\ apart' = apart /\ shopper' = shopper /\ bought' = bought
  BY DEF request, deviceRows
<1>2. VisitTypes /\ DeviceRight
  BY DEF VisitRight
<1>3. /\ jar.basket \in Baskets \cup {Nothing}
      /\ jar.basket # Nothing => basket[jar.basket] # Nothing
      /\ jar.basket # Nothing => basket'[jar.basket] # Nothing
  BY <1>2 DEF VisitTypes, Forward
<1>4. ASSUME Fits(jar.area, jar.basket) PROVE Fits(jar.area, jar.basket)'
  BY <1>1, <1>3, <1>4, FitsStay DEF Fits, Live
<1>5. ASSUME NEW r \in Requests PROVE VisitRequest(r)' /\ AloneRight(r)'
  <2>1. VisitRequest(r) /\ AloneRight(r)
    BY DEF VisitRight
  <2>2. VisitRequest(r)'
    BY <1>1, <2>1, VisitRequestStays
  <2>3. ASSUME pc[r] \in {"item", "answer"},
               Fits(AreaAfter(seen[r].cookies), BasketAfter(seen[r].cookies))
        PROVE  Fits(AreaAfter(seen[r].cookies), BasketAfter(seen[r].cookies))'
    <3>1. Sets(seen[r].cookies)
      BY <2>1, <2>3 DEF VisitRequest
    <3> DEFINE a == AreaAfter(seen[r].cookies)
               t == BasketAfter(seen[r].cookies)
    <3>2. /\ t \in Baskets \cup {Nothing}
          /\ t # Nothing => basket[t] # Nothing
      BY <1>2, <3>1, JarAfterIsRight
    <3>3. a' = a /\ t' = t
      BY <1>1 DEF AreaAfter, BasketAfter
    <3> HIDE DEF a, t
    <3>4. a # Nothing /\ t # Nothing /\ basket'[t].status = "ACTIVE" =>
            basket'[t].shop = ShopFor[a]
      BY <2>3, <3>2 DEF Fits, Live, Forward, SameShops, a, t
    <3>5. Fits(a, t)'
      BY <3>3, <3>4 DEF Fits, Live
    <3> QED BY <3>5 DEF a, t
  <2>4. AloneRight(r)'
    BY <1>1, <1>4, <2>1, <2>3 DEF AloneRight, WithJar
  <2> QED BY <2>2, <2>4
<1>6. VisitTypes' /\ TurnedAwayHasNoShop'
  BY <1>1, <1>3 DEF VisitRight, VisitTypes, TurnedAwayHasNoShop
<1>7. DeviceRight'
  BY <1>1, <1>2, <1>3, <1>4 DEF DeviceRight, FormRight
<1>8. SalesRight'
  BY <1>1, SalesStay DEF VisitRight
<1> QED BY <1>1, <1>5, <1>6, <1>7, <1>8 DEF VisitRight, ShopTables

LEMMA VisitGoesBy ==
    ASSUME VisitRight, Switch \/ SignInElsewhere \/ UNCHANGED visitVars
    PROVE  VisitRight'
<1>1. VisitTypes
  BY DEF VisitRight
<1>2. CASE Switch
  <2>1. UNCHANGED <<request, deviceRows, shopper, bought>> /\ basket' = basket
    BY <1>2 DEF Switch, Turn
  <2>2. reached' \subseteq Places
    BY <1>1, <1>2 DEF Switch, VisitTypes
  <2>3. Forward /\ SameShops /\ basket' \in [Baskets -> Cart \cup {Nothing}]
    BY <1>1, <2>1 DEF Forward, SameShops, VisitTypes
  <2> QED BY <2>1, <2>2, <2>3, VisitTurns
<1>3. CASE SignInElsewhere
  <2>1. /\ UNCHANGED <<request, deviceRows, shopper, bought>> /\ reached' = reached
        /\ basket' = AbandonOthers(basket, Nothing)
    BY <1>3 DEF SignInElsewhere, Turn
  <2> DEFINE carts == AbandonOthers(basket, Nothing)
  <2>2. /\ carts \in [Baskets -> Cart \cup {Nothing}]
        /\ \A b \in Baskets :
             basket[b] # Nothing =>
               /\ carts[b] # Nothing /\ carts[b].shop = basket[b].shop
               /\ carts[b].status = "ACTIVE" => basket[b].status = "ACTIVE"
    BY <1>1, OthersPutAside
  <2>3. basket' = carts
    BY <2>1
  <2> HIDE DEF carts
  <2>4. Forward /\ SameShops /\ basket' \in [Baskets -> Cart \cup {Nothing}]
    BY <2>2, <2>3 DEF Forward, SameShops
  <2>5. reached' \subseteq Places
    BY <1>1, <2>1 DEF VisitTypes
  <2> QED BY <2>1, <2>4, <2>5, VisitTurns
<1>4. CASE UNCHANGED visitVars
  <2>1. /\ UNCHANGED <<request, deviceRows, shopper, bought>> /\ basket' = basket
        /\ reached' = reached
    BY <1>4 DEF visitVars, visitRows, deviceRows
  <2>2. Forward /\ SameShops /\ basket' \in [Baskets -> Cart \cup {Nothing}]
    BY <1>1, <2>1 DEF Forward, SameShops, VisitTypes
  <2>3. reached' \subseteq Places
    BY <1>1, <2>1 DEF VisitTypes
  <2> QED BY <2>1, <2>2, <2>3, VisitTurns
<1> QED BY <1>2, <1>3, <1>4

LEMMA VisitStarts == RequestsInit /\ VisitInit => VisitRight
<1> SUFFICES ASSUME RequestsInit, VisitInit
             PROVE  VisitRight
  OBVIOUS
<1>1. /\ ShopTables /\ \A r \in Requests : pc[r] = "idle"
      /\ shopper \in Shoppers /\ shopper \in Session
      /\ reached = Places /\ form = Nothing /\ shown = "picker" /\ bought = {}
      /\ crossed = {} /\ apart = FALSE
  BY ShopVisitConstants DEF RequestsInit, VisitInit, ShopTables
<1>2. /\ jar \in [area : Places \cup {Nothing}, basket : Baskets \cup {Nothing}]
      /\ basket \in [Baskets -> Cart \cup {Nothing}]
      /\ jar.basket # Nothing => basket[jar.basket] # Nothing
      /\ Fits(jar.area, jar.basket)
  <2>1. CASE /\ jar = [area |-> Nothing, basket |-> Nothing]
             /\ basket = [b \in Baskets |-> Nothing]
    BY <2>1 DEF Fits
  <2>2. ASSUME NEW a \in Places, NEW t \in Baskets,
               jar = [area |-> a, basket |-> t],
               basket = [b \in Baskets |-> IF b # t THEN Nothing ELSE
                 [shop |-> ShopFor[a], status |-> "ACTIVE", owned |-> shopper.member]]
        PROVE  /\ jar \in [area : Places \cup {Nothing}, basket : Baskets \cup {Nothing}]
               /\ basket \in [Baskets -> Cart \cup {Nothing}]
               /\ jar.basket # Nothing => basket[jar.basket] # Nothing
               /\ Fits(jar.area, jar.basket)
    <3> DEFINE row == [shop |-> ShopFor[a], status |-> "ACTIVE", owned |-> shopper.member]
    <3>1. shopper.member \in BOOLEAN
      BY <1>1 DEF Session
    <3>2. row \in Cart /\ row.shop = ShopFor[a]
      BY <3>1, ShopVisitConstants DEF Cart
    <3>3. row # Nothing
      BY <3>2, ShopVisitConstants
    <3>4. basket = [b \in Baskets |-> IF b # t THEN Nothing ELSE row]
      BY <2>2
    <3> HIDE DEF row
    <3> QED BY <2>2, <3>2, <3>3, <3>4 DEF Fits
  <2> QED BY <2>1, <2>2 DEF VisitInit
<1>3. VisitTypes
  BY <1>1, <1>2 DEF VisitTypes
<1>4. TurnedAwayHasNoShop /\ SalesRight
  BY <1>1 DEF TurnedAwayHasNoShop, SalesRight, BuysWhereTheFormSays, SoldOnce
<1>5. DeviceRight
  BY <1>1, <1>2 DEF DeviceRight
<1>6. \A r \in Requests : VisitRequest(r) /\ AloneRight(r)
  BY <1>1 DEF VisitRequest, AloneRight, WithJar
<1> QED BY <1>1, <1>3, <1>4, <1>5, <1>6 DEF VisitRight

LEMMA VisitStep == VisitRight /\ [VisitNext]_visitVars => VisitRight'
<1> SUFFICES ASSUME VisitRight, [VisitNext]_visitVars
             PROVE  VisitRight'
  OBVIOUS
<1>1. ASSUME NEW r \in Requests, Serves(r)
      PROVE  VisitRight'
  <2>1. UNCHANGED <<deviceRows, staffSide>>
    BY <1>1 DEF Serves
  <2>2. CASE ChooseResolve(r) \/ Forget(r) \/ ReadContext(r) \/ ReadCheckoutContext(r)
               \/ PlaceResolve(r)
    BY <2>1, <2>2, VisitReads
  <2>3. CASE Rebuild(r)
    BY <2>1, <2>3, VisitRebuilds
  <2>4. CASE Ensure(r)
    BY <2>1, <2>4, VisitEnsures
  <2>5. CASE AddItem(r)
    BY <2>1, <2>5, VisitAdds
  <2>6. CASE ShowCheckout(r)
    BY <2>1, <2>6, VisitShowsCheckout
  <2>7. CASE Place(r)
    BY <2>1, <2>7, VisitPlaces
  <2> QED BY <1>1, <2>2, <2>3, <2>4, <2>5, <2>6, <2>7 DEF Serves
<1> QED BY <1>1, VisitSends, VisitDelivers, VisitLoses, VisitGoesBy DEF VisitNext

\* However a device's requests cross and its answers get lost, and whatever staff
\* and other devices do, who was turned away has no shop left, basket and area go
\* together again after the next choice, an order goes where its form said, and a
\* basket is sold once (storefront.ts setStoreContext, clearStoreContext,
\* ensureCart; the actions and the checkout page of app/(storefront)).
THEOREM TheDeviceHolds == VisitSpec => []VisitInv
<1> QED BY VisitInvHolds, VisitStarts, VisitStep, PTL DEF VisitSpec
-----------------------------------------------------------------------------
(* Pages of a list *)

\* Two multiples of a number are that number apart, or one.
LEMMA WholePagesApart ==
    ASSUME NEW l \in Nat \ {0}, NEW a \in Int, NEW b \in Int, a * l < b * l
    PROVE  a < b /\ a * l + l <= b * l
OBVIOUS

LEMMA DividingRows ==
    ASSUME NEW x \in Int, NEW l \in Nat \ {0}
    PROVE  /\ x \div l \in Int
           /\ (x \div l) * l <= x /\ x < (x \div l) * l + l
OBVIOUS

\* The last page holds the last row, and no page before it does.
LEMMA LastPage ==
    ASSUME NEW total \in Nat
    PROVE  /\ PageCount(total) \in Nat \ {0}
           /\ total <= PageCount(total) * PageSize
           /\ total # 0 => (PageCount(total) - 1) * PageSize < total
<1>1. PageSize \in Nat \ {0}
  BY ShopWindowConstants
<1>2. CASE total = 0
  BY <1>1, <1>2 DEF PageCount
<1>3. CASE total # 0
  <2> DEFINE x == total + PageSize - 1
             n == x \div PageSize
  <2>1. x \in Int /\ PageCount(total) = n /\ x = total + PageSize - 1
    BY <1>1, <1>3 DEF PageCount
  <2> HIDE DEF x
  <2>2. n \in Int /\ n * PageSize <= x /\ x < n * PageSize + PageSize
    BY <1>1, <2>1, DividingRows
  <2> HIDE DEF n
  <2>3. /\ n * PageSize \in Int /\ (n - 1) * PageSize = n * PageSize - PageSize
        /\ 0 * PageSize = 0
    BY <1>1, <2>2
  <2>4. total <= n * PageSize /\ (n - 1) * PageSize < total
    BY <1>1, <1>3, <2>1, <2>2, <2>3
  <2>5. 0 * PageSize < n * PageSize
    BY <1>3, <2>3, <2>4
  <2>6. 0 < n
    BY <1>1, <2>2, <2>5, WholePagesApart
  <2> QED BY <2>1, <2>2, <2>4, <2>6
<1> QED BY <1>2, <1>3

LEMMA ClampIsAPage ==
    ASSUME NEW total \in Nat, NEW n \in Nat \ {0}
    PROVE  Clamp(n, total) \in 1..PageCount(total)
BY LastPage DEF Clamp

\* The rows of a page are counted from a multiple of the page size.
LEMMA PageBounds ==
    ASSUME NEW n \in Nat \ {0}
    PROVE  /\ (n - 1) * PageSize \in Nat /\ n * PageSize \in Nat
           /\ n * PageSize = (n - 1) * PageSize + PageSize
BY ShopWindowConstants

\* The first n rows are n, or all there are.
LEMMA FirstRows ==
    ASSUME NEW S, IsFiniteSet(S), NEW key, NEW n \in Nat, NEW T \in First(S, key, n)
    PROVE  /\ T \subseteq S /\ IsFiniteSet(T) /\ Cardinality(T) \in Nat
           /\ Cardinality(T) <= n /\ (T # S => Cardinality(T) = n)
<1>1. /\ T \subseteq S
      /\ Cardinality(T) = n \/ (T = S /\ Cardinality(S) < n)
  BY DEF First
<1>2. IsFiniteSet(T) /\ Cardinality(T) \in Nat
  BY <1>1, FS_Subset, FS_CardinalityType
<1> QED BY <1>1, <1>2

\* A row is among the first n if n are not less than those up to its key, and
\* only if n are more than those before it.
LEMMA FirstByKey ==
    ASSUME NEW S, IsFiniteSet(S), NEW key, \A v \in S : key[v] \in Nat,
           NEW n \in Nat, NEW T \in First(S, key, n), NEW w \in S
    PROVE  /\ Cardinality(Ahead(S, key, w)) \in Nat /\ Cardinality(UpTo(S, key, w)) \in Nat
           /\ w \in T => Cardinality(Ahead(S, key, w)) < n
           /\ w \notin T => n < Cardinality(UpTo(S, key, w))
<1> DEFINE B == Ahead(S, key, w)
           U == UpTo(S, key, w)
<1>1. /\ T \subseteq S /\ IsFiniteSet(T) /\ Cardinality(T) \in Nat
      /\ Cardinality(T) <= n /\ (T # S => Cardinality(T) = n)
  BY FirstRows
<1>2. \A v \in T, u \in S \ T : key[v] <= key[u]
  BY DEF First
<1>3. B \subseteq S /\ U \subseteq S /\ w \notin B /\ w \in U
  BY DEF Ahead, UpTo
<1>4. /\ IsFiniteSet(B) /\ Cardinality(B) \in Nat
      /\ IsFiniteSet(U) /\ Cardinality(U) \in Nat
  BY <1>3, FS_Subset, FS_CardinalityType
<1>5. ASSUME w \in T
      PROVE  Cardinality(B) < n
  <2>1. B \cup {w} \subseteq T
    BY <1>2, <1>5 DEF Ahead
  <2>2. Cardinality(B \cup {w}) = Cardinality(B) + 1
    BY <1>3, <1>4, FS_AddElement
  <2>3. Cardinality(B \cup {w}) <= Cardinality(T)
    BY <1>1, <2>1, FS_Subset
  <2> QED BY <1>1, <1>4, <2>2, <2>3
<1>6. ASSUME w \notin T
      PROVE  n < Cardinality(U)
  <2>1. T \cup {w} \subseteq U /\ T # S
    BY <1>1, <1>2, <1>6 DEF UpTo
  <2>2. Cardinality(T \cup {w}) = Cardinality(T) + 1
    BY <1>1, <1>6, FS_AddElement
  <2>3. Cardinality(T \cup {w}) <= Cardinality(U)
    BY <1>4, <2>1, FS_Subset
  <2> QED BY <1>1, <1>4, <2>1, <2>2, <2>3
<1> QED BY <1>4, <1>5, <1>6

\* To skip m rows and take k is to take the first m + k but the first m.
LEMMA FirstOfTheRest ==
    ASSUME NEW S, IsFiniteSet(S), NEW key, NEW m \in Nat, NEW k \in Nat,
           NEW F \in First(S, key, m), NEW R \in First(S \ F, key, k)
    PROVE  F \cup R \in First(S, key, m + k)
<1> DEFINE rest == S \ F
           T == F \cup R
<1>1. /\ F \subseteq S /\ IsFiniteSet(F) /\ Cardinality(F) \in Nat
      /\ Cardinality(F) <= m /\ (F # S => Cardinality(F) = m)
  BY FirstRows
<1>2. IsFiniteSet(rest) /\ Cardinality(rest) \in Nat /\ R \in First(rest, key, k)
  BY FS_Subset, FS_CardinalityType
<1> HIDE DEF rest
<1>3. /\ R \subseteq rest /\ IsFiniteSet(R) /\ Cardinality(R) \in Nat
      /\ Cardinality(R) <= k /\ (R # rest => Cardinality(R) = k)
  BY <1>2, FirstRows
<1>4. F \cap R = {} /\ T \subseteq S
  BY <1>1, <1>3 DEF rest
<1>5. Cardinality(T) = Cardinality(F) + Cardinality(R)
  <2>1. Cardinality(F \cup R) = Cardinality(F) + Cardinality(R) - Cardinality(F \cap R)
    BY <1>1, <1>3, FS_Union
  <2>2. Cardinality(F \cap R) = 0
    <3>1. Cardinality({}) = 0
      BY FS_EmptySet
    <3> QED BY <1>4, <3>1
  <2> QED BY <1>1, <1>3, <2>1, <2>2
<1>6. Cardinality(T) = m + k \/ (T = S /\ Cardinality(S) < m + k)
  <2>1. CASE T = S
    <3>1. Cardinality(T) <= m + k
      BY <1>1, <1>3, <1>5
    <3> QED BY <1>1, <1>3, <1>5, <2>1, <3>1
  <2>2. CASE T # S
    <3>1. F # S /\ R # rest
      BY <1>1, <1>3, <2>2 DEF rest
    <3> QED BY <1>1, <1>3, <1>5, <3>1
  <2> QED BY <2>1, <2>2
<1>7. ASSUME NEW v \in T, NEW w \in S \ T
      PROVE  key[v] <= key[w]
  <2>1. CASE v \in F
    BY <1>7, <2>1 DEF First
  <2>2. CASE v \in R
    <3>1. w \in rest \ R
      BY <1>7 DEF rest
    <3> QED BY <1>2, <2>2, <3>1 DEF First
  <2> QED BY <1>7, <2>1, <2>2
<1> QED BY <1>4, <1>6, <1>7 DEF First

LEMMA PageIsShort ==
    ASSUME NEW S, IsFiniteSet(S), NEW key, NEW n \in Nat \ {0}, NEW page \in Pages(S, key, n)
    PROVE  /\ page \subseteq S /\ IsFiniteSet(page)
           /\ Cardinality(page) <= PageSize /\ Cardinality(page) \in Nat
<1>1. PICK F \in First(S, key, (n - 1) * PageSize) : page \in First(S \ F, key, PageSize)
  BY DEF Pages
<1>2. IsFiniteSet(S \ F)
  BY FS_Subset
<1> QED BY <1>1, <1>2, FirstRows, ShopWindowConstants

\* The page of a row that is settled holds it, however ties are ordered in each
\* query, and no other page does.
LEMMA SettledPage ==
    ASSUME NEW S, IsFiniteSet(S), NEW key, \A v \in S : key[v] \in Nat, NEW w \in Settled(S, key)
    PROVE  \E k \in 1..PageCount(Cardinality(S)) :
             \A n \in Nat \ {0} : \A page \in Pages(S, key, n) : w \in page <=> n = k
<1> DEFINE b == Cardinality(Ahead(S, key, w))
           u == Cardinality(UpTo(S, key, w))
           q == b \div PageSize
           total == Cardinality(S)
           last == PageCount(total)
<1>1. PageSize \in Nat \ {0} /\ total \in Nat /\ w \in S /\ q = (u - 1) \div PageSize
  BY ShopWindowConstants, FS_CardinalityType DEF Settled
<1>2. b \in Nat /\ u \in Nat /\ b < u /\ u <= total
  <2>1. UpTo(S, key, w) \subseteq S /\ Ahead(S, key, w) \cup {w} \subseteq UpTo(S, key, w)
        /\ w \notin Ahead(S, key, w)
    BY <1>1 DEF Ahead, UpTo
  <2>2. /\ IsFiniteSet(UpTo(S, key, w)) /\ u \in Nat /\ u <= total
        /\ IsFiniteSet(Ahead(S, key, w)) /\ b \in Nat
    BY <2>1, FS_Subset, FS_CardinalityType
  <2>3. Cardinality(Ahead(S, key, w) \cup {w}) = b + 1
    BY <2>1, <2>2, FS_AddElement
  <2>4. Cardinality(Ahead(S, key, w) \cup {w}) <= u
    BY <2>1, <2>2, FS_Subset
  <2> QED BY <2>2, <2>3, <2>4
<1>3. last \in Nat \ {0} /\ total <= last * PageSize
  BY <1>1, LastPage
<1>4. ASSUME NEW m \in Nat, NEW T \in First(S, key, m)
      PROVE  (w \in T => b < m) /\ (w \notin T => m < u)
  BY <1>1, <1>4, FirstByKey
<1> HIDE DEF b, u, total, last
<1>5. /\ q \in Int /\ q * PageSize <= b /\ b < q * PageSize + PageSize
      /\ q * PageSize <= u - 1 /\ u - 1 < q * PageSize + PageSize
  <2>1. q \in Int /\ q * PageSize <= b /\ b < q * PageSize + PageSize
    <3>1. PageSize \in Nat \ {0} /\ b \in Int
      BY <1>1, <1>2
    <3> QED BY ONLY <3>1, DividingRows
  <2> DEFINE p == (u - 1) \div PageSize
  <2>2. u - 1 \in Int
    BY <1>2
  <2>3. p * PageSize <= u - 1 /\ u - 1 < p * PageSize + PageSize
    BY <1>1, <2>2, DividingRows
  <2>4. q = p
    BY <1>1
  <2> HIDE DEF p
  <2> QED BY <2>1, <2>3, <2>4
<1> HIDE DEF q
<1>6. /\ q * PageSize \in Int /\ last * PageSize \in Int /\ 0 * PageSize = 0
      /\ (q + 1) * PageSize = q * PageSize + PageSize
  BY <1>1, <1>3, <1>5
<1>7. 0 < q + 1 /\ q < last
  <2>1. 0 * PageSize < (q + 1) * PageSize /\ q * PageSize < last * PageSize
    BY <1>1, <1>2, <1>3, <1>5, <1>6
  <2> QED BY <1>1, <1>3, <1>5, <2>1, WholePagesApart
<1>8. q + 1 \in 1..last
  BY <1>3, <1>5, <1>7
<1>9. ASSUME NEW n \in Nat \ {0}, NEW page \in Pages(S, key, n)
      PROVE  w \in page <=> n = q + 1
  <2> DEFINE begin == (n - 1) * PageSize
  <2>1. begin \in Nat /\ n * PageSize = begin + PageSize
    BY <1>9, PageBounds
  <2>2. PICK F \in First(S, key, begin) : page \in First(S \ F, key, PageSize)
    BY DEF Pages
  <2>3. F \cup page \in First(S, key, begin + PageSize)
    BY <1>1, <2>1, <2>2, FirstOfTheRest
  <2>4. w \in page <=> w \in F \cup page /\ w \notin F
    <3>1. IsFiniteSet(S \ F)
      BY FS_Subset
    <3>2. page \subseteq S \ F
      BY <1>1, <2>2, <3>1, FirstRows
    <3> QED BY <3>2
  <2>5. /\ w \in F => b < begin
        /\ w \notin F => begin < u
        /\ w \in F \cup page => b < begin + PageSize
        /\ w \notin F \cup page => begin + PageSize < u
    BY <1>1, <1>4, <2>1, <2>2, <2>3
  <2> HIDE DEF begin
  <2>6. ASSUME n = q + 1
        PROVE  begin = q * PageSize
    BY <1>5, <2>6 DEF begin
  <2>7. n = q + 1 => w \in page
    BY <1>1, <1>2, <1>5, <1>6, <2>1, <2>4, <2>5, <2>6
  <2>8. ASSUME w \in page
        PROVE  n = q + 1
    <3>1. begin < u /\ b < begin + PageSize
      BY <2>4, <2>5, <2>8
    <3>2. begin < (q + 1) * PageSize /\ q * PageSize < n * PageSize
      BY <1>1, <1>2, <1>5, <1>6, <2>1, <3>1
    <3>3. n - 1 < q + 1 /\ q < n
      BY <1>1, <1>5, <3>2, WholePagesApart DEF begin
    <3> QED BY <1>5, <3>3
  <2> QED BY <2>7, <2>8
<1> QED BY <1>8, <1>9 DEF last, total

LEMMA PageHasRows ==
    ASSUME NEW S, IsFiniteSet(S), S # {}, NEW key,
           NEW n \in 1..PageCount(Cardinality(S)), NEW page \in Pages(S, key, n)
    PROVE  page # {}
<1> DEFINE total == Cardinality(S)
           last == PageCount(total)
           begin == (n - 1) * PageSize
<1>1. PageSize \in Nat \ {0} /\ total \in Nat \ {0}
  BY ShopWindowConstants, FS_CardinalityType, FS_EmptySet
<1>2. last \in Nat \ {0} /\ (last - 1) * PageSize < total
  BY <1>1, LastPage
<1>3. n \in Nat \ {0} /\ n <= last
  BY <1>2
<1>4. begin \in Nat /\ begin <= (last - 1) * PageSize /\ (last - 1) * PageSize \in Int
  BY <1>1, <1>2, <1>3
<1>5. PICK F \in First(S, key, begin) : page \in First(S \ F, key, PageSize)
  BY DEF Pages
<1>6. F \subseteq S /\ Cardinality(F) <= begin
  BY <1>4, <1>5, FirstRows
<1>7. F # S
  BY <1>1, <1>2, <1>4, <1>6
<1>8. S \ F # {} /\ (Cardinality(page) = PageSize \/ page = S \ F)
  BY <1>5, <1>6, <1>7 DEF First
<1> QED BY <1>1, <1>8, FS_EmptySet

\* The one page of nothing.
LEMMA EmptyPage ==
    ASSUME NEW key
    PROVE  {} \in Pages({}, key, 1)
<1>1. Cardinality({}) = 0 /\ PageSize \in Nat \ {0}
  BY FS_EmptySet, ShopWindowConstants
<1>2. {} \in First({}, key, 0) /\ {} \in First({} \ {}, key, PageSize)
  BY <1>1 DEF First
<1>3. (1 - 1) * PageSize = 0
  BY <1>1
<1> QED BY <1>2, <1>3 DEF Pages
-----------------------------------------------------------------------------
(* The shop window *)

\* What there once was since the visitor came.
OnceListed(ms, w, price) == \E m \in ms : m.onShelf[w].listed /\ m.onShelf[w].price = price
OnceActive(ms, w) == \E m \in ms : m.onShelf[w].active
OnceBanded(ms, w, band) == \E m \in ms : Band(m.onShelf[w].stock) = band
OnceUnder(ms, w, a) == \E m, n \in ms : a \in Trail(n.aisle, m.onShelf[w].aisle)

AskedRight(q) ==
    /\ DOMAIN q = {"page", "want", "number"}
    /\ q.number \in Nat \ {0}
    /\ \/ q.page = "aisle" /\ q.want \in Aisles \cup {Nothing}
       \/ q.page = "search" /\ q.want = Nothing
       \/ q.page = "product" /\ q.want \in Wares
       \/ q.page = "tiles"

Stages ==
    {"aisle"} \X {"listed", "tree", "count", "rows", "details"}
      \cup {"search"} \X {"listed", "hits", "details"}
      \cup {"product"} \X {"listed", "details"}
      \cup {"tiles"} \X {"listed", "stocked"}

\* The pages seen are those right before page n of the list S.
WalkedBefore(pages, S, key, n) ==
    /\ Len(pages) < n
    /\ \A i \in 1..Len(pages) : pages[i] \in Pages(S, key, n - 1 - Len(pages) + i)

\* The subtree is that of a moment, and of this one if there was no other.
TreeRead(q, tree, m, ms) ==
    /\ q.want = Nothing => tree = Aisles
    /\ q.want # Nothing => \E n \in ms : tree = Below(n.aisle, q.want)
    /\ ms = {m} /\ q.want # Nothing => tree = Below(m.aisle, q.want)

CountRight(q, read, m, ms) ==
    /\ read.total \in Nat /\ read.number \in 1..PageCount(read.total)
    /\ ms = {m} => /\ read.total = Cardinality(SoldIn(m, q.want))
                   /\ read.number = Clamp(q.number, read.total)

\* If nothing changed, the rows are what was asked for.
RowsAre(q, read, m) ==
    /\ read.rows \subseteq SoldIn(m, Nothing)
    /\ read.prices # Nothing => DOMAIN read.prices = read.rows
    /\ q.page = "aisle" =>
         read.rows \in Pages(SoldIn(m, q.want), KeysOf(m.onShelf), read.number)
    /\ q.page = "search" => read.rows # {}
    /\ q.page = "product" => read.rows = {q.want}

DetailsRight(q, read, m, ms) ==
    /\ read.rows \subseteq Wares /\ Cardinality(read.rows) <= PageSize
    /\ read.total \in Nat /\ read.number \in 1..PageCount(read.total)
    /\ \A w \in read.rows :
         /\ OnceActive(ms, w)
         /\ q.page = "aisle" /\ q.want # Nothing => OnceUnder(ms, w, q.want)
         /\ read.bands # Nothing => OnceBanded(ms, w, read.bands[w])
    /\ read.prices # Nothing =>
         /\ DOMAIN read.prices \subseteq read.rows
         /\ \A w \in DOMAIN read.prices : OnceListed(ms, w, read.prices[w])
    /\ ms = {m} => RowsAre(q, read, m)

ReadFields == {"ids", "tree", "total", "number", "rows", "prices", "bands"}

\* What the page being put together relies on.
RenderRight(v, m, ms, pages) ==
    /\ DOMAIN v = {"asked", "at", "read"} /\ DOMAIN v.read = ReadFields
    /\ AskedRight(v.asked) /\ <<v.asked.page, v.at>> \in Stages
    /\ v.at = "listed" => v.read = NothingRead
    /\ v.asked.page = "product" =>
         /\ OnceActive(ms, v.asked.want)
         /\ ms = {m} => m.onShelf[v.asked.want].active
    /\ v.asked.page # "product" /\ v.at # "listed" =>
         /\ v.read.ids \subseteq Wares
         /\ ms = {m} => v.read.ids = {w \in Wares : m.onShelf[w].listed}
    /\ v.at \in {"tree", "count", "rows", "hits", "stocked"} =>
         v.read.prices = Nothing /\ v.read.bands = Nothing
    /\ v.at \in {"count", "rows"} => TreeRead(v.asked, v.read.tree, m, ms)
    /\ v.asked.page = "aisle" /\ v.at \in {"rows", "details"} => CountRight(v.asked, v.read, m, ms)
    /\ v.at = "details" => DetailsRight(v.asked, v.read, m, ms)
    /\ v.asked.page = "aisle" /\ ms = {m} /\ pages # <<>> =>
         /\ v.asked.number <= PageCount(Cardinality(SoldIn(m, v.asked.want)))
         /\ WalkedBefore(pages, SoldIn(m, v.asked.want), KeysOf(m.onShelf), v.asked.number)

\* What is shown was so, and all there was if nothing changed.
WasSold(win, ms) ==
    /\ Cardinality(win.items) <= PageSize
    /\ win.pages \in Nat /\ win.number \in 1..win.pages
    /\ \A i \in win.items :
         /\ OnceListed(ms, i.ware, i.price) /\ OnceBanded(ms, i.ware, i.stock)
         /\ OnceActive(ms, i.ware)
         /\ win.asked.page = "aisle" /\ win.asked.want # Nothing =>
              OnceUnder(ms, i.ware, win.asked.want)

AllIsShown(win, m, pages) ==
    LET items == {i.ware : i \in win.items}
        sold == SoldIn(m, win.asked.want)
    IN /\ win.asked.page = "aisle" =>
            /\ win.total = Cardinality(sold) /\ win.pages = PageCount(win.total)
            /\ WalkedBefore(pages, sold, KeysOf(m.onShelf), win.number + 1)
       /\ win.asked.page = "search" =>
            /\ items \subseteq SoldIn(m, Nothing)
            /\ items = {} => DOMAIN Hits \cap SoldIn(m, Nothing) = {}
       /\ win.asked.page = "product" => items = {win.asked.want} \cap SoldIn(m, Nothing)
       /\ win.asked.page = "tiles" =>
            /\ \A a \in items : SoldIn(m, a) # {}
            /\ SoldIn(m, Nothing) = UNION {SoldIn(m, a) : a \in items}

ShownRight(win, m, ms, pages) ==
    /\ AskedRight(win.asked)
    /\ win.asked.page # "tiles" => WasSold(win, ms)
    /\ ms = {m} => AllIsShown(win, m, pages)

\* The inductive invariant.
WindowRight ==
    /\ onShelf \in [Wares -> Ware] /\ aisle \in [Aisles -> Placed] /\ Loopless(aisle)
    /\ moments = {} => visit = Nothing /\ window = Nothing /\ walked = <<>>
    /\ moments # {} => Now \in moments
    /\ walked \in Seq(SUBSET (Wares \cup Aisles))
    /\ visit # Nothing => RenderRight(visit, Now, moments, walked)
    /\ window # Nothing => ShownRight(window, Now, moments, walked)

-----------------------------------------------------------------------------
(* The tree under the shop window *)

LEMMA BelowIsClosed ==
    ASSUME NEW tree, NEW c \in Aisles
    PROVE  /\ c \in Below(tree, c)
           /\ \A a \in Aisles : tree[a].under \in Below(tree, c) => a \in Below(tree, c)
BY DEF Below

\* What hangs under a category hangs under its parent.
LEMMA BelowItsParent ==
    ASSUME NEW tree, NEW x \in Aisles, tree[x].under \in Aisles, NEW d \in Below(tree, x)
    PROVE  d \in Below(tree, tree[x].under)
BY DEF Below

\* A category hung under none of its own descendants closes no loop.
LEMMA StaysLoopless ==
    ASSUME NEW tree \in [Aisles -> Placed], Loopless(tree), NEW c \in Aisles,
           NEW row \in Placed, row.under \notin Below(tree, c)
    PROVE  Loopless([tree EXCEPT ![c] = row])
<1> DEFINE next == [tree EXCEPT ![c] = row]
           B == Below(tree, c)
<1>1. next[c] = row /\ \A a \in Aisles \ {c} : next[a] = tree[a]
  OBVIOUS
<1>2. c \in B /\ \A a \in Aisles : tree[a].under \in B => a \in B
  BY BelowIsClosed
<1> HIDE DEF next, B
<1>3. ASSUME NEW S \in (SUBSET Aisles) \ {{}}, \A a \in S : next[a].under \in S
      PROVE  FALSE
  <2>1. CASE c \notin S
    <3>1. \A a \in S : tree[a].under \in S
      BY <1>1, <1>3, <2>1
    <3> QED BY <3>1 DEF Loopless
  <2>2. CASE c \in S
    <3>1. S \ B \in SUBSET Aisles /\ row.under \in S \ B
      BY <1>1, <1>3, <2>2 DEF B
    <3>2. \A a \in S \ B : tree[a].under \in S \ B
      BY <1>1, <1>2, <1>3
    <3> QED BY <3>1, <3>2 DEF Loopless
  <2> QED BY <2>1, <2>2
<1> QED BY <1>3 DEF Loopless, next

\* Every category is under one at the top.
LEMMA TopOfEach ==
    ASSUME NEW tree \in [Aisles -> Placed], Loopless(tree), NEW d \in Aisles
    PROVE  \E a \in Aisles : tree[a].under = Root /\ d \in Below(tree, a)
<1> DEFINE T == Trail(tree, d)
<1>1. d \in T /\ T \in (SUBSET Aisles) \ {{}}
  BY BelowIsClosed DEF Trail
<1>2. PICK a \in T : tree[a].under \notin T
  BY <1>1 DEF Loopless
<1>3. a \in Aisles /\ d \in Below(tree, a)
  BY <1>2 DEF Trail
<1>4. tree[a].under \in Aisles => tree[a].under \in T
  BY <1>3, BelowItsParent DEF Trail
<1>5. tree[a].under \in Aisles \cup {Root}
  BY <1>3 DEF Placed
<1> QED BY <1>2, <1>3, <1>4, <1>5

-----------------------------------------------------------------------------
(* What is sold *)

Moment == [onShelf : [Wares -> Ware], aisle : [Aisles -> Placed]]

LEMMA SoldIsFinite ==
    ASSUME NEW m, NEW a
    PROVE  /\ SoldIn(m, a) \subseteq Wares
           /\ IsFiniteSet(SoldIn(m, a)) /\ Cardinality(SoldIn(m, a)) \in Nat
           /\ SoldIn(m, a) \subseteq SoldIn(m, Nothing)
<1>1. /\ SoldIn(m, a) \subseteq Wares
      /\ SoldIn(m, a) \subseteq SoldIn(m, Nothing)
  BY DEF SoldIn
<1>2. IsFiniteSet(SoldIn(m, a))
  BY <1>1, ShopWindowConstants, FS_Subset
<1> QED BY <1>1, <1>2, FS_CardinalityType

\* The rows that match are what is sold, if ids and subtree are of now.
LEMMA MatchingIsSold ==
    ASSUME onShelf \in [Wares -> Ware], NEW want \in Aisles \cup {Nothing},
           NEW ids, ids = {w \in Wares : Now.onShelf[w].listed},
           NEW tree, want = Nothing => tree = Aisles,
           want # Nothing => tree = Below(Now.aisle, want)
    PROVE  Matching(ids, tree) = SoldIn(Now, want)
<1>1. Now.onShelf = onShelf /\ Now.aisle = aisle
  BY DEF Now
<1>2. \A w \in Wares : onShelf[w].aisle \in Aisles
  BY DEF Ware
<1>3. CASE want = Nothing
  BY <1>1, <1>2, <1>3 DEF Matching, SoldIn
<1>4. CASE want # Nothing
  <2>1. \A w \in Wares : onShelf[w].aisle \in tree <=> want \in Trail(aisle, onShelf[w].aisle)
    BY <1>1, <1>4 DEF Trail
  <2> QED BY <1>1, <1>4, <2>1 DEF Matching, SoldIn
<1> QED BY <1>3, <1>4

LEMMA MatchingIsFinite ==
    ASSUME NEW ids, ids \subseteq Wares, NEW tree
    PROVE  /\ Matching(ids, tree) \subseteq Wares
           /\ IsFiniteSet(Matching(ids, tree)) /\ Cardinality(Matching(ids, tree)) \in Nat
<1>1. Matching(ids, tree) \subseteq Wares
  BY DEF Matching
<1>2. IsFiniteSet(Matching(ids, tree))
  BY <1>1, ShopWindowConstants, FS_Subset
<1> QED BY <1>1, <1>2, FS_CardinalityType

\* Keys are numbers.
LEMMA KeysAreNumbers ==
    ASSUME NEW placed \in [Wares -> Ware]
    PROVE  \A w \in Wares : KeysOf(placed)[w] \in Nat
BY DEF KeysOf, Ware

\* One page more of those seen.
LEMMA WalkGrows ==
    ASSUME NEW X, NEW pages \in Seq(X), NEW S, NEW key, NEW n \in Nat \ {0}, NEW page \in X,
           page \in Pages(S, key, n), pages # <<>> => WalkedBefore(pages, S, key, n)
    PROVE  WalkedBefore(Append(pages, page), S, key, n + 1)
<1> DEFINE k == Len(pages)
           all == Append(pages, page)
<1>1. /\ k \in Nat /\ Len(all) = k + 1 /\ all[k + 1] = page
      /\ \A i \in 1..k : all[i] = pages[i]
  OBVIOUS
<1>2. k < n /\ \A i \in 1..k : pages[i] \in Pages(S, key, n - 1 - k + i)
  <2>1. CASE pages = <<>>
    <3>1. k = 0
      BY <2>1
    <3> QED BY <3>1
  <2>2. CASE pages # <<>>
    BY <2>2 DEF WalkedBefore
  <2> QED BY <2>1, <2>2
<1> HIDE DEF k, all
<1>3. ASSUME NEW i \in 1..(k + 1)
      PROVE  all[i] \in Pages(S, key, (n + 1) - 1 - (k + 1) + i)
  <2>1. (n + 1) - 1 - (k + 1) + i = n - 1 - k + i
    BY <1>1
  <2>2. CASE i = k + 1
    <3>1. n - 1 - k + i = n
      BY <1>1, <2>2
    <3> QED BY <1>1, <2>1, <2>2, <3>1
  <2>3. CASE i # k + 1
    <3>1. i \in 1..k
      BY <1>1, <2>3
    <3> QED BY <1>1, <1>2, <2>1, <3>1
  <2> QED BY <2>2, <2>3
<1>4. Len(all) < n + 1
  BY <1>1, <1>2
<1> QED BY <1>1, <1>3, <1>4 DEF WalkedBefore, all

\* Who has turned all the pages has seen everything that is settled, and nothing
\* of it twice.
LEMMA WholeWalk ==
    ASSUME NEW X, NEW pages \in Seq(X), NEW S, IsFiniteSet(S),
           NEW key, \A w \in S : key[w] \in Nat,
           NEW n \in Nat, WalkedBefore(pages, S, key, n + 1)
    PROVE  /\ \A i \in DOMAIN pages : pages[i] \subseteq S
           /\ \A i, j \in DOMAIN pages :
                i # j => pages[i] \cap pages[j] \cap Settled(S, key) = {}
           /\ n = PageCount(Cardinality(S)) /\ Len(pages) = n =>
                Settled(S, key) \subseteq UNION {pages[i] : i \in DOMAIN pages}
<1> DEFINE k == Len(pages)
           at(i) == (n + 1) - 1 - k + i
<1>1. /\ k \in Nat /\ DOMAIN pages = 1..k /\ k <= n
      /\ \A i \in 1..k : pages[i] \in Pages(S, key, at(i))
  BY DEF WalkedBefore
<1> HIDE DEF k
<1>2. \A i \in 1..k : at(i) \in Nat \ {0} /\ (k = n => at(i) = i)
                      /\ \A j \in 1..k : at(i) = at(j) => i = j
  BY <1>1
<1> HIDE DEF at
<1>3. \A i \in 1..k : pages[i] \subseteq S
  BY <1>1, <1>2, PageIsShort
<1>4. ASSUME NEW i \in 1..k, NEW j \in 1..k, i # j
      PROVE  pages[i] \cap pages[j] \cap Settled(S, key) = {}
  <2> SUFFICES ASSUME NEW w \in Settled(S, key), w \in pages[i], w \in pages[j]
               PROVE  FALSE
    OBVIOUS
  <2>1. PICK p \in 1..PageCount(Cardinality(S)) :
          \A m \in Nat \ {0} : \A page \in Pages(S, key, m) : w \in page <=> m = p
    BY SettledPage
  <2>2. at(i) = p /\ at(j) = p
    BY <1>1, <1>2, <2>1
  <2> QED BY <1>2, <1>4, <2>2
<1>5. ASSUME n = PageCount(Cardinality(S)), k = n, NEW w \in Settled(S, key)
      PROVE  \E i \in 1..k : w \in pages[i]
  <2>1. PICK p \in 1..PageCount(Cardinality(S)) :
          \A m \in Nat \ {0} : \A page \in Pages(S, key, m) : w \in page <=> m = p
    BY SettledPage
  <2>2. p \in 1..k /\ at(p) = p
    BY <1>2, <1>5
  <2>3. w \in pages[p]
    BY <1>1, <1>2, <2>1, <2>2
  <2> QED BY <2>2, <2>3
<1> QED BY <1>1, <1>3, <1>4, <1>5 DEF k

\* What is shown of rows is no more than the rows.
LEMMA ImageIsSmall ==
    ASSUME NEW S, IsFiniteSet(S), NEW f, DOMAIN f = S
    PROVE  /\ IsFiniteSet({f[x] : x \in S})
           /\ Cardinality({f[x] : x \in S}) <= Cardinality(S)
<1> DEFINE T == {f[x] : x \in S}
           g == [x \in S |-> f[x]]
<1>1. g \in Surjection(S, T)
  BY DEF Surjection
<1> QED BY <1>1, FS_Surjection

-----------------------------------------------------------------------------
(* A page is put together *)

\* A read says what it read and goes on.
LEMMA Looks ==
    ASSUME WindowRight, visit # Nothing, NEW at, NEW read, Reads(at, read),
           RenderRight([asked |-> visit.asked, at |-> at, read |-> read], Now, moments, walked)
    PROVE  WindowRight'
<1>1. /\ onShelf' = onShelf /\ aisle' = aisle /\ moments' = moments
      /\ window' = window /\ walked' = walked
  BY DEF Reads, shopRows
<1>2. DOMAIN visit = {"asked", "at", "read"}
  BY DEF WindowRight, RenderRight
<1>3. visit' = [asked |-> visit.asked, at |-> at, read |-> read]
  BY <1>2 DEF Reads
<1>4. Now' = Now
  BY <1>1 DEF Now
<1>5. moments # {}
  BY DEF WindowRight
<1> QED BY <1>1, <1>3, <1>4, <1>5 DEF WindowRight, Loopless

LEMMA IsShown ==
    ASSUME WindowRight, visit # Nothing, NEW items, NEW number, NEW pages, NEW total,
           Shows(items, number, pages, total),
           {i.ware : i \in items} \subseteq Wares \cup Aisles,
           ShownRight([asked |-> visit.asked, items |-> items, number |-> number,
                       pages |-> pages, total |-> total], Now, moments,
                      Append(walked, {i.ware : i \in items}))
    PROVE  WindowRight'
<1>1. /\ onShelf' = onShelf /\ aisle' = aisle /\ moments' = moments /\ visit' = Nothing
      /\ window' = [asked |-> visit.asked, items |-> items, number |-> number,
                    pages |-> pages, total |-> total]
      /\ walked' = Append(walked, {i.ware : i \in items})
  BY DEF Shows, shopRows
<1>2. walked' \in Seq(SUBSET (Wares \cup Aisles))
  <2> DEFINE X == SUBSET (Wares \cup Aisles)
             page == {i.ware : i \in items}
  <2>1. walked \in Seq(X) /\ page \in X /\ walked' = Append(walked, page)
    BY <1>1 DEF WindowRight
  <2> HIDE DEF X, page
  <2> QED BY <2>1 DEF X
<1>3. Now' = Now
  BY <1>1 DEF Now
<1>4. moments # {}
  BY DEF WindowRight
<1> QED BY <1>1, <1>2, <1>3, <1>4 DEF WindowRight, Loopless

\* Where a page being put together stands.
AtStage(page, step) ==
    /\ WindowRight /\ AtShelf(step) /\ visit.asked.page = page

LEMMA StageIs ==
    ASSUME NEW page, NEW step, AtStage(page, step)
    PROVE  /\ visit # Nothing /\ visit.at = step /\ visit.asked.page = page
           /\ Now \in moments /\ RenderRight(visit, Now, moments, walked)
           /\ DOMAIN visit.read = ReadFields /\ AskedRight(visit.asked)
           /\ walked \in Seq(SUBSET (Wares \cup Aisles))
           /\ onShelf \in [Wares -> Ware] /\ aisle \in [Aisles -> Placed] /\ Loopless(aisle)
BY DEF AtStage, AtShelf, WindowRight, RenderRight

\* Where nothing is listed nothing is sold.
LEMMA NothingSold ==
    ASSUME ListedIds = {}, NEW a
    PROVE  SoldIn(Now, a) = {}
BY DEF ListedIds, SoldIn, Now

LEMMA NothingIsShown ==
    ASSUME WindowRight, visit # Nothing, visit.asked.page # "product", visit.at = "listed",
           ListedIds = {}, Shows({}, 1, 1, 0)
    PROVE  WindowRight'
<1> DEFINE win == [asked |-> visit.asked, items |-> {}, number |-> 1, pages |-> 1, total |-> 0]
           all == Append(walked, {})
           key == KeysOf(Now.onShelf)
<1>1. /\ RenderRight(visit, Now, moments, walked) /\ AskedRight(visit.asked)
      /\ walked \in Seq(SUBSET (Wares \cup Aisles))
  BY DEF WindowRight, RenderRight
<1>2. \A a : SoldIn(Now, a) = {}
  BY NothingSold
<1>3. {i.ware : i \in {}} = {} /\ Cardinality({}) = 0
  BY FS_EmptySet
<1>4. WasSold(win, moments)
  BY <1>3, ShopWindowConstants DEF WasSold
<1>5. ASSUME moments = {Now}
      PROVE  AllIsShown(win, Now, all)
  <2>1. PageCount(0) = 1
    BY DEF PageCount
  <2>2. ASSUME win.asked.page = "aisle"
        PROVE  WalkedBefore(all, {}, key, 2)
    <3>1. ASSUME walked # <<>>
          PROVE  WalkedBefore(walked, {}, key, 1)
      <4>1. /\ visit.asked.number <= PageCount(Cardinality({}))
            /\ WalkedBefore(walked, {}, key, visit.asked.number)
        BY <1>1, <1>2, <1>5, <2>2, <3>1 DEF RenderRight
      <4>2. visit.asked.number = 1
        BY <1>1, <1>3, <2>1, <4>1 DEF AskedRight
      <4> QED BY <4>1, <4>2
    <3>2. {} \in Pages({}, key, 1)
      BY EmptyPage
    <3>3. WalkedBefore(all, {}, key, 1 + 1)
      <4> DEFINE X == SUBSET (Wares \cup Aisles)
      <4>1. walked \in Seq(X) /\ {} \in X /\ 1 \in Nat \ {0}
        BY <1>1
      <4> HIDE DEF X, key
      <4> QED BY <3>1, <3>2, <4>1, WalkGrows, Zenon
    <3> QED BY <3>3
  <2>3. win.asked.page \in {"aisle", "search", "tiles"}
    BY <1>1 DEF AskedRight
  <2> QED BY <1>2, <1>3, <2>1, <2>2, <2>3 DEF AllIsShown
<1>6. ShownRight(win, Now, moments, all)
  BY <1>1, <1>4, <1>5 DEF ShownRight
<1> QED BY <1>3, <1>6, IsShown

LEMMA ListedIsRead ==
    ASSUME WindowRight, ReadListed
    PROVE  WindowRight'
<1> DEFINE at == CASE visit.asked.page = "aisle" -> "tree"
                   [] visit.asked.page = "search" -> "hits"
                   [] OTHER -> "stocked"
           read == [visit.read EXCEPT !.ids = ListedIds]
           v == [asked |-> visit.asked, at |-> at, read |-> read]
<1>1. /\ visit # Nothing /\ visit.at = "listed" /\ visit.asked.page # "product"
      /\ RenderRight(visit, Now, moments, walked) /\ AskedRight(visit.asked)
      /\ DOMAIN visit.read = ReadFields
  BY DEF ReadListed, AtShelf, WindowRight, RenderRight
<1>2. CASE ListedIds = {}
  BY <1>1, <1>2, NothingIsShown DEF ReadListed
<1>3. CASE ListedIds # {}
  <2>1. Reads(at, read)
    BY <1>3 DEF ReadListed
  <2>2. \/ visit.asked.page = "aisle" /\ at = "tree"
        \/ visit.asked.page = "search" /\ at = "hits"
        \/ visit.asked.page = "tiles" /\ at = "stocked"
    BY <1>1 DEF AskedRight
  <2>3. /\ DOMAIN read = ReadFields /\ read.ids = ListedIds
        /\ read.prices = Nothing /\ read.bands = Nothing
    BY <1>1 DEF ReadFields, RenderRight, NothingRead
  <2>4. ListedIds = {w \in Wares : Now.onShelf[w].listed} /\ ListedIds \subseteq Wares
    BY DEF ListedIds, Now
  <2>5. /\ v.asked = visit.asked /\ v.at = at /\ v.read = read
        /\ DOMAIN v = {"asked", "at", "read"}
    OBVIOUS
  <2> HIDE DEF v, at, read
  <2>6. RenderRight(v, Now, moments, walked)
    BY <1>1, <2>2, <2>3, <2>4, <2>5 DEF RenderRight, Stages
  <2> QED BY <1>1, <2>1, <2>6, Looks DEF v
<1> QED BY <1>2, <1>3

LEMMA TreeIsRead ==
    ASSUME WindowRight, ReadTree
    PROVE  WindowRight'
<1> DEFINE tree == IF visit.asked.want = Nothing THEN Aisles ELSE Below(aisle, visit.asked.want)
           read == [visit.read EXCEPT !.tree = tree]
           v == [asked |-> visit.asked, at |-> "count", read |-> read]
<1>1. visit # Nothing /\ visit.at = "tree" /\ Reads("count", read)
  BY DEF ReadTree, AtShelf
<1>2. /\ RenderRight(visit, Now, moments, walked) /\ AskedRight(visit.asked)
      /\ DOMAIN visit.read = ReadFields /\ visit.asked.page = "aisle" /\ Now \in moments
  BY <1>1 DEF WindowRight, RenderRight, Stages
<1>3. /\ DOMAIN read = ReadFields /\ read.ids = visit.read.ids /\ read.tree = tree
      /\ read.prices = visit.read.prices /\ read.bands = visit.read.bands
  BY <1>2 DEF ReadFields
<1>4. TreeRead(visit.asked, tree, Now, moments)
  BY <1>2 DEF TreeRead, Now
<1>5. /\ v.asked = visit.asked /\ v.at = "count" /\ v.read = read
      /\ DOMAIN v = {"asked", "at", "read"}
  OBVIOUS
<1> HIDE DEF v, read, tree
<1>6. RenderRight(v, Now, moments, walked)
  BY <1>1, <1>2, <1>3, <1>4, <1>5 DEF RenderRight, Stages
<1> QED BY <1>1, <1>6, Looks DEF v

\* The rows that match what was read, if nothing changed.
LEMMA MatchedIsSold ==
    ASSUME WindowRight, visit # Nothing, visit.at \in {"count", "rows"}
    PROVE  /\ visit.asked.page = "aisle" /\ visit.read.ids \subseteq Wares
           /\ moments = {Now} =>
                Matching(visit.read.ids, visit.read.tree) = SoldIn(Now, visit.asked.want)
<1>1. /\ RenderRight(visit, Now, moments, walked) /\ AskedRight(visit.asked)
      /\ visit.asked.page = "aisle" /\ onShelf \in [Wares -> Ware]
  BY DEF WindowRight, RenderRight, Stages
<1>2. /\ visit.read.ids \subseteq Wares /\ visit.asked.want \in Aisles \cup {Nothing}
      /\ TreeRead(visit.asked, visit.read.tree, Now, moments)
  BY <1>1 DEF RenderRight, AskedRight
<1>3. ASSUME moments = {Now}
      PROVE  Matching(visit.read.ids, visit.read.tree) = SoldIn(Now, visit.asked.want)
  <2>1. visit.read.ids = {w \in Wares : Now.onShelf[w].listed}
    BY <1>1, <1>3 DEF RenderRight
  <2>2. /\ visit.asked.want = Nothing => visit.read.tree = Aisles
        /\ visit.asked.want # Nothing => visit.read.tree = Below(Now.aisle, visit.asked.want)
    BY <1>2, <1>3 DEF TreeRead
  <2> QED BY <1>1, <1>2, <2>1, <2>2, MatchingIsSold
<1> QED BY <1>1, <1>2, <1>3

LEMMA RowsAreCounted ==
    ASSUME WindowRight, CountRows
    PROVE  WindowRight'
<1> DEFINE total == Cardinality(Matching(visit.read.ids, visit.read.tree))
           number == Clamp(visit.asked.number, total)
           read == [visit.read EXCEPT !.total = total, !.number = number]
           v == [asked |-> visit.asked, at |-> "rows", read |-> read]
<1>1. visit # Nothing /\ visit.at = "count" /\ Reads("rows", read)
  BY DEF CountRows, AtShelf
<1>2. /\ RenderRight(visit, Now, moments, walked) /\ AskedRight(visit.asked)
      /\ DOMAIN visit.read = ReadFields
  BY <1>1 DEF WindowRight, RenderRight
<1>3. /\ visit.asked.page = "aisle" /\ visit.read.ids \subseteq Wares
      /\ moments = {Now} =>
           Matching(visit.read.ids, visit.read.tree) = SoldIn(Now, visit.asked.want)
  BY <1>1, MatchedIsSold
<1>4. total \in Nat
  BY <1>3, MatchingIsFinite
<1>5. number \in 1..PageCount(total)
  BY <1>2, <1>4, ClampIsAPage DEF AskedRight
<1>6. /\ DOMAIN read = ReadFields /\ read.ids = visit.read.ids /\ read.tree = visit.read.tree
      /\ read.prices = visit.read.prices /\ read.bands = visit.read.bands
      /\ read.total = total /\ read.number = number
  BY <1>2 DEF ReadFields
<1>7. CountRight(visit.asked, read, Now, moments)
  BY <1>3, <1>4, <1>5, <1>6 DEF CountRight
<1>8. /\ v.asked = visit.asked /\ v.at = "rows" /\ v.read = read
      /\ DOMAIN v = {"asked", "at", "read"}
  OBVIOUS
<1> HIDE DEF v, read, number, total
<1>9. RenderRight(v, Now, moments, walked)
  BY <1>1, <1>2, <1>3, <1>6, <1>7, <1>8 DEF RenderRight, Stages
<1> QED BY <1>1, <1>9, Looks DEF v

\* Rows that are of now were active and in the aisle.
LEMMA RowsAreRead ==
    ASSUME WindowRight, ReadRows
    PROVE  WindowRight'
<1> DEFINE S == Matching(visit.read.ids, visit.read.tree)
           q == visit.asked
<1>0. PICK chosen \in Pages(S, KeysOf(onShelf), visit.read.number) :
        Reads("details", [visit.read EXCEPT !.rows = chosen])
  BY DEF ReadRows
<1> DEFINE read == [visit.read EXCEPT !.rows = chosen]
           v == [asked |-> visit.asked, at |-> "details", read |-> read]
<1>1. visit # Nothing /\ visit.at = "rows" /\ Reads("details", read)
  BY <1>0 DEF ReadRows, AtShelf
<1>2. /\ RenderRight(visit, Now, moments, walked) /\ AskedRight(visit.asked)
      /\ DOMAIN visit.read = ReadFields /\ Now \in moments
  BY <1>1 DEF WindowRight, RenderRight
<1>3. /\ q.page = "aisle" /\ visit.read.ids \subseteq Wares
      /\ moments = {Now} => S = SoldIn(Now, q.want)
  BY <1>1, MatchedIsSold
<1>4. /\ CountRight(q, visit.read, Now, moments)
      /\ TreeRead(q, visit.read.tree, Now, moments)
      /\ visit.read.prices = Nothing /\ visit.read.bands = Nothing
  BY <1>1, <1>2, <1>3 DEF RenderRight
<1>5. /\ visit.read.total \in Nat /\ visit.read.number \in 1..PageCount(visit.read.total)
      /\ PageCount(visit.read.total) \in Nat
  BY <1>4, LastPage DEF CountRight
<1>6. visit.read.number \in Nat \ {0}
  BY <1>5
<1>7. S \subseteq Wares /\ IsFiniteSet(S)
  BY <1>3, MatchingIsFinite
<1>8. Cardinality(chosen) <= PageSize /\ chosen \subseteq S
  BY <1>6, <1>7, PageIsShort
<1>9. ASSUME NEW w \in chosen
      PROVE  /\ OnceActive(moments, w)
             /\ q.page = "aisle" /\ q.want # Nothing => OnceUnder(moments, w, q.want)
  <2>1. w \in S
    BY <1>8
  <2>2. onShelf[w].active /\ onShelf[w].aisle \in visit.read.tree
    BY <2>1 DEF Matching
  <2>3. OnceActive(moments, w)
    BY <1>2, <2>2 DEF OnceActive, Now
  <2>4. ASSUME q.want # Nothing
        PROVE  OnceUnder(moments, w, q.want)
    <3>1. PICK n \in moments : visit.read.tree = Below(n.aisle, q.want)
      BY <1>4, <2>4 DEF TreeRead
    <3>2. q.want \in Aisles
      BY <1>2, <1>3, <2>4 DEF AskedRight
    <3>3. q.want \in Trail(n.aisle, Now.onShelf[w].aisle)
      BY <2>2, <3>1, <3>2 DEF Trail, Now
    <3> QED BY <1>2, <3>3 DEF OnceUnder
  <2> QED BY <2>3, <2>4
<1>10. /\ DOMAIN read = ReadFields /\ read.ids = visit.read.ids /\ read.rows = chosen
       /\ read.prices = Nothing /\ read.bands = Nothing
       /\ read.total = visit.read.total /\ read.number = visit.read.number
  BY <1>2, <1>4 DEF ReadFields
<1>11. ASSUME moments = {Now}
       PROVE  RowsAre(q, read, Now)
  <2>1. chosen \subseteq SoldIn(Now, Nothing)
    BY <1>3, <1>8, <1>11, SoldIsFinite
  <2>2. chosen \in Pages(SoldIn(Now, q.want), KeysOf(Now.onShelf), read.number)
    BY <1>3, <1>10, <1>11 DEF Now
  <2> QED BY <1>3, <1>10, <2>1, <2>2 DEF RowsAre
<1>12. /\ v.asked = q /\ v.at = "details" /\ v.read = read
       /\ DOMAIN v = {"asked", "at", "read"}
  OBVIOUS
<1> HIDE DEF v, read, S
<1>13. DetailsRight(q, read, Now, moments)
  BY <1>5, <1>7, <1>8, <1>9, <1>10, <1>11 DEF DetailsRight
<1>14. CountRight(q, read, Now, moments)
  BY <1>4, <1>10 DEF CountRight
<1>15. RenderRight(v, Now, moments, walked)
  BY <1>1, <1>2, <1>3, <1>10, <1>12, <1>13, <1>14 DEF RenderRight, Stages
<1> QED BY <1>1, <1>15, Looks DEF v

\* What is found is hits, finitely many, and some if any matches.
LEMMA FoundHits ==
    ASSUME NEW ids, NEW found \in Found(ids)
    PROVE  /\ found \subseteq ids \cap DOMAIN Hits /\ found \subseteq Wares
           /\ IsFiniteSet(found) /\ Cardinality(found) \in Nat
           /\ \A w \in found : onShelf[w].active
           /\ found = {} => \A w \in ids \cap DOMAIN Hits : ~onShelf[w].active
<1> DEFINE match == {w \in ids \cap DOMAIN Hits : onShelf[w].active}
<1>1. match \subseteq Wares /\ IsFiniteSet(match) /\ SearchLimit \in Nat \ {0}
  BY ShopWindowConstants, FS_Subset
<1>2. found \in First(match, Hits, SearchLimit)
  BY DEF Found
<1>3. /\ found \subseteq match /\ IsFiniteSet(found) /\ Cardinality(found) \in Nat
      /\ found # match => Cardinality(found) = SearchLimit
  BY <1>1, <1>2, FirstRows
<1>4. found = {} => match = {}
  BY <1>1, <1>3, FS_EmptySet
<1> QED BY <1>1, <1>3, <1>4

LEMMA HitsAreRead ==
    ASSUME WindowRight, ReadHits
    PROVE  WindowRight'
<1>0. PICK found \in Found(visit.read.ids) :
        LET n == Clamp(visit.asked.number, Cardinality(found))
        IN IF found = {}
           THEN Shows({}, 1, 1, 0)
           ELSE \E page \in Pages(found, Hits, n) :
                  Reads("details", [visit.read EXCEPT !.total = Cardinality(found), !.number = n,
                                                      !.rows = page])
  BY DEF ReadHits
<1> DEFINE total == Cardinality(found)
           number == Clamp(visit.asked.number, total)
           win == [asked |-> visit.asked, items |-> {}, number |-> 1, pages |-> 1, total |-> 0]
           q == visit.asked
<1>1. visit # Nothing /\ visit.at = "hits"
  BY DEF ReadHits, AtShelf
<1>2. /\ RenderRight(visit, Now, moments, walked) /\ AskedRight(q)
      /\ DOMAIN visit.read = ReadFields /\ Now \in moments /\ q.page = "search"
  BY <1>1 DEF WindowRight, RenderRight, Stages
<1>3. /\ visit.read.ids \subseteq Wares /\ visit.read.prices = Nothing /\ visit.read.bands = Nothing
      /\ moments = {Now} => visit.read.ids = {w \in Wares : Now.onShelf[w].listed}
  BY <1>1, <1>2 DEF RenderRight
<1>4. /\ found \subseteq visit.read.ids /\ IsFiniteSet(found) /\ total \in Nat
      /\ \A w \in found : onShelf[w].active
      /\ found = {} => \A w \in visit.read.ids \cap DOMAIN Hits : ~onShelf[w].active
  BY FoundHits
<1>5. SoldIn(Now, Nothing) = {w \in Wares : onShelf[w].listed /\ onShelf[w].active}
  BY DEF SoldIn, Now
<1>6. ASSUME moments = {Now}
      PROVE  \A w \in Wares : w \in visit.read.ids /\ onShelf[w].active <=> w \in SoldIn(Now, Nothing)
  BY <1>3, <1>5, <1>6 DEF Now
<1>7. CASE found = {}
  <2>1. Shows({}, 1, 1, 0)
    BY <1>0, <1>7
  <2>2. {i.ware : i \in {}} = {} /\ Cardinality({}) = 0
    BY FS_EmptySet
  <2>3. WasSold(win, moments)
    BY <2>2, ShopWindowConstants DEF WasSold
  <2>4. ASSUME moments = {Now}
        PROVE  AllIsShown(win, Now, Append(walked, {i.ware : i \in {}}))
    <3>1. DOMAIN Hits \cap SoldIn(Now, Nothing) = {}
      BY <1>3, <1>4, <1>6, <1>7, <2>4 DEF SoldIn
    <3> QED BY <1>2, <2>2, <3>1 DEF AllIsShown
  <2>5. ShownRight(win, Now, moments, Append(walked, {i.ware : i \in {}}))
    BY <1>2, <2>3, <2>4 DEF ShownRight
  <2> QED BY <1>1, <2>1, <2>2, <2>5, IsShown
<1>8. CASE found # {}
  <2>0. PICK page \in Pages(found, Hits, number) :
          Reads("details", [visit.read EXCEPT !.total = total, !.number = number, !.rows = page])
    BY <1>0, <1>8
  <2> DEFINE read == [visit.read EXCEPT !.total = total, !.number = number, !.rows = page]
             v == [asked |-> visit.asked, at |-> "details", read |-> read]
  <2>1. Reads("details", read)
    BY <2>0
  <2>2. number \in 1..PageCount(total) /\ PageCount(total) \in Nat
    BY <1>2, <1>4, ClampIsAPage, LastPage DEF AskedRight
  <2>3. number \in Nat \ {0}
    BY <2>2
  <2>4. page \subseteq found /\ Cardinality(page) <= PageSize
    BY <1>4, <2>3, PageIsShort
  <2>5. page # {}
    BY <1>4, <1>8, <2>2, PageHasRows
  <2>6. /\ page \subseteq Wares /\ page \subseteq visit.read.ids
        /\ \A w \in page : onShelf[w].active
    BY <1>3, <1>4, <2>4
  <2>8. /\ DOMAIN read = ReadFields /\ read.ids = visit.read.ids /\ read.rows = page
        /\ read.prices = Nothing /\ read.bands = Nothing
        /\ read.total = total /\ read.number = number
    BY <1>2, <1>3 DEF ReadFields
  <2>9. \A w \in page : OnceActive(moments, w)
    BY <1>2, <2>6 DEF OnceActive, Now
  <2>10. ASSUME moments = {Now}
         PROVE  RowsAre(q, read, Now)
    <3>1. page \subseteq SoldIn(Now, Nothing)
      BY <1>6, <2>6, <2>10
    <3> QED BY <1>2, <2>5, <2>8, <3>1 DEF RowsAre
  <2>11. /\ v.asked = q /\ v.at = "details" /\ v.read = read
         /\ DOMAIN v = {"asked", "at", "read"}
    OBVIOUS
  <2> HIDE DEF v, read, number, total
  <2>12. DetailsRight(q, read, Now, moments)
    BY <1>2, <1>4, <2>2, <2>4, <2>6, <2>8, <2>9, <2>10 DEF DetailsRight
  <2>13. RenderRight(v, Now, moments, walked)
    BY <1>1, <1>2, <2>8, <2>11, <2>12 DEF RenderRight, Stages
  <2> QED BY <1>1, <2>1, <2>13, Looks DEF v
<1> QED BY <1>7, <1>8

LEMMA ListingIsRead ==
    ASSUME WindowRight, ReadProductListing
    PROVE  WindowRight'
<1> DEFINE q == visit.asked
           w == visit.asked.want
           prices == [p \in {w} |-> onShelf[p].price]
           read == [visit.read EXCEPT !.rows = {w}, !.prices = prices]
           v == [asked |-> visit.asked, at |-> "details", read |-> read]
           win == [asked |-> visit.asked, items |-> {}, number |-> 1, pages |-> 1, total |-> 0]
<1>1. visit # Nothing /\ visit.at = "listed" /\ q.page = "product"
  BY DEF ReadProductListing, AtShelf
<1>2. /\ RenderRight(visit, Now, moments, walked) /\ AskedRight(q) /\ w \in Wares
      /\ DOMAIN visit.read = ReadFields /\ Now \in moments /\ visit.read = NothingRead
      /\ OnceActive(moments, w)
      /\ moments = {Now} => onShelf[w].active
  BY <1>1 DEF WindowRight, RenderRight, AskedRight, Now
<1>3. SoldIn(Now, Nothing) = {p \in Wares : onShelf[p].listed /\ onShelf[p].active}
  BY DEF SoldIn, Now
<1>4. CASE ~onShelf[w].listed
  <2>1. Shows({}, 1, 1, 0)
    BY <1>4 DEF ReadProductListing
  <2>2. {i.ware : i \in {}} = {} /\ Cardinality({}) = 0
    BY FS_EmptySet
  <2>3. WasSold(win, moments)
    BY <2>2, ShopWindowConstants DEF WasSold
  <2>4. AllIsShown(win, Now, Append(walked, {i.ware : i \in {}}))
    <3>1. {} = {w} \cap SoldIn(Now, Nothing)
      BY <1>3, <1>4
    <3> QED BY <1>1, <2>2, <3>1 DEF AllIsShown
  <2>5. ShownRight(win, Now, moments, Append(walked, {i.ware : i \in {}}))
    BY <1>2, <2>3, <2>4 DEF ShownRight
  <2> QED BY <1>1, <2>1, <2>2, <2>5, IsShown
<1>5. CASE onShelf[w].listed
  <2>1. Reads("details", read)
    BY <1>5 DEF ReadProductListing
  <2>2. /\ DOMAIN read = ReadFields /\ read.rows = {w} /\ read.prices = prices
        /\ read.bands = Nothing /\ read.total = 0 /\ read.number = 1
    BY <1>2 DEF ReadFields, NothingRead
  <2>3. Cardinality({w}) = 1 /\ 1 <= PageSize /\ PageCount(0) = 1
    <3>1. Cardinality({w}) = 1
      BY FS_Singleton, Zenon
    <3> QED BY <3>1, ShopWindowConstants DEF PageCount
  <2>4. DOMAIN prices = {w} /\ OnceListed(moments, w, prices[w])
    BY <1>2, <1>5 DEF OnceListed, Now
  <2>5. ASSUME moments = {Now}
        PROVE  RowsAre(q, read, Now)
    BY <1>1, <1>2, <1>3, <1>5, <2>2, <2>4, <2>5 DEF RowsAre
  <2>6. /\ v.asked = q /\ v.at = "details" /\ v.read = read
        /\ DOMAIN v = {"asked", "at", "read"}
    OBVIOUS
  <2> HIDE DEF v, read, prices
  <2>7. DetailsRight(q, read, Now, moments)
    BY <1>1, <1>2, <2>2, <2>3, <2>4, <2>5 DEF DetailsRight
  <2>8. RenderRight(v, Now, moments, walked)
    BY <1>1, <1>2, <2>2, <2>6, <2>7 DEF RenderRight, Stages
  <2> QED BY <1>1, <2>1, <2>8, Looks DEF v
<1> QED BY <1>4, <1>5

LEMMA BandsAreRead ==
    ASSUME WindowRight, ReadBands
    PROVE  WindowRight'
<1> DEFINE bands == [w \in visit.read.rows |-> Band(onShelf[w].stock)]
           read == [visit.read EXCEPT !.bands = bands]
           v == [asked |-> visit.asked, at |-> "details", read |-> read]
<1>1. visit # Nothing /\ visit.at = "details" /\ Reads("details", read)
  BY DEF ReadBands, AtShelf
<1>2. /\ RenderRight(visit, Now, moments, walked)
      /\ DOMAIN visit.read = ReadFields /\ Now \in moments
      /\ DetailsRight(visit.asked, visit.read, Now, moments)
  BY <1>1 DEF WindowRight, RenderRight
<1>3. /\ DOMAIN read = ReadFields /\ read.ids = visit.read.ids /\ read.rows = visit.read.rows
      /\ read.prices = visit.read.prices /\ read.bands = bands
      /\ read.total = visit.read.total /\ read.number = visit.read.number
  BY <1>2 DEF ReadFields
<1>4. \A w \in read.rows : OnceBanded(moments, w, bands[w])
  <2> SUFFICES ASSUME NEW w \in visit.read.rows
               PROVE  OnceBanded(moments, w, bands[w])
    BY <1>3
  <2>1. bands[w] = Band(Now.onShelf[w].stock)
    BY DEF Now
  <2> QED BY <1>2, <2>1 DEF OnceBanded
<1>5. /\ v.asked = visit.asked /\ v.at = "details" /\ v.read = read
      /\ DOMAIN v = {"asked", "at", "read"}
  OBVIOUS
<1> HIDE DEF v, read, bands
<1>6. DetailsRight(visit.asked, read, Now, moments)
  BY <1>2, <1>3, <1>4 DEF DetailsRight, RowsAre
<1>7. RenderRight(v, Now, moments, walked)
  BY <1>1, <1>2, <1>3, <1>5, <1>6 DEF RenderRight, CountRight
<1> QED BY <1>1, <1>7, Looks DEF v

LEMMA PricesAreRead ==
    ASSUME WindowRight, ReadPrices
    PROVE  WindowRight'
<1> DEFINE priced == {w \in visit.read.rows : onShelf[w].listed}
           prices == [w \in priced |-> onShelf[w].price]
           read == [visit.read EXCEPT !.prices = prices]
           v == [asked |-> visit.asked, at |-> "details", read |-> read]
<1>1. visit # Nothing /\ visit.at = "details" /\ Reads("details", read)
  BY DEF ReadPrices, AtShelf
<1>2. /\ RenderRight(visit, Now, moments, walked)
      /\ DOMAIN visit.read = ReadFields /\ Now \in moments
      /\ DetailsRight(visit.asked, visit.read, Now, moments)
  BY <1>1 DEF WindowRight, RenderRight
<1>3. /\ DOMAIN read = ReadFields /\ read.ids = visit.read.ids /\ read.rows = visit.read.rows
      /\ read.prices = prices /\ read.bands = visit.read.bands
      /\ read.total = visit.read.total /\ read.number = visit.read.number
  BY <1>2 DEF ReadFields
<1>4. /\ DOMAIN prices = priced /\ priced \subseteq visit.read.rows
      /\ \A w \in priced : OnceListed(moments, w, prices[w])
  <2>1. ASSUME NEW w \in priced
        PROVE  OnceListed(moments, w, prices[w])
    <3>1. Now.onShelf[w].listed /\ Now.onShelf[w].price = prices[w]
      BY DEF Now
    <3> QED BY <1>2, <3>1 DEF OnceListed
  <2> QED BY <2>1
<1>5. ASSUME moments = {Now}
      PROVE  priced = visit.read.rows
  <2>1. visit.read.rows \subseteq SoldIn(Now, Nothing)
    BY <1>2, <1>5 DEF DetailsRight, RowsAre
  <2> QED BY <2>1 DEF SoldIn, Now
<1>6. /\ v.asked = visit.asked /\ v.at = "details" /\ v.read = read
      /\ DOMAIN v = {"asked", "at", "read"}
  OBVIOUS
<1> HIDE DEF v, read, prices, priced
<1>7. DetailsRight(visit.asked, read, Now, moments)
  BY <1>2, <1>3, <1>4, <1>5 DEF DetailsRight, RowsAre
<1>8. RenderRight(v, Now, moments, walked)
  BY <1>1, <1>2, <1>3, <1>6, <1>7 DEF RenderRight, CountRight
<1> QED BY <1>1, <1>8, Looks DEF v

LEMMA PageIsShown ==
    ASSUME WindowRight, ShowPage
    PROVE  WindowRight'
<1> DEFINE q == visit.asked
           r == visit.read
           priced == r.rows \cap DOMAIN r.prices
           item == [w \in priced |-> [ware |-> w, price |-> r.prices[w], stock |-> r.bands[w]]]
           items == {[ware |-> w, price |-> r.prices[w], stock |-> r.bands[w]] : w \in priced}
           win == [asked |-> q, items |-> items, number |-> r.number,
                   pages |-> PageCount(r.total), total |-> r.total]
           wares == {i.ware : i \in items}
           all == Append(walked, wares)
<1>1. /\ visit # Nothing /\ visit.at = "details" /\ r.bands # Nothing /\ r.prices # Nothing
      /\ Shows(items, r.number, PageCount(r.total), r.total)
  BY DEF ShowPage, AtShelf
<1>2. /\ RenderRight(visit, Now, moments, walked) /\ AskedRight(q)
      /\ Now \in moments /\ DetailsRight(q, r, Now, moments)
      /\ walked \in Seq(SUBSET (Wares \cup Aisles))
      /\ q.page \in {"aisle", "search", "product"}
  BY <1>1 DEF WindowRight, RenderRight, Stages
<1>3. wares = priced
  <2> HIDE DEF priced
  <2>1. \A i \in items : i.ware \in priced
    OBVIOUS
  <2>2. ASSUME NEW w \in priced
        PROVE  \E i \in items : i.ware = w
    <3> DEFINE i == [ware |-> w, price |-> r.prices[w], stock |-> r.bands[w]]
    <3>1. i.ware = w /\ i \in items
      OBVIOUS
    <3> QED BY <3>1
  <2> HIDE DEF items
  <2> QED BY <2>1, <2>2
<1>4. /\ r.rows \subseteq Wares /\ Cardinality(r.rows) <= PageSize /\ IsFiniteSet(r.rows)
      /\ Cardinality(r.rows) \in Nat
      /\ r.total \in Nat /\ r.number \in 1..PageCount(r.total) /\ PageCount(r.total) \in Nat
  BY <1>2, ShopWindowConstants, FS_Subset, FS_CardinalityType, LastPage DEF DetailsRight
<1>5. WasSold(win, moments)
  <2>1. items = {item[w] : w \in priced} /\ DOMAIN item = priced
    OBVIOUS
  <2>2. IsFiniteSet(priced) /\ Cardinality(priced) <= Cardinality(r.rows) /\ Cardinality(priced) \in Nat
    BY <1>4, FS_Subset, FS_CardinalityType
  <2>3. Cardinality(items) <= PageSize
    <3> HIDE DEF item, items, priced
    <3>1. IsFiniteSet(items) /\ Cardinality(items) <= Cardinality(priced)
      BY <2>1, <2>2, ImageIsSmall
    <3>2. Cardinality(items) \in Nat
      BY <3>1, FS_CardinalityType
    <3> QED BY <1>4, <2>2, <3>1, <3>2, ShopWindowConstants
  <2>4. ASSUME NEW i \in items
        PROVE  /\ OnceListed(moments, i.ware, i.price) /\ OnceBanded(moments, i.ware, i.stock)
               /\ OnceActive(moments, i.ware)
               /\ q.page = "aisle" /\ q.want # Nothing => OnceUnder(moments, i.ware, q.want)
    <3>1. PICK w \in priced : i = [ware |-> w, price |-> r.prices[w], stock |-> r.bands[w]]
      BY <2>4
    <3>2. i.ware = w /\ i.price = r.prices[w] /\ i.stock = r.bands[w]
      BY <3>1
    <3> QED BY <1>1, <1>2, <3>1, <3>2 DEF DetailsRight
  <2> HIDE DEF items
  <2> QED BY <1>4, <2>3, <2>4 DEF WasSold
<1>6. ASSUME moments = {Now}
      PROVE  AllIsShown(win, Now, all)
  <2>1. RowsAre(q, r, Now) /\ priced = r.rows
    BY <1>1, <1>2, <1>6 DEF DetailsRight, RowsAre
  <2>2. CASE q.page = "aisle"
    <3> DEFINE S == SoldIn(Now, q.want)
               key == KeysOf(Now.onShelf)
    <3>1. /\ r.total = Cardinality(S) /\ r.number = Clamp(q.number, r.total)
          /\ r.rows \in Pages(S, key, r.number)
      BY <1>1, <1>2, <1>6, <2>1, <2>2 DEF RowsAre, RenderRight, CountRight
    <3>2. walked # <<>> => WalkedBefore(walked, S, key, r.number)
      <4>1. ASSUME walked # <<>>
            PROVE  q.number <= PageCount(r.total) /\ WalkedBefore(walked, S, key, q.number)
        BY <1>2, <1>6, <2>2, <3>1, <4>1 DEF RenderRight
      <4>2. q.number <= PageCount(r.total) => r.number = q.number
        BY <1>2, <1>4, <3>1 DEF Clamp, AskedRight
      <4> QED BY <4>1, <4>2
    <3>3. WalkedBefore(all, S, key, r.number + 1)
      <4> DEFINE X == SUBSET (Wares \cup Aisles)
      <4>1. walked \in Seq(X) /\ wares \in X /\ r.number \in Nat \ {0}
        BY <1>2, <1>3, <1>4, <2>1
      <4>2. wares \in Pages(S, key, r.number)
        BY <1>3, <2>1, <3>1
      <4> HIDE DEF X, wares, S, key, r
      <4> QED BY <3>2, <4>1, <4>2, WalkGrows, Zenon
    <3> HIDE DEF all
    <3> QED BY <2>2, <3>1, <3>3 DEF AllIsShown
  <2>3. CASE q.page = "search"
    BY <1>3, <2>1, <2>3 DEF AllIsShown, RowsAre
  <2>4. CASE q.page = "product"
    BY <1>3, <2>1, <2>4 DEF AllIsShown, RowsAre
  <2> QED BY <1>2, <2>2, <2>3, <2>4
<1>7. ShownRight(win, Now, moments, all)
  BY <1>2, <1>5, <1>6 DEF ShownRight
<1>8. wares \subseteq Wares \cup Aisles
  BY <1>3, <1>4
<1> HIDE DEF items
<1> QED BY <1>1, <1>7, <1>8, IsShown

LEMMA TilesAreShown ==
    ASSUME WindowRight, ShowTiles
    PROVE  WindowRight'
<1> DEFINE q == visit.asked
           stocked == {onShelf[w].aisle : w \in Matching(visit.read.ids, Aisles)}
           tiles == {a \in Aisles : aisle[a].under = Root /\ Below(aisle, a) \cap stocked # {}}
           items == {[ware |-> a] : a \in tiles}
           total == Cardinality(tiles)
           win == [asked |-> q, items |-> items, number |-> 1, pages |-> 1, total |-> total]
           all == Append(walked, {i.ware : i \in items})
<1>1. visit # Nothing /\ visit.at = "stocked" /\ Shows(items, 1, 1, total)
  BY DEF ShowTiles, AtShelf
<1>2. /\ RenderRight(visit, Now, moments, walked) /\ AskedRight(q) /\ q.page = "tiles"
      /\ onShelf \in [Wares -> Ware] /\ aisle \in [Aisles -> Placed] /\ Loopless(aisle)
  BY <1>1 DEF WindowRight, RenderRight, Stages
<1>3. {i.ware : i \in items} = tiles
  <2> HIDE DEF tiles
  <2>1. \A i \in items : i.ware \in tiles
    OBVIOUS
  <2>2. ASSUME NEW a \in tiles
        PROVE  \E i \in items : i.ware = a
    <3>1. [ware |-> a].ware = a /\ [ware |-> a] \in items
      OBVIOUS
    <3> QED BY <3>1
  <2> HIDE DEF items
  <2> QED BY <2>1, <2>2
<1>4. ASSUME moments = {Now}
      PROVE  AllIsShown(win, Now, all)
  <2>1. visit.read.ids = {w \in Wares : Now.onShelf[w].listed}
    BY <1>1, <1>2, <1>4 DEF RenderRight
  <2>2. Matching(visit.read.ids, Aisles) = SoldIn(Now, Nothing)
    BY <1>2, <2>1, MatchingIsSold
  <2>3. \A w \in Wares : Now.onShelf[w].aisle \in Aisles
    BY <1>2 DEF Now, Ware
  <2>4. stocked = {Now.onShelf[w].aisle : w \in SoldIn(Now, Nothing)}
    BY <2>2 DEF Now
  <2>5. ASSUME NEW a \in Aisles, NEW w \in SoldIn(Now, Nothing),
               Now.onShelf[w].aisle \in Below(aisle, a)
        PROVE  w \in SoldIn(Now, a)
    <3>1. a \in Trail(Now.aisle, Now.onShelf[w].aisle)
      BY <2>5 DEF Trail, Now
    <3> QED BY <2>5, <3>1 DEF SoldIn
  <2>6. \A a \in tiles : SoldIn(Now, a) # {}
    <3> SUFFICES ASSUME NEW a \in tiles PROVE SoldIn(Now, a) # {}
      OBVIOUS
    <3>1. PICK d \in stocked : d \in Below(aisle, a)
      OBVIOUS
    <3>2. PICK w \in SoldIn(Now, Nothing) : d = Now.onShelf[w].aisle
      BY <2>4, <3>1
    <3> QED BY <2>5, <3>1, <3>2
  <2>7. ASSUME NEW w \in SoldIn(Now, Nothing)
        PROVE  \E a \in tiles : w \in SoldIn(Now, a)
    <3> DEFINE d == Now.onShelf[w].aisle
    <3>1. d \in Aisles /\ d \in stocked
      BY <2>3, <2>4, <2>7 DEF SoldIn
    <3>2. PICK a \in Aisles : aisle[a].under = Root /\ d \in Below(aisle, a)
      BY <1>2, <3>1, TopOfEach
    <3>3. a \in tiles
      BY <3>1, <3>2
    <3> QED BY <2>5, <3>2, <3>3
  <2>8. \A a \in tiles : SoldIn(Now, a) \subseteq SoldIn(Now, Nothing)
    BY SoldIsFinite
  <2> HIDE DEF tiles
  <2>9. SoldIn(Now, Nothing) = UNION {SoldIn(Now, a) : a \in tiles}
    BY <2>7, <2>8
  <2> HIDE DEF items
  <2> QED BY <1>2, <1>3, <2>6, <2>9 DEF AllIsShown
<1>5. ShownRight(win, Now, moments, all)
  BY <1>2, <1>4 DEF ShownRight
<1> HIDE DEF items
<1> QED BY <1>1, <1>3, <1>5, IsShown

-----------------------------------------------------------------------------
(* Visitors come, and staff commit *)

\* What there once was is not undone.
LEMMA OnceIsForever ==
    ASSUME NEW ms, NEW ns, ms \subseteq ns
    PROVE  /\ \A w, price : OnceListed(ms, w, price) => OnceListed(ns, w, price)
           /\ \A w : OnceActive(ms, w) => OnceActive(ns, w)
           /\ \A w, band : OnceBanded(ms, w, band) => OnceBanded(ns, w, band)
           /\ \A w, a : OnceUnder(ms, w, a) => OnceUnder(ns, w, a)
BY DEF OnceListed, OnceActive, OnceBanded, OnceUnder

\* A page relies on no more than that once something has changed.
LEMMA ViewOutlasts ==
    ASSUME NEW v, NEW m, NEW ms, NEW pages, RenderRight(v, m, ms, pages),
           NEW n, NEW ns, ms \subseteq ns, ns # {n}
    PROVE  RenderRight(v, n, ns, pages)
<1>1. v.at \in {"count", "rows"} => TreeRead(v.asked, v.read.tree, n, ns)
  BY DEF RenderRight, TreeRead
<1>2. v.asked.page = "aisle" /\ v.at \in {"rows", "details"} => CountRight(v.asked, v.read, n, ns)
  BY DEF RenderRight, CountRight
<1>3. ASSUME v.at = "details"
      PROVE  DetailsRight(v.asked, v.read, n, ns)
  <2> DEFINE q == v.asked
             r == v.read
  <2>1. DetailsRight(q, r, m, ms)
    BY <1>3 DEF RenderRight
  <2> HIDE DEF q, r
  <2>2. \A w \in r.rows :
          /\ OnceActive(ns, w)
          /\ q.page = "aisle" /\ q.want # Nothing => OnceUnder(ns, w, q.want)
          /\ r.bands # Nothing => OnceBanded(ns, w, r.bands[w])
    BY <2>1, OnceIsForever DEF DetailsRight
  <2>3. r.prices # Nothing => \A w \in DOMAIN r.prices : OnceListed(ns, w, r.prices[w])
    BY <2>1, OnceIsForever DEF DetailsRight
  <2>4. DetailsRight(q, r, n, ns)
    BY <2>1, <2>2, <2>3 DEF DetailsRight
  <2> QED BY <2>4 DEF q, r
<1> QED BY <1>1, <1>2, <1>3, OnceIsForever DEF RenderRight

LEMMA ShownOutlasts ==
    ASSUME NEW win, NEW m, NEW ms, NEW pages, ShownRight(win, m, ms, pages),
           NEW n, NEW ns, ms \subseteq ns, ns # {n}
    PROVE  ShownRight(win, n, ns, pages)
BY OnceIsForever DEF ShownRight, WasSold

LEMMA CommitKeeps ==
    ASSUME WindowRight, visit # Nothing, UNCHANGED <<visit, window, walked>>,
           onShelf' \in [Wares -> Ware], aisle' \in [Aisles -> Placed], Loopless(aisle'),
           moments' = moments \cup {Now'}, Now' # Now
    PROVE  WindowRight'
<1>1. visit' = visit /\ window' = window /\ walked' = walked
  OBVIOUS
<1>2. Now \in moments
  BY DEF WindowRight
<1>3. moments \subseteq moments' /\ moments' # {Now'} /\ Now' \in moments'
  BY <1>2
<1>4. visit' # Nothing => RenderRight(visit', Now', moments', walked')
  <2>1. RenderRight(visit, Now, moments, walked)
    BY DEF WindowRight
  <2>2. RenderRight(visit, Now', moments', walked)
    BY <1>3, <2>1, ViewOutlasts, Zenon
  <2> QED BY <1>1, <2>2
<1>5. window' # Nothing => ShownRight(window', Now', moments', walked')
  <2>1. window # Nothing => ShownRight(window, Now, moments, walked)
    BY DEF WindowRight
  <2>2. window # Nothing => ShownRight(window, Now', moments', walked)
    BY <1>3, <2>1, ShownOutlasts, Zenon
  <2> QED BY <1>1, <2>2
<1> QED BY <1>1, <1>3, <1>4, <1>5 DEF WindowRight, Loopless

\* Each commit of staff changes one row of the shelf or one category.
LEMMA StaffCommit ==
    ASSUME WindowRight,
           Refile \/ Reorder \/ SwitchWare \/ SwitchListing \/ Reprice \/ SellOut \/ Rearrange
    PROVE  WindowRight'
<1>1. /\ onShelf \in [Wares -> Ware] /\ aisle \in [Aisles -> Placed] /\ Loopless(aisle)
  BY DEF WindowRight
<1>2. ASSUME NEW w \in Wares, NEW row \in Ware, CommitsWare(w, row)
      PROVE  WindowRight'
  <2>1. /\ visit # Nothing /\ UNCHANGED <<visit, window, walked>> /\ aisle' = aisle
        /\ onShelf' = [onShelf EXCEPT ![w] = row] /\ row # onShelf[w]
        /\ moments' = moments \cup {[onShelf |-> onShelf', aisle |-> aisle]}
    BY <1>2 DEF CommitsWare
  <2>2. Now' = [onShelf |-> onShelf', aisle |-> aisle]
    BY <2>1 DEF Now
  <2>3. onShelf'[w] = row /\ onShelf' \in [Wares -> Ware]
    BY <1>1, <1>2, <2>1
  <2>4. Now' # Now
    <3>1. Now'.onShelf = onShelf' /\ Now.onShelf = onShelf
      BY <2>2 DEF Now
    <3> QED BY <2>1, <2>3, <3>1
  <2> QED BY <1>1, <2>1, <2>2, <2>3, <2>4, CommitKeeps DEF Loopless
<1>3. ASSUME NEW w \in Wares
      PROVE  /\ \A a \in Aisles : [onShelf[w] EXCEPT !.aisle = a] \in Ware
             /\ \A k \in 1..2 : [onShelf[w] EXCEPT !.key = k] \in Ware
             /\ [onShelf[w] EXCEPT !.active = ~onShelf[w].active] \in Ware
             /\ [onShelf[w] EXCEPT !.listed = ~onShelf[w].listed] \in Ware
             /\ [onShelf[w] EXCEPT !.stock = 0] \in Ware
             /\ \A p \in 1..2 : [onShelf[w] EXCEPT !.price = p, !.listed =
                                   onShelf[w].listed \/ onShelf[w].price = 0] \in Ware
  <2> DEFINE row == onShelf[w]
  <2>1. row \in Ware
    BY <1>1
  <2> HIDE DEF row
  <2>2. /\ \A a \in Aisles : [row EXCEPT !.aisle = a] \in Ware
        /\ \A k \in 1..2 : [row EXCEPT !.key = k] \in Ware
        /\ [row EXCEPT !.stock = 0] \in Ware
    BY <2>1 DEF Ware
  <2>3. /\ [row EXCEPT !.active = ~row.active] \in Ware
        /\ [row EXCEPT !.listed = ~row.listed] \in Ware
    BY <2>1 DEF Ware
  <2>4. ASSUME NEW p \in 1..2
        PROVE  [row EXCEPT !.price = p, !.listed = row.listed \/ row.price = 0] \in Ware
    <3> DEFINE listed == row.listed \/ row.price = 0
    <3>1. p \in Nat /\ listed \in BOOLEAN
      OBVIOUS
    <3> HIDE DEF listed
    <3>2. [row EXCEPT !.price = p, !.listed = listed] \in Ware
      BY <2>1, <3>1 DEF Ware
    <3> QED BY <3>2 DEF listed
  <2> QED BY <2>2, <2>3, <2>4 DEF row
<1>4. CASE Refile
  BY <1>2, <1>3, <1>4 DEF Refile
<1>5. CASE SwitchWare
  BY <1>2, <1>3, <1>5 DEF SwitchWare
<1>6. CASE SwitchListing
  BY <1>2, <1>3, <1>6 DEF SwitchListing
<1>7. CASE Reprice
  BY <1>2, <1>3, <1>7 DEF Reprice
<1>8. CASE SellOut
  BY <1>2, <1>3, <1>8 DEF SellOut
<1>9. CASE Reorder
  BY <1>2, <1>3, <1>9 DEF Reorder
<1>10. CASE Rearrange
  <2>1. /\ visit # Nothing /\ UNCHANGED <<visit, window, walked>> /\ onShelf' = onShelf
        /\ moments' = moments \cup {[onShelf |-> onShelf, aisle |-> aisle']}
    BY <1>10 DEF Rearrange
  <2>2. PICK c \in Aisles, row \in Placed :
          /\ row.under \notin Below(aisle, c) /\ row # aisle[c]
          /\ aisle' = [aisle EXCEPT ![c] = row]
    BY <1>10 DEF Rearrange
  <2>3. Now' = [onShelf |-> onShelf, aisle |-> aisle']
    BY <2>1 DEF Now
  <2>4. aisle'[c] = row /\ aisle' \in [Aisles -> Placed]
    BY <1>1, <2>2
  <2>5. Now' # Now
    <3>1. Now'.aisle = aisle' /\ Now.aisle = aisle
      BY <2>3 DEF Now
    <3> QED BY <2>2, <2>4, <3>1
  <2>6. Loopless(aisle')
    BY <1>1, <2>2, StaysLoopless
  <2> QED BY <1>1, <2>1, <2>3, <2>4, <2>5, <2>6, CommitKeeps
<1> QED BY <1>4, <1>5, <1>6, <1>7, <1>8, <1>9, <1>10

LEMMA VisitorArrives ==
    ASSUME WindowRight, Arrive
    PROVE  WindowRight'
<1>1. PICK q \in Asked :
        /\ q.page = "aisle" /\ q.want # Nothing => aisle[q.want].active
        /\ q.page = "product" => onShelf[q.want].active
        /\ visit' = [asked |-> q, at |-> "listed", read |-> NothingRead]
  BY DEF Arrive
<1>2. /\ moments = {} /\ moments' = {Now} /\ onShelf' = onShelf /\ aisle' = aisle
      /\ window' = window /\ walked' = walked
  BY DEF Arrive, shopRows
<1>3. window' = Nothing /\ walked' = <<>> /\ Now' = Now
  BY <1>2 DEF WindowRight, Now
<1>4. AskedRight(q)
  <2>1. PageCount(Cardinality(Wares)) \in Nat
    BY ShopWindowConstants, FS_CardinalityType, LastPage
  <2> QED BY <2>1 DEF AskedRight, Asked
<1>5. q.page = "product" => OnceActive({Now}, q.want) /\ Now.onShelf[q.want].active
  BY <1>1 DEF OnceActive, Now
<1> DEFINE v == [asked |-> q, at |-> "listed", read |-> NothingRead]
<1>6. /\ v.asked = q /\ v.at = "listed" /\ v.read = NothingRead
      /\ DOMAIN v = {"asked", "at", "read"} /\ DOMAIN NothingRead = ReadFields
  BY DEF NothingRead, ReadFields
<1> HIDE DEF v
<1>7. RenderRight(v, Now, {Now}, <<>>)
  BY <1>4, <1>5, <1>6 DEF RenderRight, Stages, AskedRight
<1> QED BY <1>1, <1>2, <1>3, <1>7 DEF WindowRight, Loopless, v

LEMMA PageIsTurned ==
    ASSUME WindowRight, NextPage
    PROVE  WindowRight'
<1> DEFINE n == window.number + 1
           q == [window.asked EXCEPT !.number = n]
           v == [asked |-> q, at |-> "listed", read |-> NothingRead]
<1>1. /\ window # Nothing /\ window.asked.page = "aisle" /\ window.number < window.pages
      /\ visit' = v /\ window' = Nothing /\ walked' = walked /\ moments' = moments
      /\ onShelf' = onShelf /\ aisle' = aisle
  BY DEF NextPage, shopRows
<1>2. /\ AskedRight(window.asked) /\ ShownRight(window, Now, moments, walked)
      /\ WasSold(window, moments)
  BY <1>1 DEF WindowRight, ShownRight
<1>3. /\ window.pages \in Nat /\ window.number \in 1..window.pages /\ n \in Nat \ {0}
      /\ n <= window.pages
  BY <1>1, <1>2 DEF WasSold
<1>4. /\ q.page = "aisle" /\ q.want = window.asked.want /\ q.number = n /\ AskedRight(q)
  BY <1>1, <1>2, <1>3 DEF AskedRight
<1>5. ASSUME moments = {Now}
      PROVE  /\ n <= PageCount(Cardinality(SoldIn(Now, q.want)))
             /\ WalkedBefore(walked, SoldIn(Now, q.want), KeysOf(Now.onShelf), n)
  BY <1>1, <1>2, <1>3, <1>4, <1>5 DEF ShownRight, AllIsShown
<1>6. /\ v.asked = q /\ v.at = "listed" /\ v.read = NothingRead
      /\ DOMAIN v = {"asked", "at", "read"} /\ DOMAIN NothingRead = ReadFields
  BY DEF NothingRead, ReadFields
<1> HIDE DEF v, q, n
<1>7. RenderRight(v, Now, moments, walked)
  BY <1>4, <1>5, <1>6 DEF RenderRight, Stages
<1>8. Now' = Now /\ moments # {}
  BY <1>1 DEF WindowRight, Now
<1> QED BY <1>1, <1>7, <1>8 DEF WindowRight, Loopless

LEMMA WindowStarts == WindowInit => WindowRight
BY ShopWindowConstants DEF WindowInit, WindowRight, Loopless

LEMMA WindowStep == WindowRight /\ [WindowNext]_pageVars => WindowRight'
<1> SUFFICES ASSUME WindowRight, [WindowNext]_pageVars
             PROVE  WindowRight'
  OBVIOUS
<1>1. CASE UNCHANGED pageVars
  BY <1>1 DEF pageVars, WindowRight, Loopless, Now
<1>2. CASE WindowNext
  BY <1>2, VisitorArrives, PageIsTurned, ListedIsRead, TreeIsRead, RowsAreCounted,
     RowsAreRead, HitsAreRead, ListingIsRead, BandsAreRead, PricesAreRead, PageIsShown,
     TilesAreShown, StaffCommit DEF WindowNext
<1> QED BY <1>1, <1>2

\* Nothing is shown that was not so, and nothing is left out while nothing
\* changes.
LEMMA TheWindowIsTrue == WindowRight => ShopWindowIsTrue
<1> SUFFICES ASSUME WindowRight, window # Nothing
             PROVE  /\ window.asked.page # "tiles" => WasSold(window, moments)
                    /\ ShowsAllThatIsSold
  BY DEF ShopWindowIsTrue, ShowsWhatWasSold, ShowsAllThatIsSold, WasSold, OnceListed,
         OnceActive, OnceBanded, OnceUnder
<1>1. /\ AskedRight(window.asked) /\ ShownRight(window, Now, moments, walked)
      /\ moments # {} /\ Now \in moments /\ walked \in Seq(SUBSET (Wares \cup Aisles))
  BY DEF WindowRight, ShownRight
<1>2. window.asked.page # "tiles" => WasSold(window, moments)
  BY <1>1 DEF ShownRight
<1>3. ASSUME NEW m \in moments, moments = {m}
      PROVE  m = Now /\ AllIsShown(window, m, walked)
  BY <1>1, <1>3 DEF ShownRight
<1>4. ASSUME moments = {Now}, window.asked.page = "aisle"
      PROVE  LET sold == SoldIn(Now, window.asked.want)
                 settled == Settled(sold, KeysOf(Now.onShelf))
             IN /\ UNION Range(walked) \subseteq sold
                /\ window.number = window.pages /\ Len(walked) = window.pages =>
                     settled \subseteq UNION Range(walked)
                /\ \A i, j \in DOMAIN walked :
                     i # j => walked[i] \cap walked[j] \cap settled = {}
                /\ window.total = Cardinality(sold)
  <2> DEFINE S == SoldIn(Now, window.asked.want)
             key == KeysOf(Now.onShelf)
             X == SUBSET (Wares \cup Aisles)
  <2>1. /\ window.total = Cardinality(S) /\ window.pages = PageCount(Cardinality(S))
        /\ WalkedBefore(walked, S, key, window.number + 1)
    BY <1>3, <1>4 DEF AllIsShown
  <2>2. window.number \in Nat
    BY <1>2, <1>4 DEF WasSold
  <2>3. IsFiniteSet(S) /\ walked \in Seq(X)
    BY <1>1, SoldIsFinite
  <2>4. \A w \in S : key[w] \in Nat
    BY KeysAreNumbers, SoldIsFinite DEF WindowRight, Now
  <2> HIDE DEF S, X, key
  <2>5. /\ \A i \in DOMAIN walked : walked[i] \subseteq S
        /\ \A i, j \in DOMAIN walked :
             i # j => walked[i] \cap walked[j] \cap Settled(S, key) = {}
        /\ window.number = PageCount(Cardinality(S)) /\ Len(walked) = window.number =>
             Settled(S, key) \subseteq UNION {walked[i] : i \in DOMAIN walked}
    BY <2>1, <2>2, <2>3, <2>4, WholeWalk
  <2> QED BY <2>1, <2>5 DEF S, key, Range
<1>5. ShowsAllThatIsSold
  <2>1. ASSUME NEW m \in moments, moments = {m}
        PROVE  LET items == {i.ware : i \in window.items}
                   sold == SoldIn(m, window.asked.want)
                   settled == Settled(sold, KeysOf(m.onShelf))
               IN CASE window.asked.page = "aisle" ->
                         /\ UNION Range(walked) \subseteq sold
                         /\ window.number = window.pages /\ Len(walked) = window.pages =>
                               settled \subseteq UNION Range(walked)
                         /\ \A i, j \in DOMAIN walked :
                               i # j => walked[i] \cap walked[j] \cap settled = {}
                         /\ window.total = Cardinality(sold)
                    [] window.asked.page = "search" ->
                         /\ items \subseteq SoldIn(m, Nothing)
                         /\ items = {} => DOMAIN Hits \cap SoldIn(m, Nothing) = {}
                    [] window.asked.page = "product" ->
                         items = {window.asked.want} \cap SoldIn(m, Nothing)
                    [] OTHER ->
                         /\ \A a \in items : SoldIn(m, a) # {}
                         /\ SoldIn(m, Nothing) = UNION {SoldIn(m, a) : a \in items}
    <3>1. m = Now /\ AllIsShown(window, m, walked)
      BY <1>3, <2>1
    <3>2. CASE window.asked.page = "aisle"
      BY <1>4, <2>1, <3>1, <3>2
    <3>3. CASE window.asked.page \in {"search", "product", "tiles"}
      BY <3>1, <3>3 DEF AllIsShown, Range
    <3> QED BY <1>1, <3>2, <3>3 DEF AskedRight
  <2> QED BY <2>1 DEF ShowsAllThatIsSold
<1> QED BY <1>2, <1>5

\* Whatever staff commit while a page is put together, everything on it was on
\* sale so; and while they commit nothing, everything sold is found, on its own
\* page, under a tile, and by turning the pages exactly once if no page ends
\* among its ties; and a search finds something if anything it looks for is sold
\* (storefront/catalogue.ts with the reads of catalog, pricing and inventory).
THEOREM TheShopWindowHolds == WindowSpec => []ShopWindowIsTrue
<1>1. WindowInit => WindowRight
  BY WindowStarts
<1>2. WindowRight /\ [WindowNext]_pageVars => WindowRight'
  BY WindowStep
<1>3. WindowRight => ShopWindowIsTrue
  BY TheWindowIsTrue
<1> QED BY <1>1, <1>2, <1>3, PTL DEF WindowSpec

-----------------------------------------------------------------------------
(* Stock files *)

\* The SKUs the first n lines of the file name, and who names one first.
NamedBy(n) == {SkuOf(file[m]) : m \in Filled \cap 1..n}
FirstToName(n) == \A m \in Filled : m < n => SkuOf(file[m]) # SkuOf(file[n])

RowsAreFit ==
    \A row \in rows :
        /\ row.line \in Filled \cap 1..lineNo
        /\ row.sku = SkuOf(file[row.line]) /\ file[row.line].sku = row.sku
        /\ ~Faulty(file[row.line]) /\ FirstToName(row.line)

\* The lines read so far were answered for, and the file goes on ...
AllAnswered ==
    /\ Taken(rows) \cup errors = Filled \cap 1..lineNo
    /\ Cardinality(rows) + Cardinality(errors) <= MaxRows
    /\ NamedBy(lineNo) \subseteq named \cup {NoSku}

\* ... or one line was too many.
StoppedThere ==
    /\ lineNo = Len(file) /\ errors # {}
    /\ Cardinality(Taken(rows) \cup errors) = MaxRows + 1

LinesCount ==
    /\ Taken(rows) \cap errors = {} /\ Taken(rows) \cup errors \subseteq Filled
    /\ Cardinality(Taken(rows) \cup errors) = Cardinality(rows) + Cardinality(errors)
    /\ AllAnswered \/ StoppedThere

\* The inductive invariant while a file is read.
FileRight ==
    /\ Len(file) \in Nat /\ DOMAIN file = 1..Len(file)
    /\ lineNo \in 0..Len(file) /\ IsFiniteSet(rows) /\ IsFiniteSet(errors)
    /\ RowsAreFit
    /\ Reading => LinesCount

FileInv == FileRight /\ FileIsAccountedFor

LEMMA OneAdded ==
    ASSUME NEW S, NEW x, IsFiniteSet(S), x \notin S
    PROVE  /\ IsFiniteSet(S \cup {x}) /\ Cardinality(S) \in Nat
           /\ Cardinality(S \cup {x}) = Cardinality(S) + 1
BY FS_AddElement, FS_CardinalityType

\* The next line, when it is not blank.
LEMMA NextIsFilled ==
    ASSUME FileRight, lineNo < Len(file), NextRow.kind # "blank"
    PROVE  /\ lineNo + 1 \in Filled /\ lineNo + 1 \in 1..Len(file)
           /\ Filled \cap 1..(lineNo + 1) = (Filled \cap 1..lineNo) \cup {lineNo + 1}
BY DEF FileRight, Filled, NextRow

LEMMA FileStarts == CsvInit => FileRight
<1> SUFFICES ASSUME CsvInit PROVE FileRight
  OBVIOUS
<1>1. Len(file) \in Nat /\ DOMAIN file = 1..Len(file)
  <2>1. CASE file = <<>>
    BY <2>1
  <2>2. CASE file \in Files
    BY <2>2, StockCsvConstants
  <2> QED
    BY <2>1, <2>2 DEF CsvInit
<1>2. lineNo = 0 /\ rows = {} /\ errors = {}
  BY DEF CsvInit
<1>3. Taken(rows) \cup errors = {}
  BY <1>2 DEF Taken
<1>4. LinesCount
  <2>1. Filled \cap 1..0 = {} /\ NamedBy(0) = {}
    BY DEF NamedBy
  <2>2. Cardinality(rows) = 0 /\ Cardinality(errors) = 0
    BY <1>2, FS_EmptySet
  <2>3. Cardinality(Taken(rows) \cup errors) = 0
    BY <1>3, FS_EmptySet
  <2>4. AllAnswered
    BY <1>2, <1>3, <2>1, <2>2, StockCsvConstants DEF AllAnswered
  <2> QED
    BY <1>2, <1>3, <2>2, <2>3, <2>4 DEF LinesCount
<1> QED
  BY <1>1, <1>2, <1>4, FS_EmptySet DEF FileRight, RowsAreFit

\* What fits does not depend on how far the file was read.
LEMMA FitRowsStayFit ==
    ASSUME FileRight, NEW k \in Nat, k >= lineNo, lineNo' = k, UNCHANGED file, UNCHANGED rows
    PROVE  RowsAreFit'
<1> SUFFICES ASSUME NEW row \in rows
             PROVE  /\ row.line \in Filled \cap 1..k
                    /\ row.sku = SkuOf(file[row.line]) /\ file[row.line].sku = row.sku
                    /\ ~Faulty(file[row.line]) /\ FirstToName(row.line)
  BY DEF RowsAreFit, Filled, FirstToName
<1> QED
  BY DEF FileRight, RowsAreFit

LEMMA ReadBlankKeepsFile ==
    ASSUME FileRight, ReadBlank
    PROVE  FileRight'
<1>1. /\ lineNo < Len(file) /\ NextRow.kind = "blank" /\ lineNo' = lineNo + 1
      /\ UNCHANGED file /\ UNCHANGED planned /\ UNCHANGED rows /\ UNCHANGED errors
      /\ UNCHANGED named /\ Reading
  BY DEF ReadBlank, ReadsTo
<1>2. lineNo \in Nat /\ Len(file) \in Nat /\ lineNo' \in 0..Len(file)
  BY <1>1 DEF FileRight
<1>3. RowsAreFit'
  BY <1>1, <1>2, FitRowsStayFit
<1>4. Filled \cap 1..(lineNo + 1) = Filled \cap 1..lineNo
  BY <1>1, <1>2 DEF Filled, NextRow
<1>5. ~StoppedThere /\ LinesCount
  <2>1. LinesCount
    BY <1>1 DEF FileRight
  <2>2. ~StoppedThere
    BY <1>1, <1>2 DEF StoppedThere
  <2> QED
    BY <2>1, <2>2
<1>6. Filled' = Filled /\ Taken(rows)' = Taken(rows)
  BY <1>1 DEF Filled, Taken
<1>7. NamedBy(lineNo)' = NamedBy(lineNo)
  BY <1>1, <1>4, <1>6 DEF NamedBy, SkuOf
<1>8. AllAnswered'
  BY <1>1, <1>4, <1>5, <1>6, <1>7 DEF LinesCount, AllAnswered
<1>9. LinesCount'
  BY <1>1, <1>5, <1>6, <1>8 DEF LinesCount
<1> QED
  BY <1>1, <1>2, <1>3, <1>9 DEF FileRight

\* Reading on to a line that is taken as a row or reported.
LEMMA AnsweredKeepsFile ==
    ASSUME FileRight, Reading, lineNo < Len(file), NextRow.kind # "blank", ~Full,
           lineNo' = lineNo + 1, UNCHANGED file, UNCHANGED planned, RowsAreFit',
           named \subseteq named', SkuOf(NextRow) \in named' \cup {NoSku},
           \/ errors' = errors \cup {lineNo + 1} /\ rows' = rows
           \/ errors' = errors
              /\ rows' = rows \cup {[line |-> lineNo + 1, sku |-> NextRow.sku]}
    PROVE  FileRight'
<1>1. lineNo \in Nat /\ Len(file) \in Nat /\ lineNo' \in 0..Len(file)
  BY DEF FileRight
<1>2. LinesCount /\ ~StoppedThere
  <2>1. LinesCount
    BY DEF FileRight
  <2>2. ~StoppedThere
    BY <1>1 DEF StoppedThere
  <2> QED
    BY <2>1, <2>2
<1>3. AllAnswered
  BY <1>2 DEF LinesCount
<1> DEFINE done == Taken(rows) \cup errors
           x == lineNo + 1
           row == [line |-> x, sku |-> NextRow.sku]
<1>4. x \in Filled /\ Filled \cap 1..x = (Filled \cap 1..lineNo) \cup {x}
  BY NextIsFilled
<1>5. x \notin done
  BY <1>1, <1>3 DEF AllAnswered
<1>6. Filled' = Filled
  BY DEF Filled
<1>7. NamedBy(lineNo)' \subseteq NamedBy(lineNo) \cup {SkuOf(NextRow)}
  <2>1. \A m \in Filled \cap 1..x : SkuOf(file[m]) \in NamedBy(lineNo) \cup {SkuOf(NextRow)}
    BY <1>4 DEF NamedBy, NextRow
  <2>2. NamedBy(lineNo)' = {SkuOf(file[m]) : m \in Filled \cap 1..x}
    BY <1>6 DEF NamedBy, SkuOf
  <2> QED
    BY <2>1, <2>2
<1>8. /\ Cardinality(done) = Cardinality(rows) + Cardinality(errors)
      /\ done = Filled \cap 1..lineNo /\ done \subseteq Filled /\ Taken(rows) \cap errors = {}
      /\ Cardinality(rows) + Cardinality(errors) <= MaxRows
      /\ NamedBy(lineNo) \subseteq named \cup {NoSku}
  BY <1>2, <1>3 DEF LinesCount, AllAnswered
<1>9. IsFiniteSet(done) /\ Cardinality(done \cup {x}) = Cardinality(done) + 1
  <2>1. IsFiniteSet(1..lineNo)
    BY <1>1, FS_Interval
  <2>2. IsFiniteSet(Filled \cap 1..lineNo)
    BY <2>1, FS_Intersection
  <2>3. IsFiniteSet(done)
    BY <1>8, <2>2
  <2> HIDE DEF x, done
  <2> QED
    BY <1>5, <2>3, OneAdded, Zenon
<1>10. /\ IsFiniteSet(rows) /\ IsFiniteSet(errors)
       /\ Cardinality(rows) \in Nat /\ Cardinality(errors) \in Nat
  BY FS_CardinalityType DEF FileRight
\* The line is new on both sides, and on one of them from now on.
<1>11. /\ IsFiniteSet(rows') /\ IsFiniteSet(errors')
       /\ Taken(rows)' \cup errors' = done \cup {x} /\ Taken(rows)' \cap errors' = {}
       /\ \/ Cardinality(errors') = Cardinality(errors) + 1
             /\ Cardinality(rows') = Cardinality(rows)
          \/ Cardinality(errors') = Cardinality(errors)
             /\ Cardinality(rows') = Cardinality(rows) + 1
  <2>1. CASE errors' = errors \cup {x} /\ rows' = rows
    <3>1. Taken(rows)' = Taken(rows)
      BY <2>1 DEF Taken
    <3>2. x \notin errors /\ x \notin Taken(rows)
      BY <1>5
    <3> HIDE DEF x
    <3>3. IsFiniteSet(errors \cup {x}) /\ Cardinality(errors \cup {x}) = Cardinality(errors) + 1
      BY <1>10, <3>2, OneAdded, Zenon
    <3> QED
      BY <1>8, <1>10, <2>1, <3>1, <3>2, <3>3
  <2>2. CASE errors' = errors /\ rows' = rows \cup {row}
    <3>1. row.line = x
      OBVIOUS
    <3>2. x \notin errors /\ x \notin Taken(rows)
      BY <1>5
    <3> HIDE DEF x, row, done
    <3>3. row \notin rows
      BY <3>1, <3>2 DEF Taken
    <3>4. Taken(rows)' = Taken(rows) \cup {x}
      BY <2>2, <3>1 DEF Taken
    <3>5. IsFiniteSet(rows \cup {row}) /\ Cardinality(rows \cup {row}) = Cardinality(rows) + 1
      BY <1>10, <3>3, OneAdded, Zenon
    <3> QED
      BY <1>8, <1>10, <2>2, <3>2, <3>4, <3>5 DEF done
  <2> QED
    BY <2>1, <2>2
<1> HIDE DEF x, done, row
<1>12. Cardinality(rows) + Cardinality(errors) < MaxRows
  BY <1>10, StockCsvConstants DEF Full
<1>13. Cardinality(rows') + Cardinality(errors') = Cardinality(rows) + Cardinality(errors) + 1
  BY <1>10, <1>11
<1>14. AllAnswered'
  <2>1. NamedBy(lineNo)' \subseteq named' \cup {NoSku}
    BY <1>7, <1>8
  <2>2. Taken(rows)' \cup errors' = (Filled \cap 1..lineNo)'
    BY <1>4, <1>6, <1>8, <1>11 DEF x
  <2>3. Cardinality(rows') + Cardinality(errors') <= MaxRows
    BY <1>10, <1>12, <1>13, StockCsvConstants
  <2> QED
    BY <2>1, <2>2, <2>3 DEF AllAnswered
<1>15. LinesCount'
  <2>1. Taken(rows)' \cup errors' \subseteq Filled'
    BY <1>4, <1>6, <1>8, <1>11
  <2>2. Cardinality(Taken(rows)' \cup errors') = Cardinality(rows') + Cardinality(errors')
    <3>1. Cardinality(Taken(rows)' \cup errors') = Cardinality(done \cup {x})
      BY <1>11, Zenon
    <3>2. Cardinality(done \cup {x}) = Cardinality(rows') + Cardinality(errors')
      BY <1>8, <1>9, <1>13
    <3> QED
      BY <3>1, <3>2
  <2> QED
    BY <1>11, <1>14, <2>1, <2>2 DEF LinesCount
<1> QED
  BY <1>1, <1>11, <1>15 DEF FileRight

LEMMA ReadBrokenKeepsFile ==
    ASSUME FileRight, ReadBroken
    PROVE  FileRight'
<1>1. /\ Reading /\ lineNo < Len(file) /\ NextRow.kind # "blank" /\ ~Full
      /\ SkuOf(NextRow) = NoSku
      /\ errors' = errors \cup {lineNo + 1} /\ lineNo' = lineNo + 1
      /\ UNCHANGED file /\ UNCHANGED planned /\ UNCHANGED rows /\ UNCHANGED named
  BY DEF ReadBroken, Counted, Reported, ReadsTo
<1> QED
  <2>1. RowsAreFit'
    BY <1>1, lineNo + 1 \in Nat, FitRowsStayFit DEF FileRight
  <2> QED
    BY <1>1, <2>1, AnsweredKeepsFile

LEMMA StopAtLimitKeepsFile ==
    ASSUME FileRight, StopAtLimit
    PROVE  FileRight'
<1>1. /\ Reading /\ lineNo < Len(file) /\ NextRow.kind # "blank" /\ Full
      /\ errors' = errors \cup {lineNo + 1} /\ lineNo' = Len(file)
      /\ UNCHANGED file /\ UNCHANGED planned /\ UNCHANGED rows
  BY DEF StopAtLimit, Counted, Reported, ReadsTo
<1>2. lineNo \in Nat /\ Len(file) \in Nat /\ lineNo' \in 0..Len(file)
  BY <1>1 DEF FileRight
<1>3. RowsAreFit'
  BY <1>1, <1>2, FitRowsStayFit
<1>4. LinesCount
  BY <1>1 DEF FileRight
<1>5. AllAnswered
  <2>1. ~StoppedThere
    BY <1>1, <1>2 DEF StoppedThere
  <2> QED
    BY <1>4, <2>1 DEF LinesCount
<1> DEFINE done == Taken(rows) \cup errors
           x == lineNo + 1
<1>6. x \in Filled
  BY <1>1, NextIsFilled
<1>7. x \notin done
  BY <1>2, <1>5 DEF AllAnswered
<1>8. Filled' = Filled /\ Taken(rows)' = Taken(rows) /\ errors' = errors \cup {x}
  BY <1>1 DEF Filled, Taken
<1>9. /\ IsFiniteSet(done) /\ Cardinality(done) = Cardinality(rows) + Cardinality(errors)
      /\ done \subseteq Filled /\ Taken(rows) \cap errors = {}
      /\ Cardinality(rows) + Cardinality(errors) <= MaxRows
  <2>1. IsFiniteSet(1..lineNo)
    BY <1>2, FS_Interval
  <2>2. IsFiniteSet(Filled \cap 1..lineNo)
    BY <2>1, FS_Intersection
  <2> QED
    BY <1>4, <1>5, <2>2 DEF LinesCount, AllAnswered
<1>10. Taken(rows)' \cup errors' = done \cup {x}
  BY <1>8
<1>11. /\ Cardinality(errors') = Cardinality(errors) + 1 /\ IsFiniteSet(errors')
       /\ Cardinality(done \cup {x}) = Cardinality(done) + 1
       /\ Cardinality(errors) \in Nat /\ Cardinality(rows) \in Nat
  <2>1. IsFiniteSet(rows) /\ IsFiniteSet(errors)
    BY DEF FileRight
  <2> HIDE DEF x, done
  <2>2. x \notin errors
    BY <1>7 DEF done
  <2> QED
    <3>1. /\ IsFiniteSet(errors \cup {x}) /\ Cardinality(errors) \in Nat
          /\ Cardinality(errors \cup {x}) = Cardinality(errors) + 1
      BY <2>1, <2>2, OneAdded, Zenon
    <3>2. Cardinality(done \cup {x}) = Cardinality(done) + 1
      BY <1>7, <1>9, OneAdded, Zenon
    <3> QED
      BY <1>8, <2>1, <3>1, <3>2, FS_CardinalityType, Zenon
<1> HIDE DEF x, done
<1>12. Cardinality(rows) + Cardinality(errors) = MaxRows
  BY <1>1, <1>9, <1>11, StockCsvConstants DEF Full
<1>13. StoppedThere'
  BY <1>1, <1>8, <1>9, <1>10, <1>11, <1>12 DEF StoppedThere
<1>14. LinesCount'
  <2>1. (Taken(rows) \cap errors = {})'
    BY <1>7, <1>8, <1>9 DEF done
  <2>2. (Taken(rows) \cup errors \subseteq Filled)'
    BY <1>6, <1>8, <1>9, <1>10
  <2>3. Cardinality(Taken(rows)' \cup errors') = Cardinality(rows') + Cardinality(errors')
    <3>1. Cardinality(Taken(rows)' \cup errors') = Cardinality(done \cup {x})
      BY <1>10, Zenon
    <3>2. rows' = rows
      BY <1>1
    <3>3. Cardinality(done \cup {x}) = Cardinality(rows) + (Cardinality(errors) + 1)
      BY <1>9, <1>11
    <3> QED
      BY <1>11, <3>1, <3>2, <3>3, Zenon
  <2> QED
    BY <1>13, <2>1, <2>2, <2>3 DEF LinesCount
<1> QED
  BY <1>1, <1>2, <1>3, <1>11, <1>14 DEF FileRight

LEMMA ReadRowKeepsFile ==
    ASSUME FileRight, ReadRow
    PROVE  FileRight'
<1> DEFINE x == lineNo + 1
           row == [line |-> x, sku |-> NextRow.sku]
<1>1. /\ Reading /\ lineNo < Len(file) /\ NextRow.kind # "blank" /\ ~Full
      /\ SkuOf(NextRow) # NoSku
      /\ named' = named \cup {NextRow.sku} /\ lineNo' = lineNo + 1
      /\ UNCHANGED file /\ UNCHANGED planned
  BY DEF ReadRow, Readable, Counted, ReadsTo
<1>2. lineNo \in Nat /\ lineNo' \in Nat /\ lineNo' >= lineNo
  BY <1>1 DEF FileRight
<1>3. NextRow.sku = SkuOf(NextRow)
  BY <1>1 DEF SkuOf
<1>4. \/ errors' = errors \cup {x} /\ rows' = rows
      \/ /\ errors' = errors /\ rows' = rows \cup {row}
         /\ NextRow.sku \notin named /\ ~Faulty(NextRow)
  BY DEF ReadRow, Reported
<1>5. RowsAreFit'
  <2>1. CASE rows' = rows
    BY <1>1, <1>2, <2>1, FitRowsStayFit
  <2>2. CASE rows' = rows \cup {row} /\ NextRow.sku \notin named /\ ~Faulty(NextRow)
    <3>1. AllAnswered
      <4> Len(file) \in Nat
        BY DEF FileRight
      <4>1. ~StoppedThere
        BY <1>1, <1>2 DEF StoppedThere
      <4> QED
        BY <1>1, <4>1 DEF FileRight, LinesCount
    <3>2. x \in Filled /\ x \in 1..x
      BY <1>1, <1>2, NextIsFilled
    <3>3. FirstToName(x)
      <4>1. ASSUME NEW m \in Filled, m < x PROVE SkuOf(file[m]) # SkuOf(file[x])
        <5>1. m \in 1..lineNo
          BY <1>2, <4>1 DEF Filled, FileRight
        <5>2. SkuOf(file[m]) \in named \cup {NoSku}
          BY <3>1, <5>1 DEF AllAnswered, NamedBy
        <5> QED
          BY <1>1, <1>3, <2>2, <5>2 DEF NextRow
      <4> QED
        BY <4>1 DEF FirstToName
    <3>4. ASSUME NEW e \in rows
          PROVE  /\ e.line \in Filled \cap 1..x
                 /\ e.sku = SkuOf(file[e.line]) /\ file[e.line].sku = e.sku
                 /\ ~Faulty(file[e.line]) /\ FirstToName(e.line)
      BY <1>2 DEF FileRight, RowsAreFit
    <3>5. /\ row.line \in Filled \cap 1..x
          /\ row.sku = SkuOf(file[row.line]) /\ file[row.line].sku = row.sku
          /\ ~Faulty(file[row.line]) /\ FirstToName(row.line)
      BY <1>3, <2>2, <3>2, <3>3 DEF NextRow
    <3> HIDE DEF row
    <3>6. \A e \in rows' : /\ e.line \in Filled \cap 1..x
                           /\ e.sku = SkuOf(file[e.line]) /\ file[e.line].sku = e.sku
                           /\ ~Faulty(file[e.line]) /\ FirstToName(e.line)
      BY <2>2, <3>4, <3>5
    <3> QED
      BY <1>1, <3>6 DEF RowsAreFit, Filled, FirstToName
  <2> QED
    BY <1>4, <2>1, <2>2
<1> QED
  BY <1>1, <1>3, <1>4, <1>5, AnsweredKeepsFile

LEMMA PlanRowsKeepsFile ==
    ASSUME FileRight, PlanRows
    PROVE  FileRight' /\ ~Reading'
<1>1. /\ UNCHANGED file /\ UNCHANGED lineNo /\ UNCHANGED rows /\ planned'.done = TRUE
      /\ errors' \subseteq errors \cup Taken(rows)
  BY DEF PlanRows
<1>2. ~Reading'
  BY <1>1 DEF Reading
<1>3. RowsAreFit'
  BY <1>1, FitRowsStayFit DEF FileRight
<1>4. IsFiniteSet(errors')
  <2>1. errors' \subseteq Filled
    <3>1. LinesCount
      BY DEF PlanRows, FileRight
    <3> QED
      BY <1>1, <3>1 DEF LinesCount
  <2>2. Filled \subseteq 1..Len(file) /\ Len(file) \in Nat
    BY DEF FileRight, Filled
  <2>3. IsFiniteSet(1..Len(file))
    BY <2>2, FS_Interval
  <2>4. errors' \subseteq 1..Len(file)
    BY <2>1, <2>2
  <2> QED
    BY <2>3, <2>4, FS_Subset
<1> QED
  BY <1>1, <1>2, <1>3, <1>4 DEF FileRight

\* The actions on a line leave the file as it is.
LEMMA LinesLeaveTheFile ==
    ASSUME FileInv, UNCHANGED fileVars
    PROVE  FileInv'
<1>1. /\ UNCHANGED file /\ UNCHANGED lineNo /\ UNCHANGED rows /\ UNCHANGED errors
      /\ UNCHANGED named /\ UNCHANGED planned
  BY DEF fileVars
<1>2. Filled' = Filled /\ Taken(rows)' = Taken(rows) /\ (Reading' <=> Reading)
  BY <1>1 DEF Filled, Taken, Reading
<1>3. NamedBy(lineNo)' = NamedBy(lineNo)
  BY <1>1, <1>2 DEF NamedBy, SkuOf
<1>4. LinesCount' <=> LinesCount
  BY <1>1, <1>2, <1>3 DEF LinesCount, AllAnswered, StoppedThere
<1>5. RowsAreFit' <=> RowsAreFit
  BY <1>1, <1>2 DEF RowsAreFit, SkuOf, Faulty, RowMode, FirstToName
<1>6. FileRight'
  BY <1>1, <1>2, <1>4, <1>5 DEF FileInv, FileRight
<1>7. /\ Taken(planned.changes \cup planned.unchanged)' = Taken(planned.changes \cup planned.unchanged)
      /\ \A row : NewStock(row)' = NewStock(row)
  BY <1>1 DEF Taken, NewStock, RowMode
<1>8. FileIsAccountedFor'
  BY <1>1, <1>2, <1>7 DEF FileInv, FileIsAccountedFor, SkuOf, RowMode
<1> QED
  BY <1>6, <1>8 DEF FileInv

LEMMA RightWhileReading ==
    ASSUME FileRight, Reading
    PROVE  FileIsAccountedFor
<1>1. LinesCount /\ RowsAreFit
  BY DEF FileRight
<1>2. \A row \in rows : FirstToName(row.line) /\ file[row.line].sku = row.sku
  BY <1>1 DEF RowsAreFit
<1>3. /\ Taken(rows) \cap errors = {}
      /\ \/ Taken(rows) \cup errors = Filled \cap 1..lineNo
         \/ /\ Cardinality(Taken(rows) \cup errors) = MaxRows + 1
            /\ Taken(rows) \cup errors \subseteq Filled
  BY <1>1 DEF LinesCount, AllAnswered, StoppedThere
<1> QED
  BY <1>2, <1>3 DEF FileIsAccountedFor, FirstToName

LEMMA PlanAccounts ==
    ASSUME FileRight, PlanRows
    PROVE  FileIsAccountedFor'
<1> DEFINE fit == {row \in rows : Resolvable(row) /\ NewStock(row) >= 0}
           all == errors \cup (Taken(rows) \ Taken(fit))
<1>1. /\ Reading /\ lineNo = Len(file) /\ errors' = all
      /\ planned' = [ok |-> all = {}, done |-> TRUE,
                     changes |-> {row \in fit : NewStock(row) # Stocked[row.sku]},
                     unchanged |-> {row \in fit : NewStock(row) = Stocked[row.sku]}]
      /\ UNCHANGED file /\ UNCHANGED rows
  BY DEF PlanRows
<1>2. LinesCount /\ RowsAreFit
  BY <1>1 DEF FileRight
<1>3. (planned.changes \cup planned.unchanged)' = fit
  BY <1>1
<1>4. (planned'.ok => all = {}) /\ ~Reading'
  BY <1>1 DEF Reading
<1>5. fit \subseteq rows /\ Taken(fit) \subseteq Taken(rows)
  BY DEF Taken
<1>6. Taken(fit) \cap all = {} /\ Taken(rows) \cup all = Taken(fit) \cup all
  BY <1>2, <1>5 DEF LinesCount
<1>7. \A row \in fit : NewStock(row) >= 0 /\ RowMode(file[row.line]) \in Modes
  BY <1>2 DEF RowsAreFit, Faulty
<1>8. all = {} => Taken(fit) = Filled
  <2>1. ASSUME all = {} PROVE Taken(fit) = Filled
    <3>1. errors = {} /\ Taken(rows) = Taken(fit)
      BY <1>5, <2>1
    <3>2. Taken(rows) = Filled \cap 1..Len(file)
      BY <1>1, <1>2, <3>1 DEF LinesCount, AllAnswered, StoppedThere
    <3> QED
      BY <3>1, <3>2 DEF FileRight, Filled
  <2> QED
    BY <2>1
<1>9. \A row \in rows : FirstToName(row.line) /\ file[row.line].sku = row.sku
  BY <1>2 DEF RowsAreFit
<1>10. /\ Filled' = Filled /\ Taken(rows)' = Taken(rows)
       /\ Taken(planned.changes \cup planned.unchanged)' = Taken(fit)
       /\ \A row : NewStock(row)' = NewStock(row)
  BY <1>1, <1>3 DEF Filled, Taken, NewStock, RowMode
<1> HIDE DEF fit, all
<1> QED
  BY <1>1, <1>3, <1>4, <1>5, <1>6, <1>7, <1>8, <1>9, <1>10
     DEF FileIsAccountedFor, FirstToName, SkuOf, RowMode

LEMMA FileStaysRight == FileInv /\ [CsvNext]_csvVars => FileInv'
<1> SUFFICES ASSUME FileInv, [CsvNext]_csvVars PROVE FileInv'
  OBVIOUS
<1>1. FileRight
  BY DEF FileInv
<1>2. CASE UNCHANGED fileVars
  BY <1>2, LinesLeaveTheFile
<1>3. CASE FileRight' /\ Reading'
  <2>1. FileIsAccountedFor'
    BY <1>3, RightWhileReading, PTL
  <2> QED
    BY <1>3, <2>1 DEF FileInv
<1>4. CASE ReadBlank \/ StopAtLimit \/ ReadBroken \/ ReadRow
  <2>1. FileRight'
    BY <1>1, <1>4, ReadBlankKeepsFile, StopAtLimitKeepsFile, ReadBrokenKeepsFile,
       ReadRowKeepsFile
  <2>2. Reading'
    BY <1>4 DEF ReadBlank, StopAtLimit, ReadBroken, ReadRow, Readable, ReadsTo, Reading
  <2> QED
    BY <1>3, <2>1, <2>2
<1>5. CASE PlanRows
  BY <1>1, <1>5, PlanRowsKeepsFile, PlanAccounts DEF FileInv
<1>6. CASE ReadQuoted \/ ReadDelimiter \/ OpenQuote \/ ReadText \/ EndLine
  <2>1. UNCHANGED fileVars
    BY <1>6 DEF ReadQuoted, ReadDelimiter, OpenQuote, ReadText, EndLine, Takes, Refuses
  <2> QED
    BY <1>2, <2>1
<1>7. CASE UNCHANGED csvVars
  <2>1. UNCHANGED fileVars
    BY <1>7 DEF csvVars, fileVars
  <2> QED
    BY <1>2, <2>1
<1> QED
  BY <1>4, <1>5, <1>6, <1>7 DEF CsvNext

\* However long a file is and whatever its rows say: every line is a row or is
\* reported, once, up to the first one too many, a SKU gives at most one row, and a
\* file that is fit has every line of it in its plan (inventory/domain/csv.ts,
\* planStockImport).
THEOREM FilesAreAccountedFor == CsvSpec => []FileIsAccountedFor
<1>1. CsvInit => FileInv
  <2>1. ASSUME CsvInit PROVE FileInv
    <3>1. FileRight /\ Reading
      BY <2>1, FileStarts DEF CsvInit, Unplanned, Reading
    <3> QED
      BY <3>1, RightWhileReading DEF FileInv
  <2> QED
    BY <2>1
<1>2. FileInv => FileIsAccountedFor
  BY DEF FileInv
<1> QED
  BY <1>1, <1>2, FileStaysRight, PTL DEF CsvSpec

-----------------------------------------------------------------------------
(* Stock lines *)

\* What is true of a line while it is split: its fields so far are fields of it,
\* the one being read is the start of one, and no other cut leaves only fields.

LineTypes ==
    /\ line \in Seq(Chars) /\ delimiter \in Delimiters /\ pos \in 0..Len(line)
    /\ field \in Seq(Chars) /\ out \in Seq(Seq(Chars))
    /\ quoted \in BOOLEAN /\ closed \in BOOLEAN
    /\ verdict \in {"reading", "split", "refused"}

\* A walk of n places from a to p, and the text it leaves out of the last place.
WalksTo(at, n, a, p) ==
    /\ at \in [1..n -> (a + 2)..p] /\ at[n] = p /\ n + a + 1 <= p
    /\ IsWalk(at, n, a)

OpenField(a) ==
    /\ ~closed
    /\ \E at \in [1..(Len(field) + 1) -> (a + 2)..(pos + 1)] :
          /\ WalksTo(at, Len(field) + 1, a, pos + 1)
          /\ \A k \in 1..Len(field) : field[k] = line[at[k]]

ClosedField(a, c) ==
    /\ closed /\ c \in (a + 2)..pos /\ Closes(c, pos + 1)
    /\ \E n \in 1..(c - a - 1) : \E at \in [1..n -> (a + 2)..c] :
          WalksTo(at, n, a, c) /\ Trim(field) = Trim(Text(at))

PlainField(a) ==
    /\ ~closed /\ field = SubSeq(line, a + 1, pos)
    /\ IsPlain(a, pos + 1)

\* Any way to read the line has read this field as far.
OpenInAll(a) ==
    \A cut \in Legal : \A at \in Walks(a, FieldEnd(cut, a)) :
        Len(at) > Len(field) /\ at[Len(field) + 1] = pos + 1
ClosedInAll(a, c) ==
    \A cut \in Legal : \A at \in Walks(a, FieldEnd(cut, a)) : at[Len(at)] = c

FieldSoFar(a) ==
    IF quoted THEN OpenField(a) /\ OpenInAll(a)
    ELSE PlainField(a) \/ \E c \in 1..pos : ClosedField(a, c) /\ ClosedInAll(a, c)

Finished(cut, a) ==
    \A b \in FieldStarts(cut) : b < a => out[Nth(cut, b)] \in Readings(b, FieldEnd(cut, b))
CutSoFar(cut, a) ==
    /\ cut \subseteq 1..pos /\ \A i \in cut : line[i] = delimiter
    /\ a \in FieldStarts(cut) /\ \A i \in cut : i <= a
    /\ Len(out) = Cardinality(cut) /\ Finished(cut, a)
OnlyCut(cut) == \A other \in Legal : other \cap 1..pos = cut

RightSoFar(cut, a) == CutSoFar(cut, a) /\ OnlyCut(cut) /\ FieldSoFar(a)
SomeCutIsRight == \E cut \in SUBSET (1..pos) : \E a \in 0..pos : RightSoFar(cut, a)
LineInv ==
    /\ LineTypes
    /\ verdict = "reading" => SomeCutIsRight
    /\ LineIsReadAsWritten

\* A set of numbers has a least one, and one with a bound a greatest.
LEMMA LeastOfNumbers ==
    ASSUME NEW S, S \subseteq Nat, S # {}
    PROVE  \E a \in S : \A b \in S : a <= b
<1> DEFINE IsLess == OpToRel(<, Nat)
<1>1. PICK a \in S : \A b \in S : ~(<<b, a>> \in IsLess)
  BY NatLessThanWellFounded, WFMin, Zenon
<1>2. \A b \in S : ~(b < a)
  BY <1>1 DEF OpToRel
<1> QED BY <1>2

LEMMA HasGreatest ==
    ASSUME NEW S, NEW n \in Nat, S \subseteq 0..n, S # {}
    PROVE  \E a \in S : \A b \in S : b <= a
<1> DEFINE Mirror == {n - i : i \in S}
<1>1. Mirror \subseteq Nat /\ Mirror # {}
  <2>1. \A i \in S : n - i \in Nat
    OBVIOUS
  <2> QED BY <2>1
<1>2. \A b \in S : n - b \in Mirror
  OBVIOUS
<1>3. \A k \in Mirror : \E a \in S : k = n - a
  OBVIOUS
<1> HIDE DEF Mirror
<1>4. PICK m \in Mirror : \A k \in Mirror : m <= k
  BY <1>1, LeastOfNumbers
<1>5. PICK a \in S : m = n - a
  BY <1>3, <1>4
<1>6. ASSUME NEW b \in S
      PROVE  b <= a
  <2>1. n - a <= n - b
    BY <1>2, <1>4, <1>5
  <2> QED BY <2>1
<1> QED BY <1>6

\* Where a field ends.
LEMMA FollowerIs ==
    ASSUME NEW n \in Nat, NEW cut, cut \subseteq 1..n, NEW a \in 0..n
    PROVE  \E e \in cut \cup {n + 1} : e > a /\ \A f \in cut \cup {n + 1} : f > a => e <= f
<1> DEFINE above == {e \in cut \cup {n + 1} : e > a}
<1>1. \A e \in cut \cup {n + 1} : e \in Nat
  OBVIOUS
<1>2. above \subseteq Nat /\ n + 1 \in above
  <2>1. n + 1 > a
    OBVIOUS
  <2> QED BY <1>1, <2>1
<1>3. PICK e \in above : \A f \in above : e <= f
  BY <1>2, LeastOfNumbers
<1> QED BY <1>3

LEMMA FieldEndIs ==
    ASSUME line \in Seq(Chars), NEW cut, cut \subseteq 1..Len(line), NEW a \in 0..Len(line)
    PROVE  /\ FieldEnd(cut, a) \in cut \cup {Len(line) + 1}
           /\ a < FieldEnd(cut, a) /\ FieldEnd(cut, a) \in (a + 1)..(Len(line) + 1)
           /\ \A i \in cut : i > a => FieldEnd(cut, a) <= i
<1> DEFINE n == Len(line)
<1>1. n \in Nat /\ cut \subseteq 1..n /\ a \in 0..n
  BY LenProperties
<1>2. FieldEnd(cut, a) = CHOOSE e \in cut \cup {n + 1} :
                            e > a /\ \A f \in cut \cup {n + 1} : f > a => e <= f
  BY DEF FieldEnd
<1> HIDE DEF n
<1>3. FieldEnd(cut, a) \in cut \cup {n + 1} /\ FieldEnd(cut, a) > a
        /\ \A f \in cut \cup {n + 1} : f > a => FieldEnd(cut, a) <= f
  BY <1>1, <1>2, FollowerIs
<1>4. FieldEnd(cut, a) \in (a + 1)..(n + 1)
  <2>1. \A e \in cut \cup {n + 1} : e \in Int /\ e <= n + 1
    BY <1>1
  <2>2. FieldEnd(cut, a) \in Int /\ FieldEnd(cut, a) <= n + 1
    BY <1>3, <2>1
  <2>3. \A e \in Int : e > a /\ e <= n + 1 => e \in (a + 1)..(n + 1)
    BY <1>1
  <2> QED BY <1>3, <2>2, <2>3
<1> QED BY <1>3, <1>4 DEF n

LEMMA FieldEndAt ==
    ASSUME line \in Seq(Chars), NEW cut, cut \subseteq 1..Len(line), NEW a \in 0..Len(line),
           NEW e \in cut \cup {Len(line) + 1}, a < e, \A i \in cut : i > a => e <= i
    PROVE  FieldEnd(cut, a) = e
<1>1. Len(line) \in Nat
  BY LenProperties
<1> DEFINE end == FieldEnd(cut, a)
<1>2. /\ end \in cut \cup {Len(line) + 1} /\ a < end /\ end \in (a + 1)..(Len(line) + 1)
      /\ \A i \in cut : i > a => end <= i
  BY FieldEndIs
<1> HIDE DEF end
<1>3. end <= e /\ e <= end /\ e \in Nat
  BY <1>1, <1>2
<1> QED BY <1>2, <1>3 DEF end

LEMMA SequenceOf ==
    ASSUME NEW S, NEW n \in Nat, NEW s \in [1..n -> S]
    PROVE  s \in Seq(S) /\ Len(s) = n
<1>1. s \in Seq(S)
  BY SeqDef
<1>2. Len(s) \in Nat /\ 1..Len(s) = 1..n
  BY <1>1, LenProperties
<1>3. Len(s) = n
  BY <1>2
<1> QED BY <1>1, <1>3

\* A trimmed field is a text, and a blank after it is trimmed too.
LeastOf(S) == CHOOSE i \in S : \A j \in S : i <= j
GreatestOf(S) == CHOOSE i \in S : \A j \in S : j <= i
Inked(s) == {i \in DOMAIN s : s[i] # Blank}

LEMMA TrimIs ==
    ASSUME NEW s
    PROVE  Trim(s) = IF Inked(s) = {} THEN <<>>
                     ELSE SubSeq(s, LeastOf(Inked(s)), GreatestOf(Inked(s)))
BY DEF Trim, Inked, LeastOf, GreatestOf

LEMMA InkedEnds ==
    ASSUME NEW s \in Seq(Chars), Inked(s) # {}
    PROVE  LeastOf(Inked(s)) \in 1..Len(s) /\ GreatestOf(Inked(s)) \in 1..Len(s)
<1> DEFINE text == Inked(s)
<1>1. Len(s) \in Nat /\ text \subseteq 1..Len(s)
  BY LenProperties DEF Inked
<1> HIDE DEF text
<1>2. text # {} /\ text \subseteq Nat /\ text \subseteq 0..Len(s)
  BY <1>1 DEF text
<1>3. \E i \in text : \A j \in text : i <= j
  BY <1>2, LeastOfNumbers
<1>4. \E i \in text : \A j \in text : j <= i
  BY <1>1, <1>2, HasGreatest
<1>5. LeastOf(text) \in text /\ GreatestOf(text) \in text
  BY <1>3, <1>4 DEF LeastOf, GreatestOf
<1> QED BY <1>1, <1>5 DEF text

LEMMA TrimType ==
    ASSUME NEW s \in Seq(Chars)
    PROVE  Trim(s) \in Seq(Chars)
<1> DEFINE first == LeastOf(Inked(s))
           last == GreatestOf(Inked(s))
<1>1. CASE Inked(s) = {}
  <2>1. Trim(s) = <<>> /\ <<>> \in Seq(Chars)
    BY <1>1, TrimIs, EmptySeq
  <2> QED BY <2>1
<1>2. CASE Inked(s) # {}
  <2>1. first \in 1..Len(s) /\ last \in 1..Len(s) /\ Trim(s) = SubSeq(s, first, last)
    BY <1>2, InkedEnds, TrimIs
  <2> HIDE DEF first, last
  <2>2. Len(s) \in Nat /\ \A i \in 1..Len(s) : s[i] \in Chars
    BY LenProperties
  <2>3. \A i \in first..last : s[i] \in Chars
    BY <2>1, <2>2
  <2> QED BY <2>1, <2>2, <2>3, SubSeqProperties
<1> QED BY <1>1, <1>2

LEMMA TrimBlank ==
    ASSUME NEW s \in Seq(Chars)
    PROVE  Trim(Append(s, Blank)) = Trim(s)
<1> DEFINE t == Append(s, Blank)
           first == LeastOf(Inked(s))
           last == GreatestOf(Inked(s))
<1>1. Blank \in Chars /\ Len(s) \in Nat /\ DOMAIN s = 1..Len(s)
        /\ \A i \in 1..Len(s) : s[i] \in Chars
  BY LenProperties DEF Chars
<1>2. t \in Seq(Chars) /\ Len(t) = Len(s) + 1 /\ DOMAIN t = 1..(Len(s) + 1)
        /\ t[Len(s) + 1] = Blank /\ \A i \in 1..Len(s) : t[i] = s[i]
  BY <1>1
<1> HIDE DEF t
<1>3. Inked(t) = Inked(s)
  BY <1>1, <1>2 DEF Inked
<1>4. Trim(t) = IF Inked(s) = {} THEN <<>> ELSE SubSeq(t, first, last)
  BY <1>3, TrimIs
<1>5. Trim(s) = IF Inked(s) = {} THEN <<>> ELSE SubSeq(s, first, last)
  BY TrimIs
<1>6. ASSUME Inked(s) # {}
      PROVE  SubSeq(t, first, last) = SubSeq(s, first, last)
  <2>1. first \in 1..Len(s) /\ last \in 1..Len(s)
    BY <1>6, InkedEnds
  <2> HIDE DEF first, last
  <2>2. first \in Int /\ last \in Int
    BY <1>1, <2>1
  <2>3. \A i \in first..last : i \in 1..Len(s) /\ s[i] \in Chars /\ t[i] = s[i]
    BY <1>1, <1>2, <2>1
  <2>4. \A i \in first..last : t[i] \in Chars
    BY <2>3
  <2>5. /\ SubSeq(s, first, last) \in Seq(Chars)
        /\ Len(SubSeq(s, first, last)) = IF first <= last THEN last - first + 1 ELSE 0
        /\ \A i \in 1..(last - first + 1) : SubSeq(s, first, last)[i] = s[first + i - 1]
    BY <2>2, <2>3, SubSeqProperties
  <2>6. /\ SubSeq(t, first, last) \in Seq(Chars)
        /\ Len(SubSeq(t, first, last)) = IF first <= last THEN last - first + 1 ELSE 0
        /\ \A i \in 1..(last - first + 1) : SubSeq(t, first, last)[i] = t[first + i - 1]
    BY <2>2, <2>4, SubSeqProperties
  <2>7. \A i \in 1..(last - first + 1) : first + i - 1 \in first..last
    BY <2>2
  <2>8. \A i \in 1..Len(SubSeq(s, first, last)) : i \in 1..(last - first + 1)
    BY <2>2, <2>5
  <2>9. \A i \in 1..Len(SubSeq(s, first, last)) :
           SubSeq(s, first, last)[i] = SubSeq(t, first, last)[i]
    BY <2>3, <2>5, <2>6, <2>7, <2>8
  <2> QED BY <2>5, <2>6, <2>9, SeqEqual
<1>7. CASE Inked(s) = {}
  BY <1>4, <1>5, <1>7 DEF t
<1>8. CASE Inked(s) # {}
  <2>1. Trim(t) = SubSeq(t, first, last) /\ Trim(s) = SubSeq(s, first, last)
    BY <1>4, <1>5, <1>8
  <2> QED BY <1>6, <1>8, <2>1 DEF t
<1> QED BY <1>7, <1>8

\* The cuts that leave only fields, at the field being read.
LEMMA LegalCut ==
    ASSUME LineTypes, NEW cut \in Legal
    PROVE  /\ cut \subseteq 1..Len(line) /\ \A i \in cut : line[i] = delimiter
           /\ \A a \in FieldStarts(cut) : Readings(a, FieldEnd(cut, a)) # {}
<1>1. DOMAIN line = 1..Len(line)
  BY LenProperties DEF LineTypes
<1> QED BY <1>1 DEF Legal, Cuts

LEMMA WalkIs ==
    ASSUME NEW a \in Nat, NEW e \in Nat, NEW at \in Walks(a, e)
    PROVE  /\ Len(at) \in 1..(e - a - 2) /\ at \in [1..Len(at) -> (a + 2)..(e - 1)]
           /\ IsWalk(at, Len(at), a) /\ Closes(at[Len(at)], e)
<1>1. PICK n \in 1..(e - a - 2) : at \in [1..n -> (a + 2)..(e - 1)]
  BY DEF Walks
<1>2. Len(at) = n
  BY <1>1, SequenceOf
<1> QED BY <1>1, <1>2 DEF Walks

LEMMA LegalField ==
    ASSUME LineTypes, NEW cut, NEW a, CutSoFar(cut, a), OnlyCut(cut), NEW other \in Legal
    PROVE  LET e == FieldEnd(other, a) IN
           /\ a \in 0..pos /\ e \in (pos + 1)..(Len(line) + 1)
           /\ \A i \in (a + 1)..(e - 1) : i \notin other
           /\ IsPlain(a, e) \/ \E at \in Walks(a, e) : TRUE
<1> DEFINE e == FieldEnd(other, a)
<1>1. Len(line) \in Nat /\ pos \in 0..Len(line)
  BY LenProperties DEF LineTypes
<1>2. a \in 0..pos /\ a \in FieldStarts(other) /\ a \in 0..Len(line)
  BY <1>1 DEF CutSoFar, OnlyCut, FieldStarts
<1>3. other \subseteq 1..Len(line) /\ Readings(a, e) # {}
  BY <1>2, LegalCut
<1>4. /\ e \in other \cup {Len(line) + 1} /\ a < e /\ e \in (a + 1)..(Len(line) + 1)
      /\ \A i \in other : i > a => e <= i
  BY <1>2, <1>3, FieldEndIs DEF LineTypes
<1>5. IsPlain(a, e) \/ \E at \in Walks(a, e) : TRUE
  BY <1>3 DEF Readings
<1> HIDE DEF e
<1>6. e > pos
  <2>1. CASE e = Len(line) + 1
    BY <1>1, <2>1
  <2>2. CASE e \in other
    <3>1. e \in 1..pos => e \in cut
      BY <2>2 DEF OnlyCut
    <3>2. ~(e \in cut)
      BY <1>2, <1>4 DEF CutSoFar
    <3> QED BY <1>1, <1>2, <1>4, <3>1, <3>2
  <2> QED BY <1>4, <2>1, <2>2
<1>7. e \in (pos + 1)..(Len(line) + 1)
  BY <1>1, <1>2, <1>4, <1>6
<1>8. \A i \in (a + 1)..(e - 1) : i \notin other
  BY <1>1, <1>2, <1>4
<1> QED BY <1>2, <1>5, <1>7, <1>8 DEF e

\* Within quotes, every reading is in this field and reads on.
LEMMA OpenLegal ==
    ASSUME LineTypes, NEW cut, NEW a, RightSoFar(cut, a), quoted, NEW other \in Legal
    PROVE  /\ FieldEnd(other, a) \in (pos + 2)..(Len(line) + 1)
           /\ \A i \in (a + 1)..(FieldEnd(other, a) - 1) : i \notin other
           /\ \E at \in Walks(a, FieldEnd(other, a)) :
                 Len(at) > Len(field) /\ at[Len(field) + 1] = pos + 1
<1> DEFINE e == FieldEnd(other, a)
<1>1. Len(line) \in Nat /\ pos \in 0..Len(line) /\ Len(field) \in Nat
  BY LenProperties DEF LineTypes
<1>2. /\ a \in 0..pos /\ e \in (pos + 1)..(Len(line) + 1)
      /\ \A i \in (a + 1)..(e - 1) : i \notin other
      /\ IsPlain(a, e) \/ \E at \in Walks(a, e) : TRUE
  BY LegalField DEF RightSoFar
<1>3. OpenField(a) /\ OpenInAll(a)
  BY DEF RightSoFar, FieldSoFar
<1>4. line[a + 1] = Quote /\ a + 1 <= pos
  BY <1>1, <1>2, <1>3 DEF OpenField, WalksTo, IsWalk
<1> HIDE DEF e
<1>5. ~IsPlain(a, e)
  BY <1>1, <1>2, <1>4 DEF IsPlain
<1>6. PICK at \in Walks(a, e) : TRUE
  BY <1>2, <1>5
<1>7. Len(at) > Len(field) /\ at[Len(field) + 1] = pos + 1
  BY <1>3, <1>6 DEF OpenInAll, e
<1>8. Len(at) \in 1..(e - a - 2) /\ at \in [1..Len(at) -> (a + 2)..(e - 1)]
  BY <1>1, <1>2, WalkIs
<1>9. at[Len(field) + 1] \in (a + 2)..(e - 1)
  BY <1>1, <1>7, <1>8
<1>10. e \in (pos + 2)..(Len(line) + 1)
  BY <1>1, <1>2, <1>7, <1>9
<1> QED BY <1>2, <1>7, <1>10 DEF e

\* After a closing quote, every reading has only blanks up to the next cut.
LEMMA ClosedLegal ==
    ASSUME LineTypes, NEW cut, NEW a, CutSoFar(cut, a), OnlyCut(cut), NEW c \in 1..pos,
           ClosedField(a, c), ClosedInAll(a, c), NEW other \in Legal
    PROVE  /\ FieldEnd(other, a) \in (pos + 1)..(Len(line) + 1)
           /\ \A i \in (a + 1)..(FieldEnd(other, a) - 1) : i \notin other
           /\ \A i \in (pos + 1)..(FieldEnd(other, a) - 1) : line[i] = Blank
<1> DEFINE e == FieldEnd(other, a)
<1>1. Len(line) \in Nat /\ pos \in 0..Len(line)
  BY LenProperties DEF LineTypes
<1>2. /\ a \in 0..pos /\ e \in (pos + 1)..(Len(line) + 1)
      /\ \A i \in (a + 1)..(e - 1) : i \notin other
      /\ IsPlain(a, e) \/ \E at \in Walks(a, e) : TRUE
  BY LegalField
<1>3. line[a + 1] = Quote /\ a + 2 <= c
  BY <1>1, <1>2 DEF ClosedField, WalksTo, IsWalk
<1> HIDE DEF e
<1>4. ~IsPlain(a, e)
  BY <1>1, <1>2, <1>3 DEF IsPlain
<1>5. PICK at \in Walks(a, e) : TRUE
  BY <1>2, <1>4
<1>6. at[Len(at)] = c
  BY <1>5 DEF ClosedInAll, e
<1>7. Closes(c, e)
  BY <1>1, <1>2, <1>6, WalkIs
<1>8. \A i \in (pos + 1)..(e - 1) : line[i] = Blank
  BY <1>1, <1>2, <1>7 DEF Closes
<1> QED BY <1>2, <1>8 DEF e

\* A field that began plainly is plain in every reading.
LEMMA PlainLegal ==
    ASSUME LineTypes, NEW cut, NEW a, CutSoFar(cut, a), OnlyCut(cut), PlainField(a),
           NEW other \in Legal
    PROVE  /\ FieldEnd(other, a) \in (pos + 1)..(Len(line) + 1) /\ a \in 0..pos
           /\ \A i \in (a + 1)..(FieldEnd(other, a) - 1) : i \notin other
           /\ \/ IsPlain(a, FieldEnd(other, a))
              \/ pos = a /\ line[a + 1] = Quote /\ a + 1 < FieldEnd(other, a)
<1> DEFINE e == FieldEnd(other, a)
<1>1. Len(line) \in Nat /\ pos \in 0..Len(line)
  BY LenProperties DEF LineTypes
<1>2. /\ a \in 0..pos /\ e \in (pos + 1)..(Len(line) + 1)
      /\ \A i \in (a + 1)..(e - 1) : i \notin other
      /\ IsPlain(a, e) \/ \E at \in Walks(a, e) : TRUE
  BY LegalField
<1> HIDE DEF e
<1>3. ASSUME NEW at \in Walks(a, e)
      PROVE  pos = a /\ line[a + 1] = Quote /\ a + 1 < e
  <2>1. line[a + 1] = Quote /\ Len(at) \in 1..(e - a - 2)
    BY <1>1, <1>2, WalkIs DEF IsWalk
  <2>2. ~(a + 1 <= pos)
    BY <1>1, <1>2, <2>1 DEF PlainField, IsPlain
  <2>3. e \in Int /\ a \in Int /\ 1 <= e - a - 2
    BY <1>1, <1>2, <2>1
  <2> QED BY <1>1, <1>2, <2>1, <2>2, <2>3
<1> QED BY <1>2, <1>3 DEF e

\* The line itself stays, and with it every way to read it.
LEMMA SameLine ==
    ASSUME UNCHANGED lineRest
    PROVE  /\ Legal' = Legal
           /\ \A cut, a : FieldEnd(cut, a)' = FieldEnd(cut, a)
           /\ \A a, e : Walks(a, e)' = Walks(a, e)
           /\ \A a, e : Readings(a, e)' = Readings(a, e)
           /\ \A at, n, a, p : WalksTo(at, n, a, p)' = WalksTo(at, n, a, p)
<1> USE DEF lineRest
<1>1. \A cut, a : FieldEnd(cut, a)' = FieldEnd(cut, a)
  BY DEF FieldEnd
<1>2. \A a, e : Walks(a, e)' = Walks(a, e)
  BY DEF Walks, IsWalk, Follows, Closes
<1>3. \A a, e : Readings(a, e)' = Readings(a, e)
  <2>1. \A a, e : IsPlain(a, e)' = IsPlain(a, e)
    BY DEF IsPlain
  <2>2. \A at : Text(at)' = Text(at)
    BY DEF Text
  <2> QED BY <1>2, <2>1, <2>2 DEF Readings
<1>4. Cuts' = Cuts
  BY DEF Cuts
<1>5. Legal' = Legal
  BY <1>1, <1>3, <1>4 DEF Legal, FieldStarts
<1>6. \A at, n, a, p : WalksTo(at, n, a, p)' = WalksTo(at, n, a, p)
  BY DEF WalksTo, IsWalk, Follows
<1> QED BY <1>1, <1>2, <1>3, <1>5, <1>6

LEMMA CutStays ==
    ASSUME LineTypes, NEW cut, NEW a, CutSoFar(cut, a), UNCHANGED <<lineRest, out>>,
           pos' \in pos..Len(line)
    PROVE  CutSoFar(cut, a)'
<1>1. Finished(cut, a)'
  <2>1. Finished(cut, a)
    BY DEF CutSoFar
  <2> QED BY <2>1, SameLine DEF Finished, FieldStarts, Nth
<1>2. cut \subseteq 1..pos'
  BY DEF CutSoFar, LineTypes
<1> QED BY <1>1, <1>2 DEF CutSoFar, FieldStarts, lineRest

\* Reading on in the field, past places no reading cuts.
LEMMA ReadsOn ==
    ASSUME LineTypes, NEW cut, NEW a, CutSoFar(cut, a), OnlyCut(cut),
           UNCHANGED <<lineRest, out>>, pos' \in pos..Len(line),
           \A other \in Legal : \A i \in (pos + 1)..pos' : i \notin other,
           FieldSoFar(a)'
    PROVE  SomeCutIsRight'
<1>1. CutSoFar(cut, a)'
  BY CutStays
<1>2. Len(line) \in Nat /\ pos \in 0..Len(line)
  BY LenProperties DEF LineTypes
<1>3. OnlyCut(cut)'
  <2>1. ASSUME NEW other \in Legal
        PROVE  other \cap 1..pos' = cut
    <3>1. other \cap 1..pos = cut
      BY DEF OnlyCut
    <3>2. \A i \in 1..pos' : i \in 1..pos \/ i \in (pos + 1)..pos'
      BY <1>2
    <3>3. 1..pos \subseteq 1..pos'
      BY <1>2
    <3> QED BY <3>1, <3>2, <3>3
  <2> QED BY <2>1, SameLine DEF OnlyCut
<1>4. a \in 0..pos' /\ cut \in SUBSET (1..pos')
  BY <1>1, <1>2 DEF CutSoFar, FieldStarts
<1> QED BY <1>1, <1>3, <1>4, FieldSoFar(a)' DEF SomeCutIsRight, RightSoFar

\* A walk goes on to the place that follows.
GoesOnTo(at, n, a, q) ==
    \E longer \in [1..(n + 1) -> (a + 2)..q] :
        WalksTo(longer, n + 1, a, q) /\ \A k \in 1..n : longer[k] = at[k]

LEMMA WalkRises ==
    ASSUME NEW a \in Nat, NEW n \in Nat \ {0}, NEW p \in Nat, NEW q \in {p + 1, p + 2},
           NEW at, WalksTo(at, n, a, p), Follows(p, q)
    PROVE  GoesOnTo(at, n, a, q)
<1> DEFINE longer == [k \in 1..(n + 1) |-> IF k = n + 1 THEN q ELSE at[k]]
<1>1. at \in [1..n -> (a + 2)..p] /\ at[n] = p /\ n + a + 1 <= p /\ IsWalk(at, n, a)
  BY DEF WalksTo
<1>2. \A k \in 1..n : at[k] \in (a + 2)..q
  BY <1>1
<1>3. q \in (a + 2)..q
  BY <1>1
<1>4. \A k \in 1..(n + 1) : k # n + 1 => k \in 1..n
  OBVIOUS
<1>5. longer \in [1..(n + 1) -> (a + 2)..q]
  BY <1>2, <1>3, <1>4
<1>6. longer[n + 1] = q /\ \A k \in 1..n : longer[k] = at[k]
  OBVIOUS
<1> HIDE DEF longer
<1>7. ASSUME NEW k \in 1..((n + 1) - 1)
      PROVE  Follows(longer[k], longer[k + 1])
  <2>1. CASE k = n
    BY <1>1, <1>6, <2>1
  <2>2. CASE k # n
    <3>1. k \in 1..(n - 1) /\ k + 1 \in 1..n /\ k \in 1..n
      BY <2>2
    <3> QED BY <1>1, <1>6, <3>1 DEF IsWalk
  <2> QED BY <2>1, <2>2
<1>8. IsWalk(longer, n + 1, a)
  BY <1>1, <1>6, <1>7, 1 \in 1..n DEF IsWalk
<1>9. (n + 1) + a + 1 <= q
  BY <1>1
<1> QED BY <1>5, <1>6, <1>8, <1>9 DEF WalksTo, GoesOnTo

\* Within quotes one more character is read, and the walk goes on after it.
LEMMA OpenGoesOn ==
    ASSUME LineTypes, LineTypes', NEW cut, NEW a, RightSoFar(cut, a), quoted,
           UNCHANGED <<lineRest, out, closed>>, quoted', pos < Len(line),
           NEW q \in {pos + 2, pos + 3}, Follows(pos + 1, q), pos' = q - 1,
           field' = Append(field, line[pos + 1]),
           \A other \in Legal : \A at \in Walks(a, FieldEnd(other, a)) :
              Len(at) > Len(field) + 1
    PROVE  SomeCutIsRight'
<1>1. Len(line) \in Nat /\ pos \in 0..Len(line) /\ Len(field) \in Nat /\ pos' \in 0..Len(line)
        /\ line' = line
  BY LenProperties DEF LineTypes, lineRest
<1>2. CutSoFar(cut, a) /\ OnlyCut(cut) /\ OpenField(a) /\ OpenInAll(a) /\ a \in Nat
  BY <1>1 DEF RightSoFar, FieldSoFar, CutSoFar, FieldStarts
<1>15. PICK n, p : n = Len(field) + 1 /\ p = pos + 1
  OBVIOUS
<1>3. /\ Len(field') = n /\ field'[n] = line[pos + 1]
      /\ \A k \in 1..Len(field) : field'[k] = field[k]
  BY <1>1, <1>15 DEF LineTypes
<1>4. PICK at : WalksTo(at, n, a, p) /\ \A k \in 1..Len(field) : field[k] = line[at[k]]
  BY <1>2, <1>15 DEF OpenField
<1>5. n \in Nat \ {0} /\ p \in Nat /\ q \in {p + 1, p + 2} /\ q \in Nat
  BY <1>1, <1>15
<1>6. PICK longer \in [1..(n + 1) -> (a + 2)..q] :
         WalksTo(longer, n + 1, a, q) /\ \A k \in 1..n : longer[k] = at[k]
  <2>1. WalksTo(at, n, a, p) /\ Follows(p, q) /\ a \in Nat
    BY <1>2, <1>4, <1>15
  <2>2. n \in Nat \ {0} /\ p \in Nat /\ q \in {p + 1, p + 2}
    BY <1>5
  <2>3. GoesOnTo(at, n, a, q)
    BY ONLY <2>1, <2>2, WalkRises
  <2> QED BY <2>3 DEF GoesOnTo
<1>7. pos' + 1 = q
  BY <1>5, <1>15
<1>8. \A k \in 1..n : field'[k] = line[longer[k]]
  <2>1. at[n] = pos + 1
    BY <1>4, <1>15 DEF WalksTo
  <2>2. \A k \in 1..n : k = n \/ k \in 1..Len(field)
    BY <1>1, <1>15
  <2>3. \A k \in 1..Len(field) : k \in 1..n
    BY <1>1, <1>15
  <2>4. longer[n] = pos + 1 /\ \A k \in 1..Len(field) : longer[k] = at[k]
    BY <1>5, <1>6, <2>1, <2>3
  <2>5. \A k \in 1..Len(field) : field'[k] = line[longer[k]]
    BY <1>3, <1>4, <2>4
  <2> QED BY <1>3, <2>2, <2>4, <2>5
<1>9. OpenField(a)'
  <2>1. WalksTo(longer, Len(field) + 1, a, pos + 1)'
    <3>1. WalksTo(longer, n + 1, a, q)'
      BY <1>6, SameLine
    <3>2. Len(field') + 1 = n + 1 /\ pos' + 1 = q
      BY <1>3, <1>7
    <3> QED BY <3>1, <3>2
  <2>2. longer \in [1..(Len(field') + 1) -> (a + 2)..(pos' + 1)]
    BY <1>3, <1>6, <1>7
  <2>3. ~closed' /\ \A k \in 1..Len(field') : field'[k] = line'[longer[k]]
    BY <1>1, <1>2, <1>3, <1>8 DEF OpenField
  <2> QED BY <2>1, <2>2, <2>3 DEF OpenField
<1>10. ASSUME NEW other \in Legal, NEW w \in Walks(a, FieldEnd(other, a))
       PROVE  /\ Len(w) > n /\ w[n + 1] = q
              /\ q < FieldEnd(other, a)
  <2> DEFINE e == FieldEnd(other, a)
  <2>1. e \in (pos + 2)..(Len(line) + 1)
    BY OpenLegal
  <2> HIDE DEF e
  <2>2. e \in Nat
    BY <1>1, <2>1
  <2>3. /\ Len(w) \in 1..(e - a - 2) /\ w \in [1..Len(w) -> (a + 2)..(e - 1)]
        /\ IsWalk(w, Len(w), a)
    BY <1>2, <2>2, WalkIs DEF e
  <2>4. Len(w) > n /\ w[n] = pos + 1
    BY <1>2, <1>15 DEF OpenInAll
  <2>5. n \in 1..(Len(w) - 1) /\ n + 1 \in 1..Len(w)
    BY <1>2, <1>5, <2>2, <2>3, <2>4
  <2>6. Follows(pos + 1, w[n + 1]) /\ w[n + 1] \in (a + 2)..(e - 1)
    BY <2>3, <2>4, <2>5 DEF IsWalk
  <2>7. w[n + 1] = q
    BY <2>6 DEF Follows
  <2>8. q < e
    BY <1>2, <1>5, <2>2, <2>6, <2>7
  <2> QED BY <2>4, <2>7, <2>8 DEF e
<1>11. OpenInAll(a)'
  BY <1>3, <1>7, <1>10, <1>15, SameLine DEF OpenInAll
<1>12. FieldSoFar(a)'
  BY <1>9, <1>11, quoted' DEF FieldSoFar
<1>13. ASSUME NEW other \in Legal, NEW i \in (pos + 1)..pos'
       PROVE  i \notin other
  <2> DEFINE e == FieldEnd(other, a)
  <2>1. /\ e \in (pos + 2)..(Len(line) + 1)
        /\ \A j \in (a + 1)..(e - 1) : j \notin other
        /\ \E at_1 \in Walks(a, e) : TRUE
    BY OpenLegal
  <2>2. q < e
    BY <1>10, <2>1
  <2>3. a \in 0..pos
    BY <1>1, <1>2 DEF CutSoFar, FieldStarts
  <2> HIDE DEF e
  <2>4. i \in (a + 1)..(e - 1)
    BY <1>1, <1>5, <1>7, <1>15, <2>1, <2>2, <2>3
  <2> QED BY <2>1, <2>4
<1>14. pos' \in pos..Len(line)
  BY <1>1, <1>5, <1>7, <1>15
<1> QED BY <1>2, <1>12, <1>13, <1>14, ReadsOn

LEMMA LineTypesStep ==
    ASSUME LineTypes, ReadQuoted \/ ReadDelimiter \/ OpenQuote \/ ReadText \/ EndLine
    PROVE  LineTypes'
<1>1. Len(line) \in Nat /\ pos \in 0..Len(line) /\ Trim(field) \in Seq(Chars)
  BY LenProperties, TrimType DEF LineTypes
<1>2. Quote \in Chars /\ <<>> \in Seq(Chars)
  BY EmptySeq DEF Chars
<1>3. pos < Len(line) => line[pos + 1] \in Chars
  BY <1>1, ElementOfSeq DEF LineTypes
<1>4. \A n, f, q, c : Takes(n, f, q, c) /\ n \in {1, 2} /\ pos + n <= Len(line) /\ f \in Seq(Chars)
                        /\ q \in BOOLEAN /\ c \in BOOLEAN => LineTypes'
  BY <1>1 DEF Takes, LineTypes, lineRest
<1>5. Append(field, Quote) \in Seq(Chars)
        /\ (pos < Len(line) => Append(field, Char) \in Seq(Chars))
  BY <1>2, <1>3 DEF LineTypes, Char
<1>6. Refuses => LineTypes'
  BY DEF Refuses, LineTypes, lineRest
<1>7. CASE ReadQuoted
  <2>1. pos < Len(line) /\ (Doubled => pos + 2 <= Len(line))
    BY <1>7 DEF ReadQuoted, Splitting, Doubled
  <2>2. /\ pos + 1 <= Len(line) /\ 1 \in {1, 2} /\ 2 \in {1, 2} /\ TRUE \in BOOLEAN
        /\ FALSE \in BOOLEAN /\ closed \in BOOLEAN /\ field \in Seq(Chars)
    BY <1>1, <2>1 DEF LineTypes
  <2>3. CASE Takes(1, Append(field, Char), TRUE, closed)
    BY <1>4, <1>5, <2>1, <2>2, <2>3
  <2>4. CASE Doubled /\ Takes(2, Append(field, Quote), TRUE, closed)
    BY <1>4, <1>5, <2>1, <2>2, <2>4
  <2>5. CASE Takes(1, field, FALSE, TRUE)
    BY <1>4, <2>2, <2>5
  <2> QED BY <1>7, <2>3, <2>4, <2>5 DEF ReadQuoted
<1>8. CASE ReadDelimiter
  <2>1. out' \in Seq(Seq(Chars)) /\ pos' \in 0..Len(line)
    BY <1>1, <1>8 DEF ReadDelimiter, Splitting, LineTypes
  <2> QED BY <1>2, <1>8, <2>1 DEF ReadDelimiter, LineTypes, lineRest
<1>9. CASE OpenQuote \/ ReadText
  <2>1. pos + 1 <= Len(line) /\ pos < Len(line) /\ closed \in BOOLEAN /\ field \in Seq(Chars)
    <3>1. Splitting
      BY <1>9 DEF OpenQuote, ReadText
    <3>2. pos + 1 <= Len(line) /\ pos < Len(line)
      BY <1>1, <3>1 DEF Splitting
    <3> QED BY <3>2 DEF LineTypes
  <2>2. Refuses \/ Takes(1, field, TRUE, closed) \/ Takes(1, Append(field, Char), FALSE, closed)
    BY <1>9 DEF OpenQuote, ReadText
  <2> QED BY <1>4, <1>5, <1>6, <2>1, <2>2
<1>10. CASE EndLine
  <2>1. CASE ~quoted
    <3>1. out' = Append(out, Trim(field)) /\ out \in Seq(Seq(Chars))
      BY <1>10, <2>1 DEF EndLine, LineTypes
    <3>2. out' \in Seq(Seq(Chars))
      BY <1>1, <3>1
    <3> QED BY <1>10, <2>1, <3>2 DEF EndLine, LineTypes, lineRest
  <2> QED BY <1>6, <1>10, <2>1 DEF EndLine
<1> QED BY <1>7, <1>8, <1>9, <1>10

\* A delimiter is neither a quote nor a blank, and a field ends at one or with the line.
LEMMA DelimiterIs == LineTypes => delimiter # Quote /\ delimiter # Blank /\ Quote # Blank
BY DEF LineTypes, Delimiters, Quote, Blank

LEMMA EndsAtCut ==
    ASSUME LineTypes, NEW other \in Legal, NEW a \in 0..pos
    PROVE  /\ FieldEnd(other, a) \in other \cup {Len(line) + 1}
           /\ FieldEnd(other, a) # Len(line) + 1 => line[FieldEnd(other, a)] = delimiter
<1>1. other \subseteq 1..Len(line) /\ \A i \in other : line[i] = delimiter
  BY LegalCut
<1>2. a \in 0..Len(line)
  BY LenProperties DEF LineTypes
<1>3. FieldEnd(other, a) \in other \cup {Len(line) + 1}
  BY <1>1, <1>2, FieldEndIs DEF LineTypes
<1> QED BY <1>1, <1>3

LEMMA NoCutHere ==
    ASSUME LineTypes, pos < Len(line), line[pos + 1] # delimiter, NEW other \in Legal,
           NEW a \in 0..pos,
           FieldEnd(other, a) \in (pos + 1)..(Len(line) + 1)
    PROVE  /\ FieldEnd(other, a) > pos + 1
           /\ \A i \in (pos + 1)..(pos + 1) : i \notin other
<1>1. pos + 1 \notin other
  BY LegalCut
<1>2. Len(line) \in Nat /\ pos \in Nat
  BY LenProperties DEF LineTypes
<1>3. FieldEnd(other, a) # pos + 1
  BY <1>2, EndsAtCut
<1> QED BY <1>1, <1>2, <1>3

\* Nothing can be read any more: the line is refused, as it has to be.
LEMMA RefusedRightly ==
    ASSUME Refuses, Legal = {}
    PROVE  LineIsReadAsWritten' /\ verdict' # "reading"
<1>1. verdict' = "refused" /\ Legal' = Legal
  BY SameLine DEF Refuses
<1> QED BY <1>1 DEF LineIsReadAsWritten

LEMMA QuotedStep ==
    ASSUME LineTypes, NEW cut, NEW a, RightSoFar(cut, a), ReadQuoted
    PROVE  SomeCutIsRight' /\ verdict' = "reading"
<1>1. LineTypes'
  BY LineTypesStep
<1>2. verdict' = "reading" /\ UNCHANGED <<lineRest, out>> /\ pos < Len(line) /\ quoted
  BY DEF ReadQuoted, Splitting, Takes
<1>3. Len(line) \in Nat /\ pos \in 0..Len(line) /\ Len(field) \in Nat
  BY LenProperties DEF LineTypes
<1>4. CutSoFar(cut, a) /\ OnlyCut(cut) /\ OpenField(a) /\ OpenInAll(a) /\ a \in 0..pos
  BY <1>2, <1>3 DEF RightSoFar, FieldSoFar, CutSoFar, FieldStarts
<1>5. ASSUME NEW other \in Legal, NEW at \in Walks(a, FieldEnd(other, a))
      PROVE  /\ FieldEnd(other, a) \in (pos + 2)..(Len(line) + 1)
             /\ Len(at) > Len(field) /\ at[Len(field) + 1] = pos + 1
             /\ Len(at) \in Nat /\ IsWalk(at, Len(at), a)
             /\ at \in [1..Len(at) -> (a + 2)..(FieldEnd(other, a) - 1)]
             /\ Closes(at[Len(at)], FieldEnd(other, a))
  <2>1. FieldEnd(other, a) \in (pos + 2)..(Len(line) + 1)
    BY <1>2, OpenLegal
  <2>2. FieldEnd(other, a) \in Nat /\ a \in Nat
    BY <1>3, <1>4, <2>1
  <2>3. Len(at) > Len(field) /\ at[Len(field) + 1] = pos + 1
    BY <1>4 DEF OpenInAll
  <2>4. /\ Len(at) \in 1..(FieldEnd(other, a) - a - 2) /\ IsWalk(at, Len(at), a)
        /\ at \in [1..Len(at) -> (a + 2)..(FieldEnd(other, a) - 1)]
        /\ Closes(at[Len(at)], FieldEnd(other, a))
    BY <2>2, WalkIs
  <2> QED BY <2>1, <2>2, <2>3, <2>4
<1>6. CASE Char # Quote /\ Takes(1, Append(field, Char), TRUE, closed)
  <2>1. Follows(pos + 1, pos + 2)
    BY <1>3, <1>6 DEF Follows, Char
  <2>2. ASSUME NEW other \in Legal, NEW at \in Walks(a, FieldEnd(other, a))
        PROVE  Len(at) > Len(field) + 1
    <3>1. Len(at) # Len(field) + 1
      BY <1>5, <1>6 DEF Closes, Char
    <3> QED BY <1>3, <1>5, <3>1
  <2> QED BY <1>1, <1>2, <1>3, <1>6, <2>1, <2>2, OpenGoesOn DEF Takes, Char
<1>7. CASE Char = Quote /\ Doubled /\ Takes(2, Append(field, Quote), TRUE, closed)
  <2>1. Follows(pos + 1, pos + 3)
    BY <1>3, <1>7 DEF Follows, Char, Doubled
  <2>2. ASSUME NEW other \in Legal, NEW at \in Walks(a, FieldEnd(other, a))
        PROVE  Len(at) > Len(field) + 1
    <3> DEFINE e == FieldEnd(other, a)
    <3>1. e # pos + 2
      BY <1>3, <1>4, <1>7, EndsAtCut, DelimiterIs DEF Doubled
    <3>2. e \in (pos + 2)..(Len(line) + 1)
      BY <1>5
    <3>3. Closes(at[Len(at)], e) /\ Len(at) > Len(field) /\ at[Len(field) + 1] = pos + 1
            /\ Len(at) \in Nat
      BY <1>5
    <3> HIDE DEF e
    <3>4. ASSUME Len(at) = Len(field) + 1
          PROVE  FALSE
      <4>1. pos + 2 \in ((pos + 1) + 1)..(e - 1)
        BY <1>3, <3>1, <3>2
      <4>2. line[pos + 2] = Blank
        BY <3>3, <3>4, <4>1 DEF Closes
      <4> QED BY <1>7, <4>2, DelimiterIs DEF Doubled
    <3> QED BY <1>3, <3>3, <3>4
  <2> QED BY <1>1, <1>2, <1>3, <1>7, <2>1, <2>2, OpenGoesOn DEF Takes, Char
<1>8. CASE Char = Quote /\ ~Doubled /\ Takes(1, field, FALSE, TRUE)
  <2>1. /\ pos' = pos + 1 /\ field' = field /\ ~quoted' /\ closed' /\ line' = line
        /\ line[pos + 1] = Quote
    BY <1>8 DEF Takes, lineRest, Char
  <2>2. PICK n, c : n = Len(field) + 1 /\ c = pos + 1
    OBVIOUS
  <2>3. PICK at \in [1..n -> (a + 2)..c] :
           WalksTo(at, n, a, c) /\ \A k \in 1..Len(field) : field[k] = line[at[k]]
    BY <1>4, <2>2 DEF OpenField
  <2>4. n \in 1..(c - a - 1) /\ c \in (a + 2)..c /\ c \in Nat
    BY <1>3, <1>4, <2>2, <2>3 DEF WalksTo
  <2>5. Text(at) = field
    <3>1. Len(at) = n
      BY <2>3, <2>4, SequenceOf
    <3>2. Text(at) = [k \in 1..Len(field) |-> line[at[k]]]
      BY <1>3, <2>2, <3>1 DEF Text
    <3>3. field = [k \in 1..Len(field) |-> field[k]]
      BY LenProperties DEF LineTypes
    <3> QED BY <2>3, <3>2, <3>3
  <2>6. Closes(c, c + 1)
    BY <2>1, <2>2, <2>4 DEF Closes
  <2>7. ClosedField(a, c)'
    <3>1. WalksTo(at, n, a, c)' /\ Text(at)' = Text(at) /\ Closes(c, c + 1)'
      BY <1>2, <2>1, <2>3, <2>6, SameLine DEF Text, Closes
    <3>2. Closes(c, pos + 1)' /\ c \in (a + 2)..pos'
      BY <2>1, <2>2, <2>4, <3>1
    <3>3. Trim(field') = Trim(Text(at)')
      BY <2>1, <2>5, <3>1
    <3> QED BY <2>1, <2>3, <2>4, <3>1, <3>2, <3>3 DEF ClosedField
  <2>8. ASSUME NEW other \in Legal, NEW w \in Walks(a, FieldEnd(other, a))
        PROVE  w[Len(w)] = c
    <3> DEFINE e == FieldEnd(other, a)
    <3>1. /\ e \in (pos + 2)..(Len(line) + 1)
          /\ Len(w) > Len(field) /\ w[n] = pos + 1
          /\ Len(w) \in Nat /\ IsWalk(w, Len(w), a)
          /\ w \in [1..Len(w) -> (a + 2)..(e - 1)]
      BY <1>5, <2>2
    <3> HIDE DEF e
    <3>2. ASSUME Len(w) # n
          PROVE  FALSE
      <4>0. PICK m : m = Len(w)
        OBVIOUS
      <4>1. n \in 1..(Len(w) - 1) /\ n + 1 \in 1..Len(w)
        <5>0. Len(field) = n - 1 /\ n \in Nat \ {0}
          BY <1>3, <2>2
        <5>1. m \in Nat /\ m > n - 1 /\ m # n /\ n \in Nat \ {0}
          BY <3>1, <3>2, <4>0, <5>0
        <5>2. n \in 1..(m - 1) /\ n + 1 \in 1..m
          BY <5>1
        <5> QED BY <4>0, <5>2
      <4>2. Follows(pos + 1, w[n + 1]) /\ w[n + 1] \in (a + 2)..(e - 1)
        BY <3>1, <4>1 DEF IsWalk
      <4>3. line[pos + 2] = Quote /\ pos + 3 <= e - 1
        BY <1>3, <2>1, <4>2 DEF Follows
      <4>4. pos + 2 <= Len(line)
        BY <1>3, <3>1, <4>3
      <4> QED BY <1>8, <4>3, <4>4 DEF Doubled
    <3> QED BY <2>2, <3>1, <3>2
  <2>9. ClosedInAll(a, c)'
    BY <1>2, <2>8, SameLine DEF ClosedInAll
  <2>10. FieldSoFar(a)'
    <3>1. c \in 1..pos'
      BY <1>3, <2>1, <2>2
    <3> QED BY <2>1, <2>7, <2>9, <3>1 DEF FieldSoFar
  <2>11. ASSUME NEW other \in Legal, NEW i \in (pos + 1)..pos'
         PROVE  i \notin other
    <3>1. line[i] = Quote
      BY <1>3, <2>1
    <3> QED BY <3>1, LegalCut, DelimiterIs
  <2>12. pos' \in pos..Len(line)
    BY <1>2, <1>3, <2>1
  <2>13. SomeCutIsRight'
    BY <1>2, <1>4, <2>10, <2>11, <2>12, ReadsOn
  <2> QED BY <1>2, <2>13
<1> QED BY <1>6, <1>7, <1>8 DEF ReadQuoted

\* The field being read is one, if it ends here.
LEMMA FieldReads ==
    ASSUME LineTypes, NEW a \in 0..pos, ~quoted,
           PlainField(a) \/ \E c \in 1..pos : ClosedField(a, c)
    PROVE  Trim(field) \in Readings(a, pos + 1)
<1>1. pos \in Nat /\ a \in Nat
  BY LenProperties DEF LineTypes
<1>2. CASE PlainField(a)
  <2>1. field = SubSeq(line, a + 1, (pos + 1) - 1) /\ IsPlain(a, pos + 1)
    BY <1>1, <1>2 DEF PlainField
  <2> QED BY <2>1 DEF Readings
<1>3. ASSUME NEW c \in 1..pos, ClosedField(a, c)
      PROVE  Trim(field) \in Readings(a, pos + 1)
  <2>1. PICK n \in 1..(c - a - 1) : \E at \in [1..n -> (a + 2)..c] :
                WalksTo(at, n, a, c) /\ Trim(field) = Trim(Text(at))
    BY <1>3 DEF ClosedField
  <2>2. PICK at \in [1..n -> (a + 2)..c] :
                WalksTo(at, n, a, c) /\ Trim(field) = Trim(Text(at))
    BY <2>1
  <2>3. Closes(c, pos + 1) /\ at[n] = c /\ IsWalk(at, n, a) /\ Len(at) = n
    BY <1>3, <2>2, SequenceOf DEF ClosedField, WalksTo
  <2>4. n \in 1..((pos + 1) - a - 2)
    BY <1>1
  <2>5. at \in [1..n -> (a + 2)..((pos + 1) - 1)]
    BY <1>1, <2>2
  <2>6. at \in Walks(a, pos + 1)
    BY <2>3, <2>4, <2>5 DEF Walks
  <2> QED BY <2>2, <2>6 DEF Readings
<1> QED BY <1>2, <1>3

\* A place after all the others does not count before it.
LEMMA NthAdded ==
    ASSUME NEW cut, NEW m \in Int, NEW b \in Int, b < m, \A i \in cut : ~(m <= i)
    PROVE  Nth(cut \cup {m}, b) = Nth(cut, b)
<1>1. {i \in cut \cup {m} : i <= b} = {i \in cut : i <= b}
  <2>1. ~(m <= b)
    OBVIOUS
  <2> QED BY <2>1
<1> QED BY <1>1 DEF Nth

\* The fields before this one are counted by the cuts before it.
LEMMA NthIs ==
    ASSUME NEW cut, IsFiniteSet(cut), NEW a, \A i \in cut : i <= a, NEW b
    PROVE  /\ Nth(cut, a) = Cardinality(cut) + 1
           /\ a \in cut /\ b < a /\ a \in Int /\ b \in Int =>
                Nth(cut, b) \in 1..Cardinality(cut)
<1>1. {i \in cut : i <= a} = cut
  OBVIOUS
<1>2. ASSUME a \in cut, b < a, a \in Int, b \in Int
      PROVE  Nth(cut, b) \in 1..Cardinality(cut)
  <2> DEFINE below == {i \in cut : i <= b}
  <2>1. below \subseteq cut /\ a \notin below /\ below \cup {a} \subseteq cut
    BY <1>2
  <2>2. IsFiniteSet(below) /\ IsFiniteSet(below \cup {a})
    BY <2>1, FS_Subset
  <2>3. Cardinality(below \cup {a}) = Cardinality(below) + 1 /\ Cardinality(below) \in Nat
    BY <2>1, <2>2, OneAdded
  <2>4. Cardinality(below \cup {a}) <= Cardinality(cut) /\ Cardinality(cut) \in Nat
    BY <2>1, FS_Subset, FS_CardinalityType
  <2> QED BY <2>3, <2>4 DEF Nth
<1> QED BY <1>1, <1>2 DEF Nth

LEMMA DelimiterStep ==
    ASSUME LineTypes, NEW cut, NEW a, RightSoFar(cut, a), ReadDelimiter
    PROVE  SomeCutIsRight' /\ verdict' = "reading"
<1>1. /\ verdict' = "reading" /\ UNCHANGED lineRest /\ pos < Len(line) /\ ~quoted
      /\ line[pos + 1] = delimiter /\ out' = Append(out, Trim(field))
      /\ field' = <<>> /\ ~closed' /\ pos' = pos + 1 /\ ~quoted'
  BY DEF ReadDelimiter, Splitting, Char
<1>2. /\ Len(line) \in Nat /\ pos \in 0..Len(line) /\ pos \in Nat /\ Len(out) \in Nat
      /\ Trim(field) \in Seq(Chars)
  BY LenProperties, TrimType DEF LineTypes
<1>3. CutSoFar(cut, a) /\ OnlyCut(cut) /\ a \in 0..pos
  BY <1>2 DEF RightSoFar, CutSoFar, FieldStarts
<1>4. PlainField(a) \/ \E c \in 1..pos : ClosedField(a, c) /\ ClosedInAll(a, c)
  BY <1>1 DEF RightSoFar, FieldSoFar
<1>5. PICK q : q = pos + 1
  OBVIOUS
<1> DEFINE cuts == cut \cup {q}
<1>6. q \in 1..Len(line) /\ q \in Nat /\ a < q /\ \A i \in cut : i \in Nat /\ i < q
  BY <1>1, <1>2, <1>3, <1>5 DEF CutSoFar
<1>7. IsFiniteSet(cut)
  <2>1. IsFiniteSet(1..pos) /\ cut \subseteq 1..pos
    BY <1>2, <1>3, FS_Interval DEF CutSoFar
  <2> QED BY <2>1, FS_Subset
<1>8. Cardinality(cuts) = Cardinality(cut) + 1 /\ Len(out) = Cardinality(cut)
  <2>1. q \notin cut
    BY <1>6
  <2> QED BY <1>3, <1>7, <2>1, OneAdded DEF CutSoFar
<1>9. /\ Len(out') = Len(out) + 1 /\ out'[Len(out) + 1] = Trim(field)
      /\ \A i \in 1..Len(out) : out'[i] = out[i]
  BY <1>1, <1>2 DEF LineTypes
<1>10. /\ Nth(cuts, a) = Len(out) + 1
       /\ \A b \in Int : b < a /\ a \in cut => Nth(cuts, b) = Nth(cut, b)
                                              /\ Nth(cut, b) \in 1..Len(out)
  <2>1. (\A i \in cut : i <= a) /\ \A i \in cut : ~(q <= i)
    BY <1>3, <1>6 DEF CutSoFar
  <2>2. Nth(cut, a) = Cardinality(cut) + 1 /\ Nth(cuts, a) = Nth(cut, a)
    <3>1. a < q /\ q \in Int /\ a \in Int
      BY <1>3, <1>6
    <3>2. Nth(cut \cup {q}, a) = Nth(cut, a)
      BY ONLY <2>1, <3>1, NthAdded
    <3> QED BY <1>7, <2>1, <3>2, NthIs
  <2>3. ASSUME NEW b \in Int, b < a, a \in cut
        PROVE  Nth(cuts, b) = Nth(cut, b) /\ Nth(cut, b) \in 1..Cardinality(cut)
    <3>1. b < q /\ q \in Int /\ a \in Int
      BY <1>3, <1>6, <2>3
    <3>2. Nth(cut, b) \in 1..Cardinality(cut)
      BY <1>7, <2>1, <2>3, <3>1, NthIs, Zenon
    <3>3. Nth(cut \cup {q}, b) = Nth(cut, b)
      <4>1. b \in Int
        BY <2>3
      <4>2. q \in Int /\ b < q /\ \A i \in cut : ~(q <= i)
        BY <2>1, <3>1
      <4> QED BY ONLY <4>1, <4>2, NthAdded
    <3> QED BY <3>2, <3>3
  <2> QED BY <1>8, <2>2, <2>3
<1>11. cut \subseteq 1..Len(line) /\ cuts \subseteq 1..Len(line) /\ a \in 0..Len(line)
  BY <1>2, <1>3, <1>6 DEF CutSoFar
<1>12. FieldEnd(cuts, a) = q
  <2>1. \A i \in cuts : i > a => q <= i
    BY <1>3, <1>6 DEF CutSoFar
  <2> QED BY <1>6, <1>11, <2>1, FieldEndAt DEF LineTypes
<1>13. ASSUME NEW b \in FieldStarts(cut), b < a
       PROVE  /\ a \in cut /\ b \in Int
              /\ FieldEnd(cuts, b) = FieldEnd(cut, b)
  <2>1. a \in cut /\ b \in 0..Len(line) /\ b \in Int
    BY <1>2, <1>3, <1>11, <1>13 DEF CutSoFar, FieldStarts
  <2>2. /\ FieldEnd(cut, b) \in cut \cup {Len(line) + 1} /\ b < FieldEnd(cut, b)
        /\ \A i \in cut : i > b => FieldEnd(cut, b) <= i
    BY <1>11, <2>1, FieldEndIs DEF LineTypes
  <2>3. FieldEnd(cut, b) <= a
    BY <1>13, <2>1, <2>2
  <2>4. FieldEnd(cut, b) \in cut /\ FieldEnd(cut, b) <= q
    BY <1>2, <1>3, <1>6, <2>2, <2>3
  <2>5. \A i \in cuts : i > b => FieldEnd(cut, b) <= i
    BY <2>2, <2>4
  <2> QED BY <1>11, <2>1, <2>2, <2>4, <2>5, FieldEndAt DEF LineTypes
<1>14. ASSUME NEW b \in FieldStarts(cuts), b < q
       PROVE  out'[Nth(cuts, b)] \in Readings(b, FieldEnd(cuts, b))
  <2>1. b \in FieldStarts(cut) /\ b \in Int /\ b <= a
    BY <1>2, <1>3, <1>6, <1>14 DEF FieldStarts, CutSoFar
  <2>2. CASE b = a
    <3>1. Trim(field) \in Readings(a, q)
      BY <1>1, <1>3, <1>4, <1>5, FieldReads
    <3> QED BY <1>9, <1>10, <1>12, <2>2, <3>1
  <2>3. CASE b < a
    <3>1. out[Nth(cut, b)] \in Readings(b, FieldEnd(cut, b))
      BY <1>3, <2>1, <2>3 DEF CutSoFar, Finished
    <3>2. a \in cut /\ FieldEnd(cuts, b) = FieldEnd(cut, b)
      BY <1>13, <2>1, <2>3
    <3>3. out'[Nth(cuts, b)] = out[Nth(cut, b)]
      BY <1>9, <1>10, <2>1, <2>3, <3>2
    <3> QED BY <3>1, <3>2, <3>3
  <2> QED BY <1>3, <2>1, <2>2, <2>3
<1>15. ASSUME NEW other \in Legal
       PROVE  other \cap 1..q = cuts
  <2> DEFINE e == FieldEnd(other, a)
  <2>1. e = q
    <3>1. CASE PlainField(a)
      <4>1. /\ e \in (pos + 1)..(Len(line) + 1)
            /\ IsPlain(a, e) \/ (pos = a /\ line[a + 1] = Quote /\ a + 1 < e)
        BY <1>3, <3>1, PlainLegal
      <4>2. IsPlain(a, e)
        BY <1>1, <4>1, DelimiterIs
      <4> HIDE DEF e
      <4>3. ~(q <= e - 1)
        BY <1>1, <1>2, <1>3, <1>5, <1>6, <4>1, <4>2 DEF IsPlain
      <4> QED BY <1>2, <1>5, <4>1, <4>3
    <3>2. ASSUME NEW c \in 1..pos, ClosedField(a, c), ClosedInAll(a, c)
          PROVE  e = q
      <4>1. e \in (pos + 1)..(Len(line) + 1) /\ \A i \in (pos + 1)..(e - 1) : line[i] = Blank
        BY <1>3, <3>2, ClosedLegal
      <4> HIDE DEF e
      <4>2. ~(q <= e - 1)
        BY <1>1, <1>2, <1>5, <4>1, DelimiterIs
      <4> QED BY <1>2, <1>5, <4>1, <4>2
    <3> QED BY <1>4, <3>1, <3>2
  <2>2. q \in other
    BY <1>2, <1>3, <1>6, <2>1, EndsAtCut
  <2>3. other \cap 1..pos = cut
    BY <1>3 DEF OnlyCut
  <2>4. \A i : i \in 1..q <=> i \in 1..pos \/ i = q
    BY <1>2, <1>5
  <2> QED BY <2>2, <2>3, <2>4
<1>16. PlainField(q)'
  <2>1. SubSeq(line, q + 1, pos + 1) = <<>>
    BY <1>2, <1>5, SubSeqEmpty
  <2>2. field' = SubSeq(line', q + 1, pos') /\ ~closed'
    BY <1>1, <2>1 DEF lineRest
  <2>3. (q + 1)..((q + 1) - 1) = {}
    BY <1>6
  <2> QED BY <1>1, <1>5, <2>2, <2>3 DEF PlainField, IsPlain
<1>17. CutSoFar(cuts, q)'
  <2>1. \A i \in cuts : i \in 1..pos' /\ line[i] = delimiter /\ i <= q
    BY <1>1, <1>3, <1>5, <1>6 DEF CutSoFar
  <2>2. Finished(cuts, q)'
    BY <1>1, <1>14, SameLine DEF Finished, FieldStarts, Nth
  <2>3. Len(out') = Cardinality(cuts)
    BY <1>8, <1>9
  <2> QED BY <1>1, <2>1, <2>2, <2>3 DEF CutSoFar, FieldStarts, lineRest
<1>18. OnlyCut(cuts)'
  BY <1>1, <1>5, <1>15, SameLine DEF OnlyCut
<1>19. RightSoFar(cuts, q)'
  BY <1>1, <1>16, <1>17, <1>18 DEF RightSoFar, FieldSoFar
<1>20. q \in 0..pos' /\ cuts \in SUBSET (1..pos')
  BY <1>1, <1>5, <1>6, <1>17 DEF CutSoFar
<1> QED BY <1>1, <1>19, <1>20 DEF SomeCutIsRight

LEMMA OpenStep ==
    ASSUME LineTypes, NEW cut, NEW a, RightSoFar(cut, a), OpenQuote
    PROVE  (verdict' = "reading" /\ SomeCutIsRight')
             \/ (verdict' # "reading" /\ LineIsReadAsWritten')
<1>1. pos < Len(line) /\ ~quoted /\ line[pos + 1] = Quote /\ verdict = "reading"
  BY DEF OpenQuote, Splitting, Char
<1>2. Len(line) \in Nat /\ pos \in 0..Len(line) /\ pos \in Nat /\ Len(field) \in Nat
  BY LenProperties DEF LineTypes
<1>3. CutSoFar(cut, a) /\ OnlyCut(cut) /\ a \in 0..pos
  BY <1>2 DEF RightSoFar, CutSoFar, FieldStarts
<1>4. PlainField(a) \/ \E c \in 1..pos : ClosedField(a, c) /\ ClosedInAll(a, c)
  BY <1>1 DEF RightSoFar, FieldSoFar
<1>5. line[pos + 1] # delimiter /\ line[pos + 1] # Blank
  BY <1>1, DelimiterIs
<1>6. CASE closed \/ field # <<>>
  <2>1. ASSUME NEW other \in Legal
        PROVE  FALSE
    <3> DEFINE e == FieldEnd(other, a)
    <3>1. ASSUME NEW c \in 1..pos, ClosedField(a, c), ClosedInAll(a, c)
          PROVE  FALSE
      <4>1. e \in (pos + 1)..(Len(line) + 1) /\ \A i \in (pos + 1)..(e - 1) : line[i] = Blank
        BY <1>3, <3>1, ClosedLegal
      <4>2. e > pos + 1
        BY <1>1, <1>3, <1>5, <4>1, NoCutHere
      <4> HIDE DEF e
      <4>3. pos + 1 \in (pos + 1)..(e - 1)
        BY <1>2, <4>1, <4>2
      <4> QED BY <1>5, <4>1, <4>3
    <3>2. CASE PlainField(a)
      <4>1. /\ e \in (pos + 1)..(Len(line) + 1)
            /\ IsPlain(a, e) \/ pos = a
        BY <1>3, <3>2, PlainLegal
      <4>2. e > pos + 1
        BY <1>1, <1>3, <1>5, <4>1, NoCutHere
      <4> HIDE DEF e
      <4>3. pos # a
        <5>1. field # <<>> /\ field = SubSeq(line, a + 1, pos)
          BY <1>6, <3>2 DEF PlainField
        <5> QED BY <1>2, <1>3, <5>1, SubSeqEmpty
      <4>4. pos + 1 \in (a + 1)..(e - 1)
        BY <1>2, <1>3, <4>1, <4>2
      <4> QED BY <1>1, <4>1, <4>3, <4>4 DEF IsPlain
    <3> QED BY <1>4, <3>1, <3>2
  <2>2. Refuses /\ Legal = {}
    BY <1>6, <2>1 DEF OpenQuote
  <2> QED BY <2>2, RefusedRightly
<1>7. CASE ~closed /\ field = <<>>
  <2>1. /\ verdict' = "reading" /\ UNCHANGED <<lineRest, out>> /\ line' = line
        /\ pos' = pos + 1 /\ field' = <<>> /\ quoted' /\ ~closed'
    BY <1>1, <1>7 DEF OpenQuote, Takes, lineRest
  <2>2. PlainField(a)
    BY <1>4, <1>7 DEF ClosedField
  <2>3. pos = a
    <3>1. field = SubSeq(line, a + 1, pos) /\ Len(field) = 0
      BY <1>7, <2>2, EmptySeq DEF PlainField
    <3>2. \A i \in (a + 1)..pos : line[i] \in Chars
      BY <1>2, <1>3, ElementOfSeq DEF LineTypes
    <3>3. Len(SubSeq(line, a + 1, pos)) = IF a + 1 <= pos THEN pos - (a + 1) + 1 ELSE 0
      BY <1>2, <1>3, <3>2, SubSeqProperties
    <3> QED BY <1>2, <1>3, <3>1, <3>3
  <2> DEFINE at == [k \in 1..1 |-> a + 2]
  <2>4. OpenField(a)'
    <3>1. at \in [1..(0 + 1) -> (a + 2)..(a + 2)] /\ at[1] = a + 2
      BY <1>2, <1>3
    <3> HIDE DEF at
    <3>2. WalksTo(at, 1, a, a + 2)
      <4>1. 1..(1 - 1) = {}
        OBVIOUS
      <4> QED BY <1>1, <1>2, <1>3, <2>3, <3>1, <4>1 DEF WalksTo, IsWalk
    <3>3. WalksTo(at, 1, a, a + 2)'
      BY <2>1, <3>2, SameLine DEF at
    <3>4. Len(field') = 0 /\ pos' + 1 = a + 2 /\ 1..0 = {}
      BY <1>2, <2>1, <2>3
    <3> QED BY <2>1, <3>1, <3>3, <3>4 DEF OpenField
  <2>5. ASSUME NEW other \in Legal, NEW w \in Walks(a, FieldEnd(other, a))
        PROVE  Len(w) > 0 /\ w[1] = a + 2
    <3> DEFINE e == FieldEnd(other, a)
    <3>1. e \in (pos + 1)..(Len(line) + 1)
      BY <1>3, <2>2, PlainLegal
    <3> HIDE DEF e
    <3>2. e \in Nat /\ a \in Nat
      BY <1>2, <1>3, <3>1
    <3>3. Len(w) \in 1..(e - a - 2) /\ IsWalk(w, Len(w), a)
      BY <3>2, WalkIs DEF e
    <3> QED BY <3>2, <3>3 DEF IsWalk
  <2>6. OpenInAll(a)'
    <3>1. Len(field') = 0 /\ pos' + 1 = a + 2
      BY <1>2, <2>1, <2>3
    <3> QED BY <2>1, <2>5, <3>1, SameLine DEF OpenInAll
  <2>7. ASSUME NEW other \in Legal, NEW i \in (pos + 1)..pos'
        PROVE  i \notin other
    <3>1. i = pos + 1
      BY <1>2, <2>1
    <3> QED BY <1>5, <3>1, LegalCut
  <2>8. FieldSoFar(a)' /\ pos' \in pos..Len(line)
    BY <1>1, <1>2, <2>1, <2>4, <2>6 DEF FieldSoFar
  <2> QED BY <1>3, <2>1, <2>7, <2>8, ReadsOn
<1> QED BY <1>6, <1>7

LEMMA TextStep ==
    ASSUME LineTypes, NEW cut, NEW a, RightSoFar(cut, a), ReadText
    PROVE  (verdict' = "reading" /\ SomeCutIsRight')
             \/ (verdict' # "reading" /\ LineIsReadAsWritten')
<1>1. /\ pos < Len(line) /\ ~quoted /\ verdict = "reading"
      /\ line[pos + 1] # delimiter /\ line[pos + 1] # Quote
  BY DEF ReadText, Splitting, Char
<1>2. Len(line) \in Nat /\ pos \in 0..Len(line) /\ pos \in Nat /\ Len(field) \in Nat
  BY LenProperties DEF LineTypes
<1>3. CutSoFar(cut, a) /\ OnlyCut(cut) /\ a \in 0..pos
  BY <1>2 DEF RightSoFar, CutSoFar, FieldStarts
<1>4. PlainField(a) \/ \E c \in 1..pos : ClosedField(a, c) /\ ClosedInAll(a, c)
  BY <1>1 DEF RightSoFar, FieldSoFar
<1>5. CASE closed /\ Char # Blank
  <2>1. ASSUME NEW other \in Legal
        PROVE  FALSE
    <3> DEFINE e == FieldEnd(other, a)
    <3>1. PICK c \in 1..pos : ClosedField(a, c) /\ ClosedInAll(a, c)
      BY <1>4, <1>5 DEF PlainField
    <3>2. e \in (pos + 1)..(Len(line) + 1) /\ \A i \in (pos + 1)..(e - 1) : line[i] = Blank
      BY <1>3, <3>1, ClosedLegal
    <3>3. e > pos + 1
      BY <1>1, <1>3, <3>2, NoCutHere
    <3> HIDE DEF e
    <3>4. pos + 1 \in (pos + 1)..(e - 1)
      BY <1>2, <3>2, <3>3
    <3> QED BY <1>5, <3>2, <3>4 DEF Char
  <2>2. Refuses /\ Legal = {}
    BY <1>5, <2>1 DEF ReadText
  <2> QED BY <2>2, RefusedRightly
<1>6. CASE ~(closed /\ Char # Blank)
  <2>1. /\ verdict' = "reading" /\ UNCHANGED <<lineRest, out>> /\ line' = line
        /\ delimiter' = delimiter /\ pos' = pos + 1 /\ field' = Append(field, line[pos + 1])
        /\ ~quoted' /\ closed' = closed
    BY <1>1, <1>6 DEF ReadText, Takes, lineRest, Char
  <2>2. ASSUME PlainField(a)
        PROVE  FieldSoFar(a)'
    <3>1. field = SubSeq(line, a + 1, pos) /\ ~closed /\ IsPlain(a, pos + 1)
      BY <2>2 DEF PlainField
    <3>2. SubSeq(line, a + 1, pos + 1) = Append(field, line[pos + 1])
      <4>1. \A i \in 1..Len(line) : line[i] \in Chars
        BY ElementOfSeq DEF LineTypes
      <4>2. /\ \A i \in (a + 1)..pos : line[i] \in Chars
            /\ \A i \in (a + 1)..(pos + 1) : line[i] \in Chars
        BY <1>1, <1>2, <1>3, <4>1
      <4>3. /\ Len(field) = pos - a
            /\ \A i \in 1..(pos - a) : field[i] = line[a + i]
        <5>1. /\ Len(field) = IF a + 1 <= pos THEN pos - (a + 1) + 1 ELSE 0
              /\ \A i \in 1..(pos - (a + 1) + 1) : field[i] = line[(a + 1) + i - 1]
          BY <1>2, <1>3, <3>1, <4>2, SubSeqProperties
        <5> QED BY <1>2, <1>3, <5>1
      <4>4. /\ SubSeq(line, a + 1, pos + 1) \in Seq(Chars)
            /\ Len(SubSeq(line, a + 1, pos + 1)) = pos + 1 - a
            /\ \A i \in 1..(pos + 1 - a) : SubSeq(line, a + 1, pos + 1)[i] = line[a + i]
        <5>1. /\ SubSeq(line, a + 1, pos + 1) \in Seq(Chars)
              /\ Len(SubSeq(line, a + 1, pos + 1)) =
                    IF a + 1 <= pos + 1 THEN (pos + 1) - (a + 1) + 1 ELSE 0
              /\ \A i \in 1..((pos + 1) - (a + 1) + 1) :
                    SubSeq(line, a + 1, pos + 1)[i] = line[(a + 1) + i - 1]
          BY <1>2, <1>3, <4>2, SubSeqProperties
        <5> QED BY <1>2, <1>3, <5>1
      <4>5. /\ field' \in Seq(Chars) /\ Len(field') = Len(field) + 1
            /\ field'[Len(field) + 1] = line[pos + 1]
            /\ \A i \in 1..Len(field) : field'[i] = field[i]
        BY <1>1, <1>2, <2>1, <4>1 DEF LineTypes
      <4>6. \A i \in 1..(pos + 1 - a) : field'[i] = line[a + i]
        <5>1. \A i \in 1..(pos + 1 - a) : i \in 1..(pos - a) \/ i = pos + 1 - a
          BY <1>2, <1>3
        <5>2. field'[pos + 1 - a] = line[a + (pos + 1 - a)]
          BY <1>2, <1>3, <4>3, <4>5
        <5> QED BY <4>3, <4>5, <5>1, <5>2
      <4>7. SubSeq(line, a + 1, pos + 1) = field'
        <5>1. Len(field') = pos + 1 - a
          BY <1>2, <1>3, <4>3, <4>5
        <5> QED BY <4>4, <4>5, <4>6, <5>1, SeqEqual
      <4> QED BY <2>1, <4>7
    <3>3. IsPlain(a, pos + 2)
      <4>1. \A i \in (a + 1)..((pos + 2) - 1) : i \in (a + 1)..((pos + 1) - 1) \/ i = pos + 1
        BY <1>2, <1>3
      <4> QED BY <1>1, <3>1, <4>1 DEF IsPlain
    <3>4. PlainField(a)'
      <4>1. pos' + 1 = pos + 2
        BY <1>2, <2>1
      <4> QED BY <2>1, <3>1, <3>2, <3>3, <4>1 DEF PlainField, IsPlain
    <3> QED BY <2>1, <3>4 DEF FieldSoFar
  <2>3. ASSUME NEW c \in 1..pos, ClosedField(a, c), ClosedInAll(a, c)
        PROVE  FieldSoFar(a)'
    <3>1. closed /\ c \in (a + 2)..pos /\ Closes(c, pos + 1) /\ line[pos + 1] = Blank
      BY <1>6, <2>3 DEF ClosedField, Char
    <3>8. PICK n \in 1..(c - a - 1) : \E at \in [1..n -> (a + 2)..c] :
              WalksTo(at, n, a, c) /\ Trim(field) = Trim(Text(at))
      BY <2>3 DEF ClosedField
    <3>2. PICK at \in [1..n -> (a + 2)..c] :
              WalksTo(at, n, a, c) /\ Trim(field) = Trim(Text(at))
      BY <3>8
    <3>3. Trim(field') = Trim(Text(at))
      <4>1. Trim(field') = Trim(field)
        BY <2>1, <3>1, TrimBlank DEF LineTypes
      <4> QED BY <3>2, <4>1
    <3>4. Closes(c, pos + 2)
      <4>1. \A i \in (c + 1)..((pos + 2) - 1) : i \in (c + 1)..((pos + 1) - 1) \/ i = pos + 1
        BY <1>2, <1>3, <3>1
      <4> QED BY <3>1, <4>1 DEF Closes
    <3>5. ClosedField(a, c)'
      <4>1. WalksTo(at, n, a, c)' /\ Text(at)' = Text(at)
        BY <2>1, <3>2, SameLine DEF Text
      <4>2. Closes(c, pos + 1)'
        <5>1. pos' + 1 = pos + 2
          BY <1>2, <2>1
        <5> QED BY <2>1, <3>4, <5>1 DEF Closes
      <4>3. c \in (a + 2)..pos' /\ closed'
        BY <1>2, <2>1, <3>1
      <4>4. Trim(field') = Trim(Text(at)')
        BY <3>3, <4>1
      <4> QED BY <3>2, <4>1, <4>2, <4>3, <4>4 DEF ClosedField
    <3>6. ClosedInAll(a, c)'
      BY <2>1, <2>3, SameLine DEF ClosedInAll
    <3>7. c \in 1..pos'
      BY <1>2, <2>1
    <3> QED BY <2>1, <3>5, <3>6, <3>7 DEF FieldSoFar
  <2>4. FieldSoFar(a)'
    BY <1>4, <2>2, <2>3
  <2>5. ASSUME NEW other \in Legal, NEW i \in (pos + 1)..pos'
        PROVE  i \notin other
    <3>1. i = pos + 1
      BY <1>2, <2>1
    <3> QED BY <1>1, <3>1, LegalCut
  <2>6. pos' \in pos..Len(line)
    BY <1>1, <1>2, <2>1
  <2> QED BY <1>3, <2>1, <2>4, <2>5, <2>6, ReadsOn
<1> QED BY <1>5, <1>6

LEMMA EndStep ==
    ASSUME LineTypes, NEW cut, NEW a, RightSoFar(cut, a), EndLine
    PROVE  verdict' # "reading" /\ LineIsReadAsWritten'
<1>1. pos = Len(line) /\ verdict = "reading"
  BY DEF EndLine
<1>2. Len(line) \in Nat /\ pos \in Nat /\ Len(out) \in Nat
  BY <1>1, LenProperties DEF LineTypes
<1>3. CutSoFar(cut, a) /\ OnlyCut(cut) /\ a \in 0..pos
  BY <1>2 DEF RightSoFar, CutSoFar, FieldStarts
<1>4. CASE quoted
  <2>1. ASSUME NEW other \in Legal
        PROVE  FALSE
    <3>1. FieldEnd(other, a) \in (pos + 2)..(Len(line) + 1)
      BY <1>4, OpenLegal
    <3> QED BY <1>1, <1>2, <3>1
  <2>2. Refuses /\ Legal = {}
    BY <1>4, <2>1 DEF EndLine
  <2> QED BY <2>2, RefusedRightly
<1>5. CASE ~quoted
  <2>1. /\ out' = Append(out, Trim(field)) /\ verdict' = "split" /\ UNCHANGED lineRest
    BY <1>5 DEF EndLine
  <2>2. PlainField(a) \/ \E c \in 1..pos : ClosedField(a, c)
    BY <1>5 DEF RightSoFar, FieldSoFar
  <2>3. Trim(field) \in Readings(a, pos + 1)
    BY <1>3, <1>5, <2>2, FieldReads
  <2>4. /\ Len(out') = Len(out) + 1 /\ out'[Len(out) + 1] = Trim(field)
        /\ \A i \in 1..Len(out) : out'[i] = out[i]
    BY <1>2, <2>1, TrimType DEF LineTypes
  <2>5. cut \subseteq 1..Len(line) /\ a \in 0..Len(line) /\ Len(out) = Cardinality(cut)
          /\ \A i \in cut : i \in Nat /\ i <= a /\ line[i] = delimiter
    BY <1>1, <1>2, <1>3 DEF CutSoFar
  <2>6. IsFiniteSet(cut)
    <3>1. IsFiniteSet(1..Len(line))
      BY <1>2, FS_Interval
    <3> QED BY <2>5, <3>1, FS_Subset
  <2>7. FieldEnd(cut, a) = pos + 1
    <3>1. a < Len(line) + 1 /\ \A i \in cut : i > a => Len(line) + 1 <= i
      BY <1>2, <2>5
    <3> QED BY <1>1, <2>5, <3>1, FieldEndAt DEF LineTypes
  <2>8. ASSUME NEW b \in FieldStarts(cut)
        PROVE  out'[Nth(cut, b)] \in Readings(b, FieldEnd(cut, b))
    <3>1. b \in Int /\ a \in Int /\ b <= a
      BY <1>3, <2>5 DEF FieldStarts
    <3>3. CASE b = a
      <4>1. Nth(cut, a) = Cardinality(cut) + 1
        BY <2>5, <2>6, NthIs
      <4> QED BY <2>3, <2>4, <2>5, <2>7, <3>3, <4>1
    <3>4. CASE b < a
      <4>1. a \in cut
        BY <1>3, <3>4 DEF CutSoFar, FieldStarts
      <4>2. Nth(cut, b) \in 1..Cardinality(cut)
        BY <2>5, <2>6, <3>1, <3>4, <4>1, NthIs
      <4>3. out[Nth(cut, b)] \in Readings(b, FieldEnd(cut, b))
        BY <1>3, <3>4 DEF CutSoFar, Finished
      <4> QED BY <2>4, <2>5, <4>2, <4>3
    <3> QED BY <3>1, <3>3, <3>4
  <2>9. cut \in Legal
    <3>1. DOMAIN line = 1..Len(line)
      BY LenProperties DEF LineTypes
    <3>2. cut \in Cuts
      BY <2>5, <3>1 DEF Cuts
    <3> QED BY <2>8, <3>2 DEF Legal
  <2>10. ASSUME NEW other \in Legal
         PROVE  other = cut
    <3>1. other \cap 1..pos = cut /\ other \subseteq 1..pos
      BY <1>1, <1>3, LegalCut DEF OnlyCut
    <3> QED BY <3>1
  <2>11. Len(out') = Cardinality(cut) + 1
    BY <2>4, <2>5
  <2>12. /\ cut \in Legal' /\ \A x, y \in Legal' : x = y
         /\ \A b \in FieldStarts(cut) : out'[Nth(cut, b)] \in Readings(b, FieldEnd(cut, b))'
    BY <2>1, <2>8, <2>9, <2>10, SameLine
  <2>13. \A b \in FieldStarts(cut)' : out'[Nth(cut, b)'] \in Readings(b, FieldEnd(cut, b))'
    BY <2>12 DEF FieldStarts, Nth
  <2> QED BY <2>1, <2>11, <2>12, <2>13 DEF LineIsReadAsWritten
<1> QED BY <1>4, <1>5

LEMMA LineStarts == CsvInit => LineInv
<1> SUFFICES ASSUME CsvInit PROVE LineInv
  OBVIOUS
<1>1. line \in Seq(Chars) /\ delimiter \in Delimiters /\ <<>> \in Seq(Chars)
        /\ <<>> \in Seq(Seq(Chars))
  <2>1. <<>> \in Seq(Chars) /\ <<>> \in Seq(Seq(Chars))
    BY EmptySeq
  <2> QED BY <2>1, StockCsvConstants DEF CsvInit
<1>2. LineTypes
  <2>1. Len(line) \in Nat
    BY <1>1, LenProperties
  <2>2. pos \in 0..Len(line) /\ field \in Seq(Chars) /\ out \in Seq(Seq(Chars))
    BY <1>1, <2>1 DEF CsvInit
  <2>3. /\ quoted \in BOOLEAN /\ closed \in BOOLEAN
        /\ verdict \in {"reading", "split", "refused"}
    BY DEF CsvInit
  <2> QED BY <1>1, <2>2, <2>3 DEF LineTypes
<1>3. pos = 0 /\ field = <<>> /\ quoted = FALSE /\ closed = FALSE /\ out = <<>>
        /\ verdict = "reading" /\ Len(line) \in Nat
  BY <1>1, LenProperties DEF CsvInit
<1>4. CutSoFar({}, 0)
  <2>1. Len(<<>>) = 0 /\ Cardinality({}) = 0
    BY EmptySeq, FS_EmptySet
  <2> QED BY <1>3, <2>1 DEF CutSoFar, Finished, FieldStarts
<1>5. OnlyCut({})
  BY <1>3 DEF OnlyCut
<1>6. PlainField(0)
  <2>1. SubSeq(line, 0 + 1, 0) = <<>>
    BY SubSeqEmpty
  <2> QED BY <1>3, <2>1 DEF PlainField, IsPlain
<1>7. RightSoFar({}, 0)
  BY <1>3, <1>4, <1>5, <1>6 DEF RightSoFar, FieldSoFar
<1>8. SomeCutIsRight
  BY <1>3, <1>7 DEF SomeCutIsRight
<1> QED BY <1>2, <1>3, <1>8 DEF LineInv, LineIsReadAsWritten

LEMMA LineStep == LineInv /\ [CsvNext]_csvVars => LineInv'
<1> SUFFICES ASSUME LineInv, [CsvNext]_csvVars PROVE LineInv'
  OBVIOUS
<1>1. CASE ReadQuoted \/ ReadDelimiter \/ OpenQuote \/ ReadText \/ EndLine
  <2>1. LineTypes /\ verdict = "reading" /\ LineTypes'
    BY <1>1, LineTypesStep
       DEF LineInv, ReadQuoted, ReadDelimiter, OpenQuote, ReadText, EndLine, Splitting
  <2>2. PICK cut, a : RightSoFar(cut, a)
    BY <2>1 DEF LineInv, SomeCutIsRight
  <2>3. (verdict' = "reading" /\ SomeCutIsRight')
          \/ (verdict' # "reading" /\ LineIsReadAsWritten')
    BY <1>1, <2>1, <2>2, QuotedStep, DelimiterStep, OpenStep, TextStep, EndStep
  <2> QED BY <2>1, <2>3 DEF LineInv, LineIsReadAsWritten
<1>2. CASE UNCHANGED lineVars
  <2>1. /\ UNCHANGED <<lineRest, pos, field, quoted, closed, out, verdict>>
    BY <1>2 DEF lineVars, lineRest
  <2>2. LineTypes'
    BY <2>1 DEF LineInv, LineTypes, lineRest
  <2>3. ASSUME SomeCutIsRight
        PROVE  SomeCutIsRight'
    <3>1. PICK cut \in SUBSET (1..pos), a \in 0..pos : RightSoFar(cut, a)
      BY <2>3 DEF SomeCutIsRight
    <3>2. FieldSoFar(a)'
      <4>1. OpenField(a) => OpenField(a)'
        BY <2>1, SameLine DEF OpenField, lineRest
      <4>2. OpenInAll(a) => OpenInAll(a)'
        BY <2>1, SameLine DEF OpenInAll
      <4>3. PlainField(a) => PlainField(a)'
        BY <2>1 DEF PlainField, IsPlain, lineRest
      <4>4. \A c : ClosedField(a, c) => ClosedField(a, c)'
        <5>1. \A at : Text(at)' = Text(at)
          BY <2>1 DEF Text, lineRest
        <5>2. \A c : Closes(c, pos + 1)' = Closes(c, pos + 1)
          BY <2>1 DEF Closes, lineRest
        <5> QED BY <2>1, <5>1, <5>2, SameLine DEF ClosedField
      <4>5. \A c : ClosedInAll(a, c) => ClosedInAll(a, c)'
        BY <2>1, SameLine DEF ClosedInAll
      <4> QED BY <2>1, <3>1, <4>1, <4>2, <4>3, <4>4, <4>5 DEF RightSoFar, FieldSoFar
    <3>3. CutSoFar(cut, a)'
      BY <2>1, <3>1, SameLine
         DEF RightSoFar, CutSoFar, Finished, FieldStarts, Nth, lineRest
    <3>4. OnlyCut(cut)'
      BY <2>1, <3>1, SameLine DEF RightSoFar, OnlyCut
    <3> QED BY <2>1, <3>1, <3>2, <3>3, <3>4 DEF RightSoFar, SomeCutIsRight
  <2>4. LineIsReadAsWritten'
    <3>1. LineIsReadAsWritten
      BY DEF LineInv
    <3> QED BY <2>1, <3>1, SameLine DEF LineIsReadAsWritten, FieldStarts, Nth
  <2> QED BY <2>1, <2>2, <2>3, <2>4 DEF LineInv
<1>3. CASE ReadBlank \/ StopAtLimit \/ ReadBroken \/ ReadRow \/ PlanRows
  <2>1. UNCHANGED lineVars
    BY <1>3 DEF ReadBlank, StopAtLimit, ReadBroken, ReadRow, PlanRows, ReadsTo
  <2> QED BY <1>2, <2>1
<1>4. CASE UNCHANGED csvVars
  <2>1. UNCHANGED lineVars
    BY <1>4 DEF csvVars, lineVars
  <2> QED BY <1>2, <2>1
<1> QED BY <1>1, <1>3, <1>4 DEF CsvNext

\* Every line of a stock file is split into the fields it was written from, and there
\* is only one way to read it; or it is refused, and then it cannot be read at all:
\* no quantity comes out of broken quotes (inventory/domain/csv.ts splitLine).
THEOREM LinesAreReadAsWritten == CsvSpec => []LineIsReadAsWritten
<1>1. LineInv => LineIsReadAsWritten
  BY DEF LineInv
<1> QED BY <1>1, LineStarts, LineStep, PTL DEF CsvSpec

-----------------------------------------------------------------------------
(* A stock file as a whole *)

\* The lines of a stock file are read as they were written, and each of them is
\* answered for (inventory/domain/csv.ts splitLine, parseStockCsv; planStockImport).
THEOREM StockFilesAreReadAsWritten == CsvSpec => []CsvReadAsWritten
BY LinesAreReadAsWritten, FilesAreAccountedFor, PTL DEF CsvReadAsWritten
=============================================================================
