------------------------------- MODULE Authz -------------------------------
(***************************************************************************)
(* Deny-by-default authorization (platform/authz/index.ts): which role may *)
(* do what, and in which shop.  A grant is global or bound to the shop a   *)
(* resource names; everything not granted is denied.                       *)
(***************************************************************************)

CONSTANTS
    Stores,
    NoStore   \* a null storeId

ASSUME AuthzConstants == NoStore \notin Stores

Roles == {"SUPER_ADMIN", "STORE_MANAGER", "STORE_STAFF"}

\* Principals are records: a member of staff has a kind "user", a role and a
\* store; a shopper has the kind "customer" and the shop of the delivery area.
User(role, store) == [kind |-> "user", role |-> role, store |-> store]
Shopper(store) == [kind |-> "customer", role |-> "none", store |-> store]
System == [kind |-> "system", role |-> "none", store |-> NoStore]

-----------------------------------------------------------------------------
(* The tables *)

AdminGrants ==
    {"user:read", "user:create", "user:update", "user:disable", "user:reset-password",
     "store:read", "store:create", "store:update",
     "store-settings:read", "store-settings:update", "store-settings:update-pos-mode",
     "delivery-zone:read", "delivery-zone:write", "delivery-area:read",
     "delivery-area:write", "serviceability:resolve", "category:read", "category:write",
     "product:read", "product:write", "product-image:write", "store-product:read",
     "store-product:list", "store-product:set-price", "price-change:read",
     "inventory:read", "inventory:adjust", "inventory:reconcile", "inventory:import",
     "stock-ledger:read", "order:read", "order:transition", "order:cancel",
     "order:confirm-variance", "product-request:read", "product-request:manage",
     "audit-log:read"}

SharedReads == {"serviceability:resolve", "category:read", "product:read"}

\* A manager runs one shop: no shared catalogue, no shops, no POS mode.
ManagerGrants ==
    AdminGrants \ (SharedReads \cup
        {"store:create", "store:update", "store-settings:update-pos-mode",
         "category:write", "product:write", "product-image:write"})

StaffGrants ==
    {"store:read", "store-settings:read", "delivery-zone:read", "delivery-area:read",
     "store-product:read", "price-change:read", "inventory:read", "stock-ledger:read",
     "order:read", "order:transition", "product-request:read"}

CustomerGrants == {"store:read", "store-settings:read", "store-product:read", "inventory:read"}

SystemGrants ==
    {"store:read", "store-settings:read", "product:read", "store-product:read",
     "inventory:read", "inventory:adjust", "stock-ledger:read"}

\* grantsFor: nothing at all for a store-bound role without a store.
HasGrants(p) == p.kind = "user" /\ p.role # "SUPER_ADMIN" => p.store # NoStore

GrantedEverywhere(p) ==
    CASE p.kind = "system" -> SystemGrants
      [] p.role = "SUPER_ADMIN" -> AdminGrants
      [] OTHER -> SharedReads

GrantedInStore(p) ==
    CASE p.kind = "customer" -> CustomerGrants
      [] p.role = "STORE_MANAGER" -> ManagerGrants
      [] p.role = "STORE_STAFF" -> StaffGrants
      [] OTHER -> {}

-----------------------------------------------------------------------------
(* The decision *)

Unscoped(p) == p.kind = "system" \/ p.role = "SUPER_ADMIN"

\* canAccessStore, allowedStoreIds
CanAccessStore(p, store) == Unscoped(p) \/ (p.store # NoStore /\ p.store = store)

\* A store-bound grant needs a resource that names a store of the principal.
Authorized(p, action, store) ==
    /\ HasGrants(p)
    /\ \/ action \in GrantedEverywhere(p)
       \/ /\ action \in GrantedInStore(p)
          /\ store # NoStore
          /\ CanAccessStore(p, store)
=============================================================================
