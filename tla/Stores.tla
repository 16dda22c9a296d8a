-------------------------------- MODULE Stores --------------------------------
(***************************************************************************)
(* stores/stores.service.ts over stores, store_credentials and             *)
(* store_settings: none of its calls is a transaction, each await is a     *)
(* step here, and only the unique constraints stand between two calls.     *)
(* Callers: the admin panel (createStore, updateSettings, updateSlug), the *)
(* homologation harness (rotateCredentials), WooCommerce payments          *)
(* (getOrCreateBySellerId).                                                *)
(***************************************************************************)
EXTENDS Naturals, SequencesExt

CONSTANTS
    Calls,         \* calls of the service; a store and a key are named by theirs
    Kinds,         \* what the calls of an instance may be
    Names, Slugs,  \* names of stores, and what slugify makes of them
    Slugify(_),
    NoSlug,        \* '': the name has no alphanumeric character
    Sellers, KnownSellers, FakeSeller,  \* ids, those Zoop knows, FAKE_ZOOP_SELLER_ID
    NoSeller,      \* null
    DisplayName(_), LongName(_),  \* the names a seller's store may be given
    None

ASSUME CallsAreNames == None \notin Calls
ASSUME NamesHaveSlugs == \A n \in Names : Slugify(n) \in Slugs \cup {NoSlug}
ASSUME SellersAreSellers ==
    /\ KnownSellers \subseteq Sellers
    /\ FakeSeller \in Sellers \ KnownSellers
    /\ NoSeller \notin Sellers
    /\ \A s \in KnownSellers : {DisplayName(s), LongName(s)} \subseteq Names

VARIABLES
    stores,    \* rows of stores
    creds,     \* rows of store_credentials, per store, by created_at
    settings,  \* zoop_seller_id of the row of store_settings, per store
    call

vars == <<stores, creds, settings, call>>

Store == [name : Names, slug : Slugs]

\* No row, no column value: neither is a row or a seller.
ASSUME NoneIsNoValue == None \notin Store /\ None \notin Sellers \cup {NoSeller}

Cred == [key : Calls, revoked : BOOLEAN]
PCs == {"new", "lookup", "getSeller", "name", "slug", "seller", "insert", "creds",
        "settings", "recheck", "find", "rotate", "revoke", "read", "verify", "save",
        "done", "failed"}
Call == [kind : {"create", "provision", "rotate", "settings", "slug"}, pc : PCs,
         store : Calls \cup {None}, name : Names \cup {None},
         slug : Slugs \cup {NoSlug, None}, seller : Sellers \cup {NoSeller},
         attempt : 1 .. 2]

NewCall == [kind |-> "create", pc |-> "new", store |-> None, name |-> None,
            slug |-> None, seller |-> NoSeller, attempt |-> 1]

TypeOK ==
    /\ stores \in [Calls -> Store \cup {None}]
    /\ creds \in [Calls -> Seq(Cred)]
    /\ settings \in [Calls -> Sellers \cup {NoSeller, None}]
    /\ call \in [Calls -> Call]

Init ==
    /\ stores = [s \in Calls |-> None]
    /\ creds = [s \in Calls |-> <<>>]
    /\ settings = [s \in Calls |-> None]
    /\ call = [c \in Calls |-> NewCall]

Existing == {s \in Calls : stores[s] # None}
LinkedTo(seller) == {s \in Existing : settings[s] = seller}

\* A mutant: the migrations without their two UNIQUE constraints.
Bug_NoUnique(s, row) == TRUE

\* stores_name_key
NameIsFree(s, n) == \A t \in Existing \ {s} : stores[t].name # n

\* The UNIQUE of wake_store_header.
SlugIsFree(s, m) == \A t \in Existing \ {s} : stores[t].slug # m

CanSave(s, row) == NameIsFree(s, row.name) /\ SlugIsFree(s, row.slug)

------------------------------------------------------------------------------
At(c, pc) == call[c].pc = pc
Goto(c, pc) == call' = [call EXCEPT ![c].pc = pc]
Return(c, s) == call' = [call EXCEPT ![c].pc = "done", ![c].store = s]

Begin(c, kind, pc, store, name, slug, seller) ==
    /\ At(c, "new")
    /\ kind \in Kinds
    /\ call' = [call EXCEPT ![c] = [@ EXCEPT !.kind = kind, !.pc = pc, !.store = store,
                    !.name = name, !.slug = slug, !.seller = seller]]
    /\ UNCHANGED <<stores, creds, settings>>

\* slugify has been applied to the slug typed in, which may leave nothing of it.
Start(c) ==
    \/ \E n \in Names, m \in Slugs \cup {NoSlug}, z \in Sellers \cup {NoSeller} :
          Begin(c, "create", "name", None, n, m, z)
    \/ \E z \in Sellers : Begin(c, "provision", "lookup", None, None, None, z)
    \/ \E s \in Existing :
          \/ /\ call[s].kind = "create"
             /\ Begin(c, "rotate", "rotate", s, None, None, NoSeller)
          \/ \E z \in Sellers \cup {NoSeller} :
                Begin(c, "settings", "read", s, None, None, z)
          \/ \E m \in Slugs \cup {NoSlug} : Begin(c, "slug", "find", s, None, m, NoSeller)

\* A ConflictException ends a call, save a provisioning one, which catches it.
Conflict(c) == Goto(c, IF call[c].kind = "provision" THEN "recheck" ELSE "failed")

------------------------------------------------------------------------------
(***************************************************************************)
(* createStore, also as getOrCreateBySellerId calls it.                    *)
(***************************************************************************)

AssertNameAvailable(c) ==
    /\ At(c, "name")
    /\ IF call[c].slug = NoSlug \/ \E s \in Existing : stores[s].name = call[c].name
       THEN Conflict(c)
       ELSE Goto(c, "slug")
    /\ UNCHANGED <<stores, creds, settings>>

\* assertSlugAvailable; updateSlug excludes its own store.
AssertSlugAvailable(c) ==
    /\ At(c, "slug")
    /\ IF \E s \in Existing \ {call[c].store} : stores[s].slug = call[c].slug
       THEN Conflict(c)
       ELSE Goto(c, IF call[c].kind = "slug" THEN "save"
                    ELSE IF call[c].seller \in {NoSeller, FakeSeller} THEN "insert"
                    ELSE "seller")
    /\ UNCHANGED <<stores, creds, settings>>

AssertSellerExists(c) ==
    /\ At(c, "seller")
    /\ Goto(c, IF call[c].seller \in KnownSellers THEN "insert" ELSE "failed")
    /\ UNCHANGED <<stores, creds, settings>>

\* The unique violation is no ConflictException: it ends a provisioning call too.
InsertStore(c) ==
    LET row == [name |-> call[c].name, slug |-> call[c].slug] IN
    /\ At(c, "insert")
    /\ \/ /\ CanSave(c, row)
          /\ stores' = [stores EXCEPT ![c] = row]
          /\ call' = [call EXCEPT ![c].pc = "creds", ![c].store = c]
       \/ ~CanSave(c, row) /\ Goto(c, "failed") /\ UNCHANGED stores
    /\ UNCHANGED <<creds, settings>>

InsertCreds(c) ==
    creds' = [creds EXCEPT ![call[c].store] = Append(@, [key |-> c, revoked |-> FALSE])]

SaveCreds(c) ==
    /\ At(c, "creds")
    /\ InsertCreds(c)
    /\ Goto(c, "settings")
    /\ UNCHANGED <<stores, settings>>

InsertSettings(c) ==
    /\ At(c, "settings")
    /\ settings' = [settings EXCEPT ![c] = call[c].seller]
    /\ Return(c, c)
    /\ UNCHANGED <<stores, creds>>

------------------------------------------------------------------------------
(***************************************************************************)
(* getOrCreateBySellerId.                                                  *)
(***************************************************************************)

LookUp(c) ==
    /\ At(c, "lookup")
    /\ \/ \E s \in LinkedTo(call[c].seller) : Return(c, s)
       \/ LinkedTo(call[c].seller) = {} /\ Goto(c, "getSeller")
    /\ UNCHANGED <<stores, creds, settings>>

TryName(c, n, attempt) ==
    call' = [call EXCEPT ![c].pc = "name", ![c].name = n, ![c].slug = Slugify(n),
                         ![c].attempt = attempt]

GetSeller(c) ==
    /\ At(c, "getSeller")
    /\ IF call[c].seller \in KnownSellers
       THEN TryName(c, DisplayName(call[c].seller), 1)
       ELSE Goto(c, "failed")
    /\ UNCHANGED <<stores, creds, settings>>

\* A mutant: the store that has the name is taken for the seller's.
Bug_SameName(c) == {s \in Existing : stores[s].name = call[c].name}

\* raceSettings
Raced(c) == LinkedTo(call[c].seller)

\* A mutant: attempt <= 2.
Bug_OneMore(c) == call[c].attempt = 3

LastAttempt(c) == call[c].attempt = 2

Recheck(c) ==
    /\ At(c, "recheck")
    /\ \/ \E s \in Raced(c) : Return(c, s)
       \/ Raced(c) = {} /\ LastAttempt(c) /\ Goto(c, "failed")
       \/ /\ Raced(c) = {} /\ ~LastAttempt(c)
          /\ TryName(c, LongName(call[c].seller), call[c].attempt + 1)
    /\ UNCHANGED <<stores, creds, settings>>

------------------------------------------------------------------------------
(***************************************************************************)
(* rotateCredentials, updateSettings, updateSlug.                          *)
(***************************************************************************)

Rotate(c) ==
    /\ At(c, "rotate")
    /\ InsertCreds(c)
    /\ Goto(c, "revoke")
    /\ UNCHANGED <<stores, settings>>

\* The UPDATE of revoked_at, but for the new key c.
Revoked(h, c) == [i \in DOMAIN h |-> [h[i] EXCEPT !.revoked = @ \/ h[i].key # c]]

RevokeOthers(c) ==
    /\ At(c, "revoke")
    /\ creds' = [creds EXCEPT ![call[c].store] = Revoked(@, c)]
    /\ Return(c, call[c].store)
    /\ UNCHANGED <<stores, settings>>

\* The entity is kept in memory; a patch without a seller saves back the one read.
ReadSettings(c) ==
    LET row == settings[call[c].store] IN
    /\ At(c, "read")
    /\ \/ row = None /\ Goto(c, "failed")
       \/ row # None /\ call[c].seller # NoSeller /\ Goto(c, "verify")
       \/ /\ row # None /\ call[c].seller = NoSeller
          /\ call' = [call EXCEPT ![c].pc = "save", ![c].seller = row]
    /\ UNCHANGED <<stores, creds, settings>>

VerifySeller(c) ==
    /\ At(c, "verify")
    /\ Goto(c, IF call[c].seller \in KnownSellers THEN "save" ELSE "failed")
    /\ UNCHANGED <<stores, creds, settings>>

SaveSettings(c) ==
    /\ At(c, "save") /\ call[c].kind = "settings"
    /\ settings' = [settings EXCEPT ![call[c].store] = call[c].seller]
    /\ Return(c, call[c].store)
    /\ UNCHANGED <<stores, creds>>

FindStore(c) ==
    /\ At(c, "find")
    /\ Goto(c, IF call[c].slug = NoSlug THEN "failed" ELSE "slug")
    /\ UNCHANGED <<stores, creds, settings>>

SaveSlug(c) ==
    LET s == call[c].store
        row == [stores[s] EXCEPT !.slug = call[c].slug] IN
    /\ At(c, "save") /\ call[c].kind = "slug"
    /\ \/ CanSave(s, row) /\ stores' = [stores EXCEPT ![s] = row] /\ Return(c, s)
       \/ ~CanSave(s, row) /\ Goto(c, "failed") /\ UNCHANGED stores
    /\ UNCHANGED <<creds, settings>>

\* A query or Zoop fails, or the process dies: what was saved stays.
Die(c) ==
    /\ call[c].pc \notin {"new", "done", "failed"}
    /\ Goto(c, "failed")
    /\ UNCHANGED <<stores, creds, settings>>

Step(c) ==
    \/ AssertNameAvailable(c) \/ AssertSlugAvailable(c) \/ AssertSellerExists(c)
    \/ InsertStore(c) \/ SaveCreds(c) \/ InsertSettings(c)
    \/ LookUp(c) \/ GetSeller(c) \/ Recheck(c)
    \/ Rotate(c) \/ RevokeOthers(c)
    \/ ReadSettings(c) \/ VerifySeller(c) \/ SaveSettings(c)
    \/ FindStore(c) \/ SaveSlug(c)

Next == \E c \in Calls : Start(c) \/ Step(c) \/ Die(c)

Spec == Init /\ [][Next]_vars

------------------------------------------------------------------------------
(***************************************************************************)
(* resolveByWakeHeaders: a key against a store.                            *)
(***************************************************************************)

\* A mutant: the filter on revoked_at is meant, not dropped.
Bug_NotRevoked(s) == SelectSeq(creds[s], LAMBDA cred : ~cred.revoked)

\* `revokedAt: undefined` filters nothing.
Considered(s) == creds[s]

Resolves(key, s) ==
    /\ Considered(s) # <<>>
    /\ Last(Considered(s)).key = key
    /\ settings[s] # None

------------------------------------------------------------------------------
(***************************************************************************)
(* Properties.                                                             *)
(***************************************************************************)

\* The stores, whole or left half-made, that provisioning inserted for a seller.
ProvisionedFor(seller) ==
    {s \in Existing : call[s].kind = "provision" /\ call[s].seller = seller}

\* A seller never has more than two stores provisioned for it, however many requests
\* race to provision it or die between the rows: the two names it may get run out.
\* More would mean as many records of one order, none of them seen by the others.
TwoStoresPerSeller ==
    \A seller \in Sellers : \A s, t, u \in ProvisionedFor(seller) :
        s = t \/ t = u \/ s = u

\* What concerns the keys of a store is over, and none of it died half-way.
KeysAreSettled(s) ==
    /\ call[s].kind = "create" /\ At(s, "done")
    /\ \A c \in Calls : call[c].kind = "rotate" /\ call[c].store = s => At(c, "done")

\* The shop is not locked out: one of the keys that createStore and any rotations,
\* however they overlapped, handed out is the one the next Wake request must show.
AKeyResolves ==
    \A s \in Existing : KeysAreSettled(s) =>
        \E c \in Calls : call[c].store = s /\ At(c, "done") /\ Resolves(c, s)

\* A WooCommerce payment never runs under another merchant's store: the store found
\* or provisioned is linked to the seller of the request, whatever names clashed,
\* unless the panel has linked that store to another one.
StoreIsSellers ==
    \A c \in Calls : call[c].kind = "provision" /\ At(c, "done") =>
        \/ settings[call[c].store] = call[c].seller
        \/ \E d \in Calls : call[d].kind = "settings" /\ At(d, "done")
                            /\ call[d].store = call[c].store

==============================================================================
