------------------------------ MODULE StoresProofs ------------------------------
(***************************************************************************)
(* Theorems about the stores, for any number of concurrent calls, names    *)
(* and sellers.  No call is a transaction: the proofs follow which rows a  *)
(* call has inserted at each of its awaits, and what others may have done  *)
(* to them in between.                                                     *)
(***************************************************************************)
EXTENDS Stores, TLAPS

\* Where a call may stand.
PcsOf(kind) ==
    CASE kind = "create"    -> {"new", "name", "slug", "seller", "insert", "creds",
                                "settings", "done", "failed"}
      [] kind = "provision" -> {"lookup", "getSeller", "name", "slug", "seller", "insert",
                                "recheck", "creds", "settings", "done", "failed"}
      [] kind = "rotate"    -> {"rotate", "revoke", "done", "failed"}
      [] kind = "settings"  -> {"read", "verify", "save", "done", "failed"}
      [] OTHER              -> {"find", "slug", "save", "done", "failed"}

NotInserted == {"new", "lookup", "getSeller", "name", "slug", "seller", "insert", "recheck"}

\* Zoop has been asked for the seller, and a name for its store is tried.
Naming == {"name", "slug", "seller", "insert", "recheck"}

NamesFor(seller) == {DisplayName(seller), LongName(seller)}

\* What a call, now in state k, has checked of its arguments.
Arguments(k) ==
    /\ k.pc \in PcsOf(k.kind)
    /\ k.pc = "name" => k.name \in Names
    /\ k.pc = "name" => k.slug \in Slugs \cup {NoSlug}
    /\ k.pc \in {"slug", "seller", "insert"} /\ k.kind # "slug" => k.name \in Names
    /\ k.pc \in {"slug", "seller", "insert", "save"} /\ k.kind # "settings" => k.slug \in Slugs
    /\ k.pc = "find" => k.slug \in Slugs \cup {NoSlug}
    /\ k.kind = "provision" => k.seller \in Sellers
    /\ k.kind = "provision" /\ k.pc \in Naming => k.seller \in KnownSellers
    /\ k.kind = "provision" /\ k.pc \in Naming => k.name \in NamesFor(k.seller)

\* The rows of the store a call inserts itself.
OwnRows(c, k) ==
    /\ k.kind \in {"create", "provision"} /\ k.pc \in NotInserted => stores[c] = None
    /\ k.kind \notin {"create", "provision"} => stores[c] = None
    /\ stores[c] = None => creds[c] = <<>> /\ settings[c] = None
    /\ k.pc \in {"creds", "settings"} =>
           k.store = c /\ stores[c] # None /\ settings[c] = None
    /\ k.pc = "settings" => creds[c] # <<>>
    /\ k.kind = "provision" /\ stores[c] # None => stores[c].name \in NamesFor(k.seller)
    /\ k.pc = "done" /\ k.kind = "create" =>
           k.store = c /\ stores[c] # None /\ creds[c] # <<>> /\ settings[c] # None

\* The rows of the store another call inserted.
OthersRows(k) ==
    /\ k.kind \in {"rotate", "settings", "slug"} => k.store \in Existing
    /\ k.pc \in {"verify", "save"} /\ k.kind = "settings" => settings[k.store] # None

CallInv(c, k) == Arguments(k) /\ OwnRows(c, k) /\ OthersRows(k)

CallsInv == \A c \in Calls : CallInv(c, call[c])

\* Every key of a store was handed out by the call that created it or by a rotation.
KeysHaveOwners ==
    \A s \in Calls : \A i \in 1 .. Len(creds[s]) :
        LET c == creds[s][i].key IN
        c = s \/ (call[c].kind = "rotate" /\ call[c].store = s)

\* Two stores never share a name or a slug: the constraints as an invariant.
NamesAndSlugsAreUnique ==
    \A s, t \in Existing :
        s # t => stores[s].name # stores[t].name /\ stores[s].slug # stores[t].slug

StoresInv ==
    /\ TypeOK
    /\ CallsInv
    /\ KeysHaveOwners
    /\ NamesAndSlugsAreUnique
    /\ StoreIsSellers

------------------------------------------------------------------------------
LEMMA InitStores == Init => StoresInv
  <1> SUFFICES ASSUME Init PROVE StoresInv
    OBVIOUS
  <1>1. NewCall \in Call /\ NewCall.kind = "create" /\ NewCall.pc = "new"
    BY DEF NewCall, Call, PCs
  <1>2. TypeOK
    BY <1>1 DEF Init, TypeOK
  <1>3. ASSUME NEW c \in Calls PROVE CallInv(c, call[c])
    BY <1>1 DEF Init, CallInv, Arguments, OwnRows, OthersRows, PcsOf, NotInserted
  <1> QED
    BY <1>1, <1>2, <1>3
    DEF Init, StoresInv, CallsInv, KeysHaveOwners, NamesAndSlugsAreUnique, Existing, StoreIsSellers

LEMMA KeysAreCalls ==
    ASSUME TypeOK, NEW s \in Calls, NEW i \in 1 .. Len(creds[s])
    PROVE  creds[s][i].key \in Calls
  <1>1. creds[s][i] \in Cred
    BY DEF TypeOK
  <1> QED BY <1>1 DEF Cred

\* A rotation stays one, of the same store.
LEMMA KeysKeepOwners ==
    ASSUME TypeOK, KeysHaveOwners, creds' = creds,
           \A d \in Calls : call[d].kind = "rotate" =>
               call'[d].kind = "rotate" /\ call'[d].store = call[d].store
    PROVE  KeysHaveOwners'
  BY KeysAreCalls DEF KeysHaveOwners

\* Nobody changes a link: what the provisioning calls returned is still true.
LEMMA LinksAreKept ==
    ASSUME StoreIsSellers, settings' = settings,
           \A d \in Calls : call[d].pc = "done" => call'[d] = call[d],
           \A d \in Calls : call'[d].kind = "provision" /\ call'[d].pc = "done" =>
               call'[d] = call[d] \/ settings[call'[d].store] = call'[d].seller
    PROVE  StoreIsSellers'
  BY DEF StoreIsSellers, At

\* A step of a call that saves no row: the call goes from one state to another x.
LEMMA QuietStep ==
    ASSUME StoresInv, NEW c \in Calls, NEW x \in Call,
           call' = [call EXCEPT ![c] = x], UNCHANGED <<stores, creds, settings>>,
           call[c].pc # "done", CallInv(c, x),
           call[c].kind = "rotate" => x.kind = "rotate" /\ x.store = call[c].store,
           x.kind = "provision" /\ x.pc = "done" => settings[x.store] = x.seller
    PROVE  StoresInv'
  <1>1. call' \in [Calls -> Call] /\ call'[c] = x /\ \A d \in Calls : d # c => call'[d] = call[d]
    BY DEF StoresInv, TypeOK
  <1>2. TypeOK'
    BY <1>1 DEF StoresInv, TypeOK
  <1>3. CallsInv'
    BY <1>1 DEF StoresInv, CallsInv, CallInv, OwnRows, OthersRows, Arguments, Existing
  <1>4. KeysHaveOwners'
    BY <1>1, KeysKeepOwners DEF StoresInv
  <1>5. NamesAndSlugsAreUnique'
    BY DEF StoresInv, NamesAndSlugsAreUnique, Existing
  <1>6. StoreIsSellers'
    BY <1>1 DEF StoresInv, StoreIsSellers, At
  <1> QED BY <1>2, <1>3, <1>4, <1>5, <1>6 DEF StoresInv

\* A call moves on, or ends: only its pc changes.
LEMMA GotoStep ==
    ASSUME StoresInv, NEW c \in Calls, NEW pc \in PCs, Goto(c, pc),
           UNCHANGED <<stores, creds, settings>>, call[c].pc # "done", pc # "done",
           \A x \in Call : x = [call[c] EXCEPT !.pc = pc] => CallInv(c, x)
    PROVE  StoresInv'
  <1> DEFINE x == [call[c] EXCEPT !.pc = pc]
  <1>1. call[c] \in Call /\ call \in [Calls -> Call]
    BY DEF StoresInv, TypeOK
  <1>2. x \in Call /\ x.pc = pc /\ x.kind = call[c].kind /\ x.store = call[c].store
    BY <1>1 DEF Call
  <1>3. call' = [call EXCEPT ![c] = x]
    BY <1>1 DEF Goto
  <1>4. CallInv(c, x)
    BY <1>2
  <1> HIDE DEF x
  <1> QED
    BY <1>2, <1>3, <1>4, QuietStep

\* A call that fails, or dies, leaves the rows it has inserted.
LEMMA FailStep ==
    ASSUME StoresInv, NEW c \in Calls, Goto(c, "failed"),
           UNCHANGED <<stores, creds, settings>>, call[c].pc \notin {"new", "done"}
    PROVE  StoresInv'
  <1>1. call[c] \in Call /\ CallInv(c, call[c])
    BY DEF StoresInv, TypeOK, CallsInv
  <1>2. ASSUME NEW x \in Call, x = [call[c] EXCEPT !.pc = "failed"]
        PROVE  CallInv(c, x)
    <2>1. /\ x.pc = "failed" /\ x.kind = call[c].kind /\ x.store = call[c].store
          /\ x.seller = call[c].seller
      BY <1>1, <1>2 DEF Call
    <2>2. Arguments(x)
      BY <1>1, <2>1 DEF CallInv, Arguments, PcsOf, Naming
    <2>3. OwnRows(c, x)
      BY <1>1, <2>1 DEF CallInv, OwnRows, NotInserted
    <2>4. OthersRows(x)
      BY <1>1, <2>1 DEF CallInv, OthersRows
    <2> QED BY <2>2, <2>3, <2>4 DEF CallInv
  <1> QED
    BY <1>2, GotoStep DEF PCs

\* A check that passes, or a conflict that is caught: the call goes on to a state in
\* which it still has inserted nothing.
LEMMA PassStep ==
    ASSUME StoresInv, NEW c \in Calls, NEW pc \in NotInserted \cup {"save", "verify"},
           Goto(c, pc), UNCHANGED <<stores, creds, settings>>,
           pc \in PcsOf(call[c].kind), call[c].pc \in NotInserted \cup {"read", "find", "verify"},
           pc # "name", pc = "getSeller" \/ call[c].pc \in Naming \/ call[c].kind # "provision",
           pc \in {"slug", "seller", "insert"} /\ call[c].kind # "slug" =>
               call[c].name \in Names,
           pc \in {"slug", "seller", "insert", "save"} /\ call[c].kind # "settings" =>
               call[c].slug \in Slugs,
           pc \in {"save", "verify"} /\ call[c].kind = "settings" =>
               settings[call[c].store] # None
    PROVE  StoresInv'
  <1>1. call[c] \in Call /\ CallInv(c, call[c])
    BY DEF StoresInv, TypeOK, CallsInv
  <1>2. ASSUME NEW x \in Call, x = [call[c] EXCEPT !.pc = pc]
        PROVE  CallInv(c, x)
    <2>1. /\ x.pc = pc /\ x.kind = call[c].kind /\ x.store = call[c].store
          /\ x.seller = call[c].seller /\ x.name = call[c].name /\ x.slug = call[c].slug
      BY <1>1, <1>2 DEF Call
    <2>2. Arguments(x)
      BY <1>1, <2>1 DEF CallInv, Arguments, NotInserted, Naming
    <2>3. OwnRows(c, x)
      BY <1>1, <2>1 DEF CallInv, OwnRows, NotInserted, Call, Arguments, PcsOf
    <2>4. OthersRows(x)
      BY <1>1, <2>1 DEF CallInv, OthersRows
    <2> QED BY <2>2, <2>3, <2>4 DEF CallInv
  <1>3. pc \in PCs /\ pc # "done" /\ call[c].pc # "done"
    BY DEF PCs, NotInserted
  <1> QED
    BY <1>2, <1>3, GotoStep

LEMMA NameStep ==
    ASSUME StoresInv, NEW c \in Calls, AssertNameAvailable(c) PROVE StoresInv'
  <1>1. /\ call[c] \in Call /\ call[c].pc = "name" /\ CallInv(c, call[c])
        /\ UNCHANGED <<stores, creds, settings>>
    BY DEF StoresInv, TypeOK, CallsInv, AssertNameAvailable, At
  <1>2. /\ call[c].kind \in {"create", "provision"} /\ call[c].name \in Names
        /\ call[c].slug \in Slugs \cup {NoSlug}
    BY <1>1 DEF CallInv, Arguments, PcsOf, Call
  <1>3. CASE Goto(c, "failed")
    BY <1>1, <1>3, FailStep
  <1>4. CASE call[c].kind = "provision" /\ Goto(c, "recheck")
    BY <1>1, <1>4, PassStep DEF NotInserted, PcsOf, Naming
  <1>5. CASE call[c].slug # NoSlug /\ Goto(c, "slug")
    <2>1. call[c].slug \in Slugs
      BY <1>2, <1>5
    <2> QED BY <1>1, <1>2, <1>5, <2>1, PassStep DEF NotInserted, PcsOf, Naming
  <1> QED
    BY <1>3, <1>4, <1>5 DEF AssertNameAvailable, Conflict

LEMMA SlugStep ==
    ASSUME StoresInv, NEW c \in Calls, AssertSlugAvailable(c) PROVE StoresInv'
  <1>1. /\ call[c] \in Call /\ call[c].pc = "slug" /\ CallInv(c, call[c])
        /\ UNCHANGED <<stores, creds, settings>>
    BY DEF StoresInv, TypeOK, CallsInv, AssertSlugAvailable, At
  <1>2. /\ call[c].kind \in {"create", "provision", "slug"} /\ call[c].slug \in Slugs
        /\ call[c].kind # "slug" => call[c].name \in Names
    BY <1>1 DEF CallInv, Arguments, PcsOf, Call
  <1>3. CASE Goto(c, "failed")
    BY <1>1, <1>3, FailStep
  <1>4. CASE call[c].kind = "provision" /\ Goto(c, "recheck")
    BY <1>1, <1>4, PassStep DEF NotInserted, PcsOf, Naming
  <1>5. CASE call[c].kind = "slug" /\ Goto(c, "save")
    BY <1>1, <1>2, <1>5, PassStep DEF NotInserted, PcsOf, Naming
  <1>6. CASE call[c].kind # "slug" /\ Goto(c, "insert")
    BY <1>1, <1>2, <1>6, PassStep DEF NotInserted, PcsOf, Naming
  <1>7. CASE call[c].kind # "slug" /\ Goto(c, "seller")
    BY <1>1, <1>2, <1>7, PassStep DEF NotInserted, PcsOf, Naming
  <1> QED
    BY <1>2, <1>3, <1>4, <1>5, <1>6, <1>7 DEF AssertSlugAvailable, Conflict

LEMMA SellerStep ==
    ASSUME StoresInv, NEW c \in Calls, AssertSellerExists(c) PROVE StoresInv'
  <1>1. /\ call[c] \in Call /\ call[c].pc = "seller" /\ CallInv(c, call[c])
        /\ UNCHANGED <<stores, creds, settings>>
    BY DEF StoresInv, TypeOK, CallsInv, AssertSellerExists, At
  <1>2. /\ call[c].kind \in {"create", "provision"} /\ call[c].slug \in Slugs
        /\ call[c].name \in Names
    BY <1>1 DEF CallInv, Arguments, PcsOf, Call
  <1>3. CASE Goto(c, "failed")
    BY <1>1, <1>3, FailStep
  <1>4. CASE Goto(c, "insert")
    BY <1>1, <1>2, <1>4, PassStep DEF NotInserted, PcsOf, Naming
  <1> QED
    BY <1>3, <1>4 DEF AssertSellerExists

------------------------------------------------------------------------------
(***************************************************************************)
(* createStore: the three inserts.                                         *)
(***************************************************************************)
LEMMA InsertStoreStep ==
    ASSUME StoresInv, NEW c \in Calls, InsertStore(c) PROVE StoresInv'
  <1> DEFINE row == [name |-> call[c].name, slug |-> call[c].slug]
             x == [call[c] EXCEPT !.pc = "creds", !.store = c]
  <1>1. /\ call[c] \in Call /\ call[c].pc = "insert" /\ CallInv(c, call[c])
        /\ stores \in [Calls -> Store \cup {None}] /\ call \in [Calls -> Call]
        /\ UNCHANGED <<creds, settings>>
    BY DEF StoresInv, TypeOK, CallsInv, InsertStore, At
  <1>2. /\ call[c].kind \in {"create", "provision"} /\ stores[c] = None
        /\ call[c].name \in Names /\ call[c].slug \in Slugs
        /\ call[c].kind = "provision" => call[c].seller \in Sellers
        /\ call[c].kind = "provision" => call[c].name \in NamesFor(call[c].seller)
    BY <1>1 DEF CallInv, Arguments, OwnRows, PcsOf, NotInserted, Naming, Call
  <1>3. CASE UNCHANGED stores /\ Goto(c, "failed")
    BY <1>1, <1>3, FailStep
  <1>4. CASE CanSave(c, row) /\ stores' = [stores EXCEPT ![c] = row]
             /\ call' = [call EXCEPT ![c].pc = "creds", ![c].store = c]
    <2>1. /\ x \in Call /\ x.pc = "creds" /\ x.store = c /\ x.kind = call[c].kind
          /\ x.seller = call[c].seller
      BY <1>1 DEF Call, PCs
    <2>2. /\ call' \in [Calls -> Call] /\ call'[c] = x
          /\ \A d \in Calls : d # c => call'[d] = call[d]
      BY <1>1, <1>4, <2>1
    <2>3. /\ row \in Store /\ row # None /\ row.name = call[c].name /\ row.slug = call[c].slug
      BY <1>2, NoneIsNoValue DEF Store
    <2>4. /\ stores' \in [Calls -> Store \cup {None}] /\ stores'[c] = row
          /\ \A s \in Calls : s # c => stores'[s] = stores[s]
      BY <1>1, <1>4, <2>3
    <2>5. Existing' = Existing \cup {c}
      BY <1>2, <2>3, <2>4 DEF Existing
    <2> HIDE DEF x, row
    <2>6. TypeOK'
      BY <1>1, <2>2, <2>4 DEF StoresInv, TypeOK
    <2>7. CallsInv'
      <3>1. \A d \in Calls : Arguments(call'[d])
        BY <1>1, <1>2, <2>1, <2>2 DEF StoresInv, CallsInv, CallInv, Arguments, PcsOf, Naming
      <3>2. (\A d \in Calls : OwnRows(d, call[d]))'
        BY <1>1, <1>2, <2>1, <2>2, <2>3, <2>4
        DEF StoresInv, CallsInv, CallInv, OwnRows, NotInserted
      <3>3. (\A d \in Calls : OthersRows(call[d]))'
        BY <1>1, <1>2, <2>1, <2>2, <2>5 DEF StoresInv, CallsInv, CallInv, OthersRows
      <3> QED BY <3>1, <3>2, <3>3 DEF CallsInv, CallInv
    <2>8. KeysHaveOwners'
      BY <1>1, <1>2, <2>2, KeysKeepOwners DEF StoresInv
    <2>9. NamesAndSlugsAreUnique'
      BY <1>4, <2>3, <2>4, <2>5 DEF StoresInv, NamesAndSlugsAreUnique, CanSave, NameIsFree, SlugIsFree
    <2>10. StoreIsSellers'
      BY <1>1, <2>1, <2>2, LinksAreKept DEF StoresInv
    <2> QED BY <2>6, <2>7, <2>8, <2>9, <2>10 DEF StoresInv
  <1> QED
    BY <1>3, <1>4 DEF InsertStore

LEMMA SaveCredsStep ==
    ASSUME StoresInv, NEW c \in Calls, SaveCreds(c) PROVE StoresInv'
  <1> DEFINE x == [call[c] EXCEPT !.pc = "settings"]
             k == [key |-> c, revoked |-> FALSE]
  <1>1. /\ call[c] \in Call /\ call[c].pc = "creds" /\ CallInv(c, call[c])
        /\ creds \in [Calls -> Seq(Cred)] /\ call \in [Calls -> Call]
        /\ stores' = stores /\ settings' = settings
    BY DEF StoresInv, TypeOK, CallsInv, SaveCreds, At
  <1>2. /\ call[c].kind \in {"create", "provision"} /\ call[c].store = c
        /\ stores[c] # None /\ settings[c] = None
        /\ call[c].kind = "provision" => call[c].seller \in Sellers
        /\ call[c].kind = "provision" => stores[c].name \in NamesFor(call[c].seller)
    BY <1>1 DEF CallInv, Arguments, OwnRows, PcsOf, Call
  <1>3. /\ x \in Call /\ x.pc = "settings" /\ x.store = c /\ x.kind = call[c].kind
        /\ x.seller = call[c].seller
    BY <1>1, <1>2 DEF Call, PCs
  <1>4. /\ call' \in [Calls -> Call] /\ call'[c] = x
        /\ \A d \in Calls : d # c => call'[d] = call[d]
    BY <1>1, <1>3 DEF SaveCreds, Goto
  <1> HIDE DEF x
  <1>5. /\ creds[c] \in Seq(Cred) /\ k \in Cred /\ k.key = c
        /\ creds' = [creds EXCEPT ![c] = Append(@, k)]
    BY <1>1, <1>2 DEF SaveCreds, InsertCreds, Cred
  <1> HIDE DEF k
  <1>6. /\ creds' \in [Calls -> Seq(Cred)] /\ creds'[c] = Append(creds[c], k)
        /\ Append(creds[c], k) # <<>>
        /\ \A s \in Calls : s # c => creds'[s] = creds[s]
    BY <1>1, <1>5
  <1>7. TypeOK'
    BY <1>1, <1>4, <1>6 DEF StoresInv, TypeOK
  <1>8. CallsInv'
    <2>1. \A d \in Calls : Arguments(call'[d])
      <3>1. Arguments(x)
        BY <1>1, <1>2, <1>3 DEF Arguments, PcsOf, Naming
      <3> QED BY <3>1, <1>4 DEF StoresInv, CallsInv, CallInv
    <2>2. (\A d \in Calls : OwnRows(d, call[d]))'
      <3>1. OwnRows(c, call[c])'
        BY <1>1, <1>2, <1>3, <1>4, <1>6 DEF OwnRows, NotInserted
      <3>2. ASSUME NEW d \in Calls, d # c PROVE OwnRows(d, call[d])'
        BY <1>1, <1>4, <1>6, <3>2 DEF StoresInv, CallsInv, CallInv, OwnRows
      <3> QED BY <3>1, <3>2
    <2>3. (\A d \in Calls : OthersRows(call[d]))'
      <3>1. Existing' = Existing
        BY <1>1 DEF Existing
      <3> QED
        BY <3>1, <1>1, <1>2, <1>3, <1>4 DEF StoresInv, CallsInv, CallInv, OthersRows
    <2> QED BY <2>1, <2>2, <2>3 DEF CallsInv, CallInv
  <1>9. KeysHaveOwners'
    <2> SUFFICES ASSUME NEW s \in Calls, NEW i \in 1 .. Len(creds'[s])
                 PROVE  \/ creds'[s][i].key = s
                        \/ /\ call'[creds'[s][i].key].kind = "rotate"
                           /\ call'[creds'[s][i].key].store = s
      BY DEF KeysHaveOwners
    <2>1. CASE s = c /\ i = Len(creds[c]) + 1
      BY <2>1, <1>5, <1>6
    <2>2. CASE ~(s = c /\ i = Len(creds[c]) + 1)
      <3>1. i \in 1 .. Len(creds[s]) /\ creds'[s][i] = creds[s][i]
        BY <2>2, <1>5, <1>6
      <3> QED
        BY <3>1, <1>2, <1>4, KeysAreCalls DEF StoresInv, KeysHaveOwners
    <2> QED BY <2>1, <2>2
  <1>10. NamesAndSlugsAreUnique'
    BY <1>1 DEF StoresInv, NamesAndSlugsAreUnique, Existing
  <1>11. StoreIsSellers'
    BY <1>1, <1>3, <1>4, LinksAreKept DEF StoresInv
  <1> QED BY <1>7, <1>8, <1>9, <1>10, <1>11 DEF StoresInv

\* What changes a link: the row of the settings is inserted or saved again.
LEMMA InsertSettingsStep ==
    ASSUME StoresInv, NEW c \in Calls, InsertSettings(c) PROVE StoresInv'
  <1> DEFINE x == [call[c] EXCEPT !.pc = "done", !.store = c]
  <1>1. /\ call[c] \in Call /\ call[c].pc = "settings" /\ CallInv(c, call[c])
        /\ settings \in [Calls -> Sellers \cup {NoSeller, None}]
        /\ call \in [Calls -> Call] /\ stores' = stores /\ creds' = creds
    BY DEF StoresInv, TypeOK, CallsInv, InsertSettings, At
  <1>2. /\ call[c].kind \in {"create", "provision"} /\ call[c].store = c
        /\ stores[c] # None /\ settings[c] = None /\ creds[c] # <<>>
        /\ call[c].seller \in Sellers \cup {NoSeller}
        /\ call[c].kind = "provision" => call[c].seller \in Sellers
    BY <1>1 DEF CallInv, Arguments, OwnRows, PcsOf, Call
  <1>3. /\ x \in Call /\ x.pc = "done" /\ x.store = c /\ x.kind = call[c].kind
        /\ x.seller = call[c].seller
    BY <1>1, <1>2 DEF Call, PCs
  <1>4. /\ call' \in [Calls -> Call] /\ call'[c] = x
        /\ \A d \in Calls : d # c => call'[d] = call[d]
    BY <1>1, <1>3 DEF InsertSettings, Return
  <1> HIDE DEF x
  <1>5. /\ settings' \in [Calls -> Sellers \cup {NoSeller, None}]
        /\ settings'[c] = call[c].seller /\ settings'[c] # None
        /\ \A s \in Calls : s # c => settings'[s] = settings[s]
    BY <1>1, <1>2, NoneIsNoValue DEF InsertSettings
  <1>6. TypeOK'
    BY <1>1, <1>4, <1>5 DEF StoresInv, TypeOK
  <1>7. CallsInv'
    <2>1. \A d \in Calls : Arguments(call'[d])
      BY <1>1, <1>2, <1>3, <1>4 DEF StoresInv, CallsInv, CallInv, Arguments, PcsOf, Naming
    <2>2. (\A d \in Calls : OwnRows(d, call[d]))'
      BY <1>1, <1>2, <1>3, <1>4, <1>5 DEF StoresInv, CallsInv, CallInv, OwnRows, NotInserted
    <2>3. (\A d \in Calls : OthersRows(call[d]))'
      BY <1>1, <1>2, <1>3, <1>4, <1>5
      DEF StoresInv, CallsInv, CallInv, OthersRows, Existing
    <2> QED BY <2>1, <2>2, <2>3 DEF CallsInv, CallInv
  <1>8. KeysHaveOwners'
    BY <1>1, <1>2, <1>4, KeysKeepOwners DEF StoresInv
  <1>9. NamesAndSlugsAreUnique'
    BY <1>1 DEF StoresInv, NamesAndSlugsAreUnique, Existing
  <1>10. StoreIsSellers'
    <2> SUFFICES ASSUME NEW d \in Calls, call'[d].kind = "provision", call'[d].pc = "done"
                 PROVE  \/ settings'[call'[d].store] = call'[d].seller
                        \/ \E e \in Calls : call'[e].kind = "settings" /\ call'[e].pc = "done"
                                            /\ call'[e].store = call'[d].store
      BY DEF StoreIsSellers, At
    <2>1. CASE d = c
      BY <2>1, <1>3, <1>4, <1>5
    <2>2. CASE d # c
      <3>1. call[d].kind = "provision" /\ call[d].pc = "done" /\ call'[d] = call[d]
        BY <2>2, <1>4
      <3>2. call[d].seller \in Sellers /\ call[d].store \in Calls \cup {None}
        BY <3>1 DEF StoresInv, CallsInv, CallInv, Arguments, TypeOK, Call
      <3>3. CASE settings[call[d].store] = call[d].seller
        <4>1. call[d].store # c
          BY <3>2, <3>3, <1>2, NoneIsNoValue
        <4>2. settings'[call[d].store] = settings[call[d].store]
          BY <4>1, <1>1 DEF InsertSettings
        <4> QED BY <3>1, <3>3, <4>2
      <3>4. CASE settings[call[d].store] # call[d].seller
        <4>1. PICK e \in Calls : call[e].kind = "settings" /\ call[e].pc = "done"
                                 /\ call[e].store = call[d].store
          BY <3>1, <3>4 DEF StoresInv, StoreIsSellers, At
        <4>2. call'[e] = call[e]
          BY <4>1, <1>1, <1>4
        <4> QED BY <3>1, <4>1, <4>2
      <3> QED BY <3>3, <3>4
    <2> QED BY <2>1, <2>2
  <1> QED BY <1>6, <1>7, <1>8, <1>9, <1>10 DEF StoresInv

------------------------------------------------------------------------------
(***************************************************************************)
(* getOrCreateBySellerId.                                                  *)
(***************************************************************************)

\* The store a provisioning call returns without creating it.
LEMMA FoundStep ==
    ASSUME StoresInv, NEW c \in Calls, call[c].pc \in {"lookup", "recheck"},
           NEW s \in LinkedTo(call[c].seller), Return(c, s),
           UNCHANGED <<stores, creds, settings>>
    PROVE  StoresInv'
  <1> DEFINE x == [call[c] EXCEPT !.pc = "done", !.store = s]
  <1>1. /\ call[c] \in Call /\ CallInv(c, call[c]) /\ call \in [Calls -> Call]
        /\ s \in Calls /\ settings[s] = call[c].seller
    BY DEF StoresInv, TypeOK, CallsInv, LinkedTo, Existing
  <1>2. call[c].kind = "provision" /\ call[c].seller \in Sellers /\ stores[c] = None
    BY <1>1 DEF CallInv, Arguments, OwnRows, PcsOf, NotInserted, Call
  <1>3. /\ x \in Call /\ x.pc = "done" /\ x.store = s /\ x.kind = "provision"
        /\ x.seller = call[c].seller
    BY <1>1, <1>2 DEF Call, PCs
  <1>4. call' = [call EXCEPT ![c] = x]
    BY <1>1 DEF Return
  <1> HIDE DEF x
  <1>5. CallInv(c, x)
    BY <1>1, <1>2, <1>3 DEF CallInv, Arguments, OwnRows, OthersRows, PcsOf, Naming
  <1>6. call[c].pc # "done"
    OBVIOUS
  <1> QED
    BY <1>1, <1>2, <1>3, <1>4, <1>5, <1>6, QuietStep

\* A name is tried: its slug may be empty, which the next step finds.
LEMMA TryStep ==
    ASSUME StoresInv, NEW c \in Calls, call[c].pc \in {"getSeller", "recheck"},
           call[c].seller \in KnownSellers, NEW n \in Names, NEW a \in 1 .. 2,
           n \in NamesFor(call[c].seller),
           TryName(c, n, a),
           UNCHANGED <<stores, creds, settings>>
    PROVE  StoresInv'
  <1> DEFINE x == [call[c] EXCEPT !.pc = "name", !.name = n, !.slug = Slugify(n),
                                  !.attempt = a]
  <1>1. call[c] \in Call /\ CallInv(c, call[c]) /\ call \in [Calls -> Call]
    BY DEF StoresInv, TypeOK, CallsInv
  <1>2. call[c].kind = "provision" /\ call[c].seller \in Sellers /\ stores[c] = None
    BY <1>1 DEF CallInv, Arguments, OwnRows, PcsOf, NotInserted, Call
  <1>3. Slugify(n) \in Slugs \cup {NoSlug}
    BY NamesHaveSlugs
  <1>4. /\ x \in Call /\ x.pc = "name" /\ x.name = n /\ x.kind = "provision"
        /\ x.seller = call[c].seller /\ x.slug = Slugify(n)
    BY <1>1, <1>2, <1>3 DEF Call, PCs
  <1>5. call' = [call EXCEPT ![c] = x]
    BY <1>1 DEF TryName
  <1> HIDE DEF x
  <1>6. CallInv(c, x)
    BY <1>1, <1>2, <1>3, <1>4 DEF CallInv, Arguments, OwnRows, OthersRows, PcsOf, Naming
  <1> QED
    BY <1>1, <1>2, <1>4, <1>5, <1>6, QuietStep

LEMMA ProvisionStep ==
    ASSUME StoresInv, NEW c \in Calls, LookUp(c) \/ GetSeller(c) \/ Recheck(c)
    PROVE  StoresInv'
  <1>1. /\ call[c] \in Call /\ CallInv(c, call[c])
        /\ call[c].pc \in {"lookup", "getSeller", "recheck"}
        /\ UNCHANGED <<stores, creds, settings>>
    BY DEF StoresInv, TypeOK, CallsInv, LookUp, GetSeller, Recheck, At
  <1>2. call[c].kind = "provision"
    BY <1>1 DEF CallInv, Arguments, PcsOf, Call
  <1>3. ASSUME NEW s \in LinkedTo(call[c].seller), Return(c, s),
               call[c].pc \in {"lookup", "recheck"}
        PROVE  StoresInv'
    BY <1>1, <1>3, FoundStep
  <1>4. CASE call[c].pc = "lookup" /\ Goto(c, "getSeller")
    BY <1>1, <1>2, <1>4, PassStep DEF NotInserted, PcsOf, Naming
  <1>5. CASE Goto(c, "failed")
    BY <1>1, <1>5, FailStep
  <1>6. ASSUME call[c].pc = "getSeller", call[c].seller \in KnownSellers,
               TryName(c, DisplayName(call[c].seller), 1)
        PROVE  StoresInv'
    <2>1. DisplayName(call[c].seller) \in Names /\ 1 \in 1 .. 2
      BY <1>6, SellersAreSellers
    <2> QED BY <1>1, <1>6, <2>1, TryStep DEF NamesFor
  <1>7. ASSUME call[c].pc = "recheck", ~LastAttempt(c),
               TryName(c, LongName(call[c].seller), call[c].attempt + 1)
        PROVE  StoresInv'
    <2>1. call[c].attempt + 1 \in 1 .. 2
      BY <1>1, <1>7 DEF LastAttempt, Call
    <2>2. call[c].seller \in KnownSellers /\ LongName(call[c].seller) \in Names
      BY <1>1, <1>2, <1>7, SellersAreSellers DEF CallInv, Arguments, Naming
    <2> QED BY <1>1, <1>7, <2>1, <2>2, TryStep DEF NamesFor
  <1> QED
    BY <1>3, <1>4, <1>5, <1>6, <1>7 DEF LookUp, GetSeller, Recheck, Raced, At

------------------------------------------------------------------------------
(***************************************************************************)
(* rotateCredentials.                                                      *)
(***************************************************************************)
LEMMA RotateStep ==
    ASSUME StoresInv, NEW c \in Calls, Rotate(c) PROVE StoresInv'
  <1> DEFINE x == [call[c] EXCEPT !.pc = "revoke"]
             k == [key |-> c, revoked |-> FALSE]
             s == call[c].store
  <1>1. /\ call[c] \in Call /\ call[c].pc = "rotate" /\ CallInv(c, call[c])
        /\ creds \in [Calls -> Seq(Cred)] /\ call \in [Calls -> Call]
        /\ stores' = stores /\ settings' = settings
    BY DEF StoresInv, TypeOK, CallsInv, Rotate, At
  <1>2. call[c].kind = "rotate" /\ s \in Calls /\ stores[s] # None /\ stores[c] = None
    BY <1>1 DEF CallInv, Arguments, OwnRows, OthersRows, PcsOf, Call, Existing
  <1>3. x \in Call /\ x.pc = "revoke" /\ x.store = s /\ x.kind = "rotate"
    BY <1>1, <1>2 DEF Call, PCs
  <1>4. /\ call' \in [Calls -> Call] /\ call'[c] = x
        /\ \A d \in Calls : d # c => call'[d] = call[d]
    BY <1>1, <1>3 DEF Rotate, Goto
  <1> HIDE DEF x
  <1>5. /\ creds[s] \in Seq(Cred) /\ k \in Cred /\ k.key = c
        /\ creds' = [creds EXCEPT ![s] = Append(@, k)]
    BY <1>1, <1>2 DEF Rotate, InsertCreds, Cred
  <1> HIDE DEF k, s
  <1>6. /\ creds' \in [Calls -> Seq(Cred)] /\ creds'[s] = Append(creds[s], k)
        /\ Append(creds[s], k) # <<>>
        /\ \A t \in Calls : t # s => creds'[t] = creds[t]
    BY <1>1, <1>2, <1>5
  <1>7. TypeOK'
    BY <1>1, <1>4, <1>6 DEF StoresInv, TypeOK
  <1>8. CallsInv'
    <2>1. \A d \in Calls : Arguments(call'[d])
      BY <1>1, <1>2, <1>3, <1>4 DEF StoresInv, CallsInv, CallInv, Arguments, PcsOf, Naming
    <2>2. (\A d \in Calls : OwnRows(d, call[d]))'
      <3>1. ASSUME NEW d \in Calls
            PROVE  /\ stores[d] = None => creds'[d] = <<>>
                   /\ creds[d] # <<>> => creds'[d] # <<>>
        <4>1. CASE d = s
          BY <4>1, <1>2, <1>6 DEF s
        <4>2. CASE d # s
          BY <4>2, <1>6 DEF StoresInv, CallsInv, CallInv, OwnRows
        <4> QED BY <4>1, <4>2
      <3>2. \A d \in Calls : d # c => OwnRows(d, call[d]) /\ call'[d] = call[d]
        BY <1>4 DEF StoresInv, CallsInv, CallInv
      <3>3. ASSUME NEW d \in Calls, d # c
            PROVE  (OwnRows(d, call[d]))'
        BY <3>1, <3>2, <3>3, <1>1 DEF OwnRows
      <3>4. (OwnRows(c, call[c]))'
        BY <3>1, <1>1, <1>2, <1>3, <1>4 DEF CallInv, OwnRows
      <3> QED BY <3>3, <3>4
    <2>3. (\A d \in Calls : OthersRows(call[d]))'
      <3>1. Existing' = Existing /\ s \in Existing
        BY <1>1, <1>2 DEF Existing
      <3> QED
        BY <3>1, <1>1, <1>2, <1>3, <1>4 DEF StoresInv, CallsInv, CallInv, OthersRows
    <2> QED BY <2>1, <2>2, <2>3 DEF CallsInv, CallInv
  <1>9. KeysHaveOwners'
    <2> SUFFICES ASSUME NEW t \in Calls, NEW i \in 1 .. Len(creds'[t])
                 PROVE  \/ creds'[t][i].key = t
                        \/ /\ call'[creds'[t][i].key].kind = "rotate"
                           /\ call'[creds'[t][i].key].store = t
      BY DEF KeysHaveOwners
    <2>1. CASE t = s /\ i = Len(creds[s]) + 1
      BY <2>1, <1>3, <1>4, <1>5, <1>6
    <2>2. CASE ~(t = s /\ i = Len(creds[s]) + 1)
      <3>1. i \in 1 .. Len(creds[t]) /\ creds'[t][i] = creds[t][i]
        BY <2>2, <1>2, <1>5, <1>6
      <3> QED
        BY <3>1, <1>2, <1>3, <1>4, KeysAreCalls DEF StoresInv, KeysHaveOwners, s
    <2> QED BY <2>1, <2>2
  <1>10. NamesAndSlugsAreUnique'
    BY <1>1 DEF StoresInv, NamesAndSlugsAreUnique, Existing
  <1>11. StoreIsSellers'
    BY <1>1, <1>3, <1>4, LinksAreKept DEF StoresInv
  <1> QED BY <1>7, <1>8, <1>9, <1>10, <1>11 DEF StoresInv

\* A revocation loses no key, and none changes hands.
LEMMA RevokedKeys ==
    ASSUME NEW h \in Seq(Cred), NEW c
    PROVE  /\ Revoked(h, c) \in Seq(Cred) /\ Len(Revoked(h, c)) = Len(h)
           /\ \A i \in 1 .. Len(h) : Revoked(h, c)[i].key = h[i].key
  <1> DEFINE g == Revoked(h, c)
  <1>1. /\ DOMAIN h = 1 .. Len(h) /\ Len(h) \in Nat
        /\ \A i \in 1 .. Len(h) : h[i] \in Cred
    OBVIOUS
  <1>2. ASSUME NEW i \in 1 .. Len(h) PROVE g[i] \in Cred /\ g[i].key = h[i].key
    <2> DEFINE b == h[i].revoked \/ h[i].key # c
    <2>1. g[i] = [h[i] EXCEPT !.revoked = @ \/ h[i].key # c]
      BY <1>1 DEF Revoked
    <2>2. h[i] = [key |-> h[i].key, revoked |-> h[i].revoked] /\ h[i].key \in Calls
      BY <1>1 DEF Cred
    <2>3. b \in BOOLEAN
      OBVIOUS
    <2>4. g[i] = [h[i] EXCEPT !.revoked = b]
      BY <2>1, Zenon
    <2> HIDE DEF b
    <2> QED BY <2>2, <2>3, <2>4 DEF Cred
  <1>3. DOMAIN g = 1 .. Len(h)
    BY <1>1 DEF Revoked
  <1>4. g = [i \in 1 .. Len(h) |-> g[i]]
    BY <1>1 DEF Revoked
  <1>5. \A i \in 1 .. Len(h) : g[i] \in Cred
    BY <1>2
  <1>6. g \in [1 .. Len(h) -> Cred]
    BY <1>3, <1>4, <1>5, Zenon
  <1>7. g \in Seq(Cred)
    BY <1>1, <1>6
  <1> QED BY <1>1, <1>2, <1>3, <1>7

LEMMA RevokeStep ==
    ASSUME StoresInv, NEW c \in Calls, RevokeOthers(c) PROVE StoresInv'
  <1> DEFINE s == call[c].store
             x == [call[c] EXCEPT !.pc = "done", !.store = s]
             g == Revoked(creds[s], c)
  <1>1. /\ call[c] \in Call /\ call[c].pc = "revoke" /\ CallInv(c, call[c])
        /\ creds \in [Calls -> Seq(Cred)] /\ call \in [Calls -> Call]
        /\ stores' = stores /\ settings' = settings
    BY DEF StoresInv, TypeOK, CallsInv, RevokeOthers, At
  <1>2. call[c].kind = "rotate" /\ s \in Calls /\ stores[s] # None /\ stores[c] = None
    BY <1>1 DEF CallInv, Arguments, OwnRows, OthersRows, PcsOf, Call, Existing
  <1>3. x \in Call /\ x.pc = "done" /\ x.store = s /\ x.kind = "rotate"
    BY <1>1, <1>2 DEF Call, PCs
  <1>4. /\ call' \in [Calls -> Call] /\ call'[c] = x
        /\ \A d \in Calls : d # c => call'[d] = call[d]
    BY <1>1, <1>3 DEF RevokeOthers, Return
  <1>5. /\ g \in Seq(Cred) /\ Len(g) = Len(creds[s])
        /\ \A i \in 1 .. Len(creds[s]) : g[i].key = creds[s][i].key
    BY <1>1, <1>2, RevokedKeys
  <1>6. creds' = [creds EXCEPT ![s] = g]
    BY <1>1, <1>2 DEF RevokeOthers
  <1> HIDE DEF x, g, s
  <1>7. /\ creds' \in [Calls -> Seq(Cred)] /\ creds'[s] = g
        /\ \A t \in Calls : t # s => creds'[t] = creds[t]
    BY <1>1, <1>2, <1>5, <1>6
  <1>8. \A t \in Calls : /\ Len(creds'[t]) = Len(creds[t])
                         /\ creds[t] = <<>> <=> creds'[t] = <<>>
                         /\ \A i \in 1 .. Len(creds[t]) : creds'[t][i].key = creds[t][i].key
    <2>1. \A h \in Seq(Cred) : h = <<>> <=> Len(h) = 0
      OBVIOUS
    <2> QED BY <1>1, <1>2, <1>5, <1>7, <2>1
  <1>9. TypeOK'
    BY <1>1, <1>4, <1>7 DEF StoresInv, TypeOK
  <1>10. CallsInv'
    <2>1. \A d \in Calls : Arguments(call'[d])
      BY <1>1, <1>2, <1>3, <1>4 DEF StoresInv, CallsInv, CallInv, Arguments, PcsOf, Naming
    <2>2. (\A d \in Calls : OwnRows(d, call[d]))'
      <3>1. \A d \in Calls : d # c => OwnRows(d, call[d]) /\ call'[d] = call[d]
        BY <1>4 DEF StoresInv, CallsInv, CallInv
      <3>2. ASSUME NEW d \in Calls, d # c PROVE (OwnRows(d, call[d]))'
        BY <3>1, <3>2, <1>1, <1>8 DEF OwnRows
      <3>3. (OwnRows(c, call[c]))'
        BY <1>1, <1>2, <1>3, <1>4, <1>8 DEF CallInv, OwnRows
      <3> QED BY <3>2, <3>3
    <2>3. (\A d \in Calls : OthersRows(call[d]))'
      <3>1. Existing' = Existing /\ s \in Existing
        BY <1>1, <1>2 DEF Existing
      <3> QED
        BY <3>1, <1>1, <1>2, <1>3, <1>4 DEF StoresInv, CallsInv, CallInv, OthersRows
    <2> QED BY <2>1, <2>2, <2>3 DEF CallsInv, CallInv
  <1>11. KeysHaveOwners'
    <2> SUFFICES ASSUME NEW t \in Calls, NEW i \in 1 .. Len(creds'[t])
                 PROVE  \/ creds'[t][i].key = t
                        \/ /\ call'[creds'[t][i].key].kind = "rotate"
                           /\ call'[creds'[t][i].key].store = t
      BY DEF KeysHaveOwners
    <2>1. i \in 1 .. Len(creds[t]) /\ creds'[t][i].key = creds[t][i].key
      BY <1>8
    <2> QED
      BY <2>1, <1>2, <1>3, <1>4, KeysAreCalls DEF StoresInv, KeysHaveOwners, s
  <1>12. NamesAndSlugsAreUnique'
    BY <1>1 DEF StoresInv, NamesAndSlugsAreUnique, Existing
  <1>13. StoreIsSellers'
    BY <1>1, <1>3, <1>4, LinksAreKept DEF StoresInv
  <1> QED BY <1>9, <1>10, <1>11, <1>12, <1>13 DEF StoresInv

------------------------------------------------------------------------------
(***************************************************************************)
(* updateSettings and updateSlug.                                          *)
(***************************************************************************)
LEMMA ReadStep ==
    ASSUME StoresInv, NEW c \in Calls, ReadSettings(c) PROVE StoresInv'
  <1> DEFINE row == settings[call[c].store]
             x == [call[c] EXCEPT !.pc = "save", !.seller = row]
  <1>1. /\ call[c] \in Call /\ call[c].pc = "read" /\ CallInv(c, call[c])
        /\ call \in [Calls -> Call] /\ UNCHANGED <<stores, creds, settings>>
        /\ settings \in [Calls -> Sellers \cup {NoSeller, None}]
    BY DEF StoresInv, TypeOK, CallsInv, ReadSettings, At
  <1>2. call[c].kind = "settings" /\ call[c].store \in Existing /\ stores[c] = None
    BY <1>1 DEF CallInv, Arguments, OwnRows, OthersRows, PcsOf, Call
  <1>3. CASE Goto(c, "failed")
    BY <1>1, <1>3, FailStep
  <1>4. CASE row # None /\ Goto(c, "verify")
    BY <1>1, <1>2, <1>4, PassStep DEF NotInserted, PcsOf, Naming
  <1>5. CASE row # None /\ call' = [call EXCEPT ![c].pc = "save", ![c].seller = row]
    <2>1. row \in Sellers \cup {NoSeller}
      BY <1>1, <1>2, <1>5 DEF Existing
    <2>2. x \in Call /\ x.pc = "save" /\ x.kind = "settings" /\ x.store = call[c].store
      BY <1>1, <1>2, <2>1 DEF Call, PCs
    <2>3. call' = [call EXCEPT ![c] = x]
      BY <1>1, <1>5
    <2> HIDE DEF x
    <2>4. CallInv(c, x)
      BY <1>1, <1>2, <1>5, <2>2
      DEF CallInv, Arguments, OwnRows, OthersRows, PcsOf, Naming, NotInserted
    <2> QED
      BY <1>1, <1>2, <2>2, <2>3, <2>4, QuietStep
  <1> QED
    BY <1>3, <1>4, <1>5 DEF ReadSettings

LEMMA VerifyStep ==
    ASSUME StoresInv, NEW c \in Calls, VerifySeller(c) PROVE StoresInv'
  <1>1. /\ call[c] \in Call /\ call[c].pc = "verify" /\ CallInv(c, call[c])
        /\ UNCHANGED <<stores, creds, settings>>
    BY DEF StoresInv, TypeOK, CallsInv, VerifySeller, At
  <1>2. call[c].kind = "settings" /\ settings[call[c].store] # None
    BY <1>1 DEF CallInv, Arguments, OthersRows, PcsOf, Call
  <1>3. CASE Goto(c, "failed")
    BY <1>1, <1>3, FailStep
  <1>4. CASE Goto(c, "save")
    BY <1>1, <1>2, <1>4, PassStep DEF NotInserted, PcsOf, Naming
  <1> QED
    BY <1>3, <1>4 DEF VerifySeller

LEMMA SaveSettingsStep ==
    ASSUME StoresInv, NEW c \in Calls, SaveSettings(c) PROVE StoresInv'
  <1> DEFINE s == call[c].store
             x == [call[c] EXCEPT !.pc = "done", !.store = s]
  <1>1. /\ call[c] \in Call /\ call[c].pc = "save" /\ CallInv(c, call[c])
        /\ settings \in [Calls -> Sellers \cup {NoSeller, None}]
        /\ call \in [Calls -> Call] /\ stores' = stores /\ creds' = creds
        /\ call[c].kind = "settings"
    BY DEF StoresInv, TypeOK, CallsInv, SaveSettings, At
  <1>2. /\ s \in Calls /\ stores[s] # None /\ settings[s] # None /\ stores[c] = None
        /\ call[c].seller \in Sellers \cup {NoSeller}
    BY <1>1 DEF CallInv, OwnRows, OthersRows, Call, Existing
  <1>3. x \in Call /\ x.pc = "done" /\ x.store = s /\ x.kind = "settings"
    BY <1>1, <1>2 DEF Call, PCs
  <1>4. /\ call' \in [Calls -> Call] /\ call'[c] = x
        /\ \A d \in Calls : d # c => call'[d] = call[d]
    BY <1>1, <1>3 DEF SaveSettings, Return
  <1> HIDE DEF x
  <1>5. /\ settings' \in [Calls -> Sellers \cup {NoSeller, None}]
        /\ settings'[s] = call[c].seller
        /\ \A t \in Calls : t # s => settings'[t] = settings[t]
        /\ \A t \in Calls : settings'[t] = None <=> settings[t] = None
    BY <1>1, <1>2, NoneIsNoValue DEF SaveSettings
  <1>6. TypeOK'
    BY <1>1, <1>4, <1>5 DEF StoresInv, TypeOK
  <1>7. CallsInv'
    <2>1. \A d \in Calls : Arguments(call'[d])
      BY <1>1, <1>3, <1>4 DEF StoresInv, CallsInv, CallInv, Arguments, PcsOf, Naming
    <2>2. (\A d \in Calls : OwnRows(d, call[d]))'
      BY <1>1, <1>2, <1>3, <1>4, <1>5 DEF StoresInv, CallsInv, CallInv, OwnRows
    <2>3. (\A d \in Calls : OthersRows(call[d]))'
      <3>1. Existing' = Existing /\ s \in Existing
        BY <1>1, <1>2 DEF Existing
      <3>2. Existing \subseteq Calls
        BY DEF Existing
      <3> QED
        BY <3>1, <3>2, <1>1, <1>3, <1>4, <1>5
        DEF StoresInv, CallsInv, CallInv, OthersRows
    <2> QED BY <2>1, <2>2, <2>3 DEF CallsInv, CallInv
  <1>8. KeysHaveOwners'
    BY <1>1, <1>4, KeysKeepOwners DEF StoresInv
  <1>9. NamesAndSlugsAreUnique'
    BY <1>1 DEF StoresInv, NamesAndSlugsAreUnique, Existing
  <1>10. StoreIsSellers'
    <2> SUFFICES ASSUME NEW d \in Calls, call'[d].kind = "provision", call'[d].pc = "done"
                 PROVE  \/ settings'[call'[d].store] = call'[d].seller
                        \/ \E e \in Calls : call'[e].kind = "settings" /\ call'[e].pc = "done"
                                            /\ call'[e].store = call'[d].store
      BY DEF StoreIsSellers, At
    <2>1. d # c /\ call'[d] = call[d]
      BY <1>3, <1>4
    <2>2. CASE call[d].store = s
      BY <2>1, <2>2, <1>3, <1>4
    <2>3. CASE call[d].store # s
      <3>1. settings'[call[d].store] = settings[call[d].store]
        BY <2>3, <1>1 DEF SaveSettings
      <3>2. \A e \in Calls : call[e].pc = "done" => call'[e] = call[e]
        BY <1>1, <1>4
      <3> QED BY <2>1, <3>1, <3>2 DEF StoresInv, StoreIsSellers, At
    <2> QED BY <2>2, <2>3
  <1> QED BY <1>6, <1>7, <1>8, <1>9, <1>10 DEF StoresInv

LEMMA FindStep ==
    ASSUME StoresInv, NEW c \in Calls, FindStore(c) PROVE StoresInv'
  <1>1. /\ call[c] \in Call /\ call[c].pc = "find" /\ CallInv(c, call[c])
        /\ UNCHANGED <<stores, creds, settings>>
    BY DEF StoresInv, TypeOK, CallsInv, FindStore, At
  <1>2. call[c].kind = "slug" /\ call[c].slug \in Slugs \cup {NoSlug}
    BY <1>1 DEF CallInv, Arguments, PcsOf, Call
  <1>3. CASE Goto(c, "failed")
    BY <1>1, <1>3, FailStep
  <1>4. CASE call[c].slug # NoSlug /\ Goto(c, "slug")
    BY <1>1, <1>2, <1>4, PassStep DEF NotInserted, PcsOf, Naming
  <1> QED
    BY <1>3, <1>4 DEF FindStore

LEMMA SaveSlugStep ==
    ASSUME StoresInv, NEW c \in Calls, SaveSlug(c) PROVE StoresInv'
  <1> DEFINE s == call[c].store
             row == [stores[s] EXCEPT !.slug = call[c].slug]
             x == [call[c] EXCEPT !.pc = "done", !.store = s]
  <1>1. /\ call[c] \in Call /\ call[c].pc = "save" /\ CallInv(c, call[c])
        /\ stores \in [Calls -> Store \cup {None}] /\ call \in [Calls -> Call]
        /\ creds' = creds /\ settings' = settings /\ call[c].kind = "slug"
    BY DEF StoresInv, TypeOK, CallsInv, SaveSlug, At
  <1>2. /\ s \in Calls /\ stores[s] # None /\ stores[s] \in Store /\ stores[c] = None
        /\ call[c].slug \in Slugs
    BY <1>1 DEF CallInv, Arguments, OwnRows, OthersRows, Call, Existing
  <1>3. CASE UNCHANGED stores /\ Goto(c, "failed")
    BY <1>1, <1>3, FailStep
  <1>4. CASE CanSave(s, row) /\ stores' = [stores EXCEPT ![s] = row] /\ Return(c, s)
    <2>1. x \in Call /\ x.pc = "done" /\ x.store = s /\ x.kind = "slug"
      BY <1>1, <1>2 DEF Call, PCs
    <2>2. /\ call' \in [Calls -> Call] /\ call'[c] = x
          /\ \A d \in Calls : d # c => call'[d] = call[d]
      BY <1>1, <1>4, <2>1 DEF Return
    <2>3. row \in Store /\ row # None /\ row.name = stores[s].name
      BY <1>2, NoneIsNoValue DEF Store
    <2> HIDE DEF x, row
    <2>4. /\ stores' \in [Calls -> Store \cup {None}] /\ stores'[s] = row
          /\ \A t \in Calls : t # s => stores'[t] = stores[t]
          /\ \A t \in Calls : stores'[t] = None <=> stores[t] = None
      BY <1>1, <1>2, <1>4, <2>3
    <2>5. Existing' = Existing /\ s \in Existing
      BY <1>2, <2>4 DEF Existing
    <2> HIDE DEF s
    <2>6. TypeOK'
      BY <1>1, <2>2, <2>4 DEF StoresInv, TypeOK
    <2>7. CallsInv'
      <3>1. \A d \in Calls : Arguments(call'[d])
        BY <1>1, <2>1, <2>2 DEF StoresInv, CallsInv, CallInv, Arguments, PcsOf, Naming
      <3>2. (\A d \in Calls : OwnRows(d, call[d]))'
        BY <1>1, <1>2, <2>1, <2>2, <2>3, <2>4 DEF StoresInv, CallsInv, CallInv, OwnRows
      <3>3. (\A d \in Calls : OthersRows(call[d]))'
        BY <1>1, <2>1, <2>2, <2>5 DEF StoresInv, CallsInv, CallInv, OthersRows
      <3> QED BY <3>1, <3>2, <3>3 DEF CallsInv, CallInv
    <2>8. KeysHaveOwners'
      BY <1>1, <2>2, KeysKeepOwners DEF StoresInv
    <2>9. NamesAndSlugsAreUnique'
      BY <1>4, <2>4, <2>5 DEF StoresInv, NamesAndSlugsAreUnique, CanSave, NameIsFree, SlugIsFree, Existing
    <2>10. StoreIsSellers'
      BY <1>1, <2>1, <2>2, LinksAreKept DEF StoresInv
    <2> QED BY <2>6, <2>7, <2>8, <2>9, <2>10 DEF StoresInv
  <1> QED
    BY <1>3, <1>4 DEF SaveSlug

------------------------------------------------------------------------------
CallKinds == {"create", "provision", "rotate", "settings", "slug"}

\* A call as Begin leaves it.
Begun(k, kind, pc, s, n, slug, z) ==
    [k EXCEPT !.kind = kind, !.pc = pc, !.store = s, !.name = n, !.slug = slug, !.seller = z]

WellTyped(kind, pc, s, n, slug, z) ==
    /\ kind \in CallKinds /\ pc \in PCs /\ s \in Calls \cup {None}
    /\ n \in Names \cup {None} /\ slug \in Slugs \cup {NoSlug, None}
    /\ z \in Sellers \cup {NoSeller}

BegunIs(x, kind, pc, s, n, slug, z) ==
    /\ x \in Call /\ x.kind = kind /\ x.pc = pc /\ x.store = s /\ x.name = n
    /\ x.slug = slug /\ x.seller = z

LEMMA BegunIsCall ==
    ASSUME NEW k \in Call, NEW kind, NEW pc, NEW s, NEW n, NEW slug, NEW z,
           WellTyped(kind, pc, s, n, slug, z)
    PROVE  BegunIs(Begun(k, kind, pc, s, n, slug, z), kind, pc, s, n, slug, z)
  <1> DEFINE x == Begun(k, kind, pc, s, n, slug, z)
             fields == {"kind", "pc", "store", "name", "slug", "seller", "attempt"}
  <1>1. /\ k = [f \in fields |-> k[f]] /\ k.attempt \in 1 .. 2
        /\ DOMAIN k = fields
    BY DEF Call
  <1>2. /\ DOMAIN x = fields /\ x = [f \in fields |-> x[f]]
        /\ x.kind = kind /\ x.pc = pc /\ x.store = s /\ x.name = n
        /\ x.slug = slug /\ x.seller = z /\ x.attempt = k.attempt
    BY <1>1 DEF Begun
  <1> HIDE DEF x
  <1>3. x \in Call
    BY <1>1, <1>2 DEF Call, CallKinds, WellTyped
  <1>4. QED
    BY <1>2, <1>3 DEF BegunIs, x

LEMMA BeginDoes ==
    ASSUME StoresInv, NEW c \in Calls, NEW kind, NEW pc, NEW s, NEW n, NEW slug, NEW z,
           WellTyped(kind, pc, s, n, slug, z), Begin(c, kind, pc, s, n, slug, z)
    PROVE  /\ call[c].pc = "new" /\ UNCHANGED <<stores, creds, settings>>
           /\ \E x : /\ BegunIs(x, kind, pc, s, n, slug, z)
                     /\ call' = [call EXCEPT ![c] = x]
  <1> DEFINE x == Begun(call[c], kind, pc, s, n, slug, z)
  <1>1. /\ call[c] \in Call /\ call[c].pc = "new" /\ UNCHANGED <<stores, creds, settings>>
        /\ call' = [call EXCEPT ![c] = x]
    BY DEF StoresInv, TypeOK, Begin, At, Begun
  <1>2. BegunIs(x, kind, pc, s, n, slug, z)
    BY <1>1, BegunIsCall
  <1> HIDE DEF x
  <1>3. QED
    BY <1>1, <1>2

\* A call begins as one of the three kinds of state there are.
LEMMA BeginStep ==
    ASSUME StoresInv, NEW c \in Calls, call[c].pc = "new", NEW x \in Call,
           call' = [call EXCEPT ![c] = x], UNCHANGED <<stores, creds, settings>>,
           \/ /\ x.kind = "create" /\ x.pc = "name" /\ x.name \in Names
              /\ x.slug \in Slugs \cup {NoSlug}
           \/ x.kind = "provision" /\ x.pc = "lookup" /\ x.seller \in Sellers
           \/ /\ \/ x.kind = "rotate" /\ x.pc = "rotate"
                 \/ x.kind = "settings" /\ x.pc = "read"
                 \/ x.kind = "slug" /\ x.pc = "find" /\ x.slug \in Slugs \cup {NoSlug}
              /\ x.store \in Existing
    PROVE  StoresInv'
  <1>1. call[c] \in Call /\ CallInv(c, call[c]) /\ call \in [Calls -> Call]
    BY DEF StoresInv, TypeOK, CallsInv
  <1>2. stores[c] = None /\ call[c].kind = "create"
    BY <1>1 DEF CallInv, Arguments, OwnRows, PcsOf, NotInserted, Call
  <1>3. CallInv(c, x)
    BY <1>1, <1>2 DEF CallInv, Arguments, OwnRows, OthersRows, PcsOf, Naming
  <1>4. x.pc # "done"
    OBVIOUS
  <1> QED
    BY <1>1, <1>2, <1>3, <1>4, QuietStep

LEMMA StartStep == ASSUME StoresInv, NEW c \in Calls, Start(c) PROVE StoresInv'
  <1>1. \A s \in Existing : s \in Calls
    BY DEF Existing
  <1>2. ASSUME NEW n \in Names, NEW m \in Slugs \cup {NoSlug},
               NEW z \in Sellers \cup {NoSeller},
               Begin(c, "create", "name", None, n, m, z)
        PROVE  StoresInv'
    <2>1. WellTyped("create", "name", None, n, m, z)
      BY <1>1 DEF WellTyped, CallKinds, PCs
    <2>2. PICK x : /\ BegunIs(x, "create", "name", None, n, m, z)
                   /\ call' = [call EXCEPT ![c] = x]
      BY <1>2, <2>1, BeginDoes
    <2>3. call[c].pc = "new" /\ UNCHANGED <<stores, creds, settings>>
      BY <1>2, <2>1, BeginDoes
    <2>4. QED
      BY <2>2, <2>3, BeginStep DEF BegunIs
  <1>3. ASSUME NEW z \in Sellers,
               Begin(c, "provision", "lookup", None, None, None, z)
        PROVE  StoresInv'
    <2>1. WellTyped("provision", "lookup", None, None, None, z)
      BY <1>1 DEF WellTyped, CallKinds, PCs
    <2>2. PICK x : /\ BegunIs(x, "provision", "lookup", None, None, None, z)
                   /\ call' = [call EXCEPT ![c] = x]
      BY <1>3, <2>1, BeginDoes
    <2>3. call[c].pc = "new" /\ UNCHANGED <<stores, creds, settings>>
      BY <1>3, <2>1, BeginDoes
    <2>4. QED
      BY <2>2, <2>3, BeginStep DEF BegunIs
  <1>4. ASSUME NEW s \in Existing,
               Begin(c, "rotate", "rotate", s, None, None, NoSeller)
        PROVE  StoresInv'
    <2>1. WellTyped("rotate", "rotate", s, None, None, NoSeller)
      BY <1>1 DEF WellTyped, CallKinds, PCs
    <2>2. PICK x : /\ BegunIs(x, "rotate", "rotate", s, None, None, NoSeller)
                   /\ call' = [call EXCEPT ![c] = x]
      BY <1>4, <2>1, BeginDoes
    <2>3. call[c].pc = "new" /\ UNCHANGED <<stores, creds, settings>>
      BY <1>4, <2>1, BeginDoes
    <2>4. QED
      BY <2>2, <2>3, BeginStep DEF BegunIs
  <1>5. ASSUME NEW s \in Existing, NEW z \in Sellers \cup {NoSeller},
               Begin(c, "settings", "read", s, None, None, z)
        PROVE  StoresInv'
    <2>1. WellTyped("settings", "read", s, None, None, z)
      BY <1>1 DEF WellTyped, CallKinds, PCs
    <2>2. PICK x : /\ BegunIs(x, "settings", "read", s, None, None, z)
                   /\ call' = [call EXCEPT ![c] = x]
      BY <1>5, <2>1, BeginDoes
    <2>3. call[c].pc = "new" /\ UNCHANGED <<stores, creds, settings>>
      BY <1>5, <2>1, BeginDoes
    <2>4. QED
      BY <2>2, <2>3, BeginStep DEF BegunIs
  <1>6. ASSUME NEW s \in Existing, NEW m \in Slugs \cup {NoSlug},
               Begin(c, "slug", "find", s, None, m, NoSeller)
        PROVE  StoresInv'
    <2>1. WellTyped("slug", "find", s, None, m, NoSeller)
      BY <1>1 DEF WellTyped, CallKinds, PCs
    <2>2. PICK x : /\ BegunIs(x, "slug", "find", s, None, m, NoSeller)
                   /\ call' = [call EXCEPT ![c] = x]
      BY <1>6, <2>1, BeginDoes
    <2>3. call[c].pc = "new" /\ UNCHANGED <<stores, creds, settings>>
      BY <1>6, <2>1, BeginDoes
    <2>4. QED
      BY <2>2, <2>3, BeginStep DEF BegunIs
  <1> QED
    BY <1>2, <1>3, <1>4, <1>5, <1>6 DEF Start

LEMMA NextStores == StoresInv /\ [Next]_vars => StoresInv'
  <1> SUFFICES ASSUME StoresInv, [Next]_vars PROVE StoresInv'
    OBVIOUS
  <1>1. ASSUME NEW c \in Calls, Start(c) PROVE StoresInv'
    BY <1>1, StartStep
  <1>2. ASSUME NEW c \in Calls, Step(c) PROVE StoresInv'
    BY <1>2, NameStep, SlugStep, SellerStep, InsertStoreStep, SaveCredsStep,
       InsertSettingsStep, ProvisionStep, RotateStep, RevokeStep, ReadStep, VerifyStep,
       SaveSettingsStep, FindStep, SaveSlugStep
    DEF Step
  <1>3. ASSUME NEW c \in Calls, Die(c) PROVE StoresInv'
    BY <1>3, FailStep DEF Die
  <1>4. CASE UNCHANGED vars
    <2>1. TypeOK' /\ NamesAndSlugsAreUnique'
      BY <1>4 DEF vars, StoresInv, TypeOK, NamesAndSlugsAreUnique, Existing
    <2>2. CallsInv'
      BY <1>4 DEF vars, StoresInv, CallsInv, CallInv, Arguments, OwnRows, OthersRows,
                  Existing
    <2>3. KeysHaveOwners' /\ StoreIsSellers'
      BY <1>4, KeysKeepOwners, LinksAreKept DEF vars, StoresInv
    <2> QED BY <2>1, <2>2, <2>3 DEF StoresInv
  <1> QED
    BY <1>1, <1>2, <1>3, <1>4 DEF Next

------------------------------------------------------------------------------
\* The rows and the calls keep their types: no call saves a row it has not read
\* whole, or a value it has not checked.
THEOREM StoresTypeCorrect == Spec => []TypeOK
  <1>1. StoresInv => TypeOK
    BY DEF StoresInv
  <1> QED BY <1>1, InitStores, NextStores, PTL DEF Spec

\* However many requests race to provision a seller, and wherever they die, no more
\* than two stores are ever made for it.
THEOREM SellersHaveTwoStores == Spec => []TwoStoresPerSeller
  <1>1. StoresInv => TwoStoresPerSeller
    <2> SUFFICES ASSUME StoresInv, NEW seller \in Sellers,
                        NEW s \in ProvisionedFor(seller), NEW t \in ProvisionedFor(seller),
                        NEW u \in ProvisionedFor(seller)
                 PROVE  s = t \/ t = u \/ s = u
      BY DEF TwoStoresPerSeller
    <2>1. ASSUME NEW v \in ProvisionedFor(seller)
          PROVE  v \in Existing /\ stores[v].name \in NamesFor(seller)
      BY <2>1 DEF ProvisionedFor, Existing, StoresInv, CallsInv, CallInv, OwnRows
    <2>2. \A v, w \in Existing : stores[v].name = stores[w].name => v = w
      BY DEF StoresInv, NamesAndSlugsAreUnique
    <2> QED BY <2>1, <2>2 DEF NamesFor
  <1> QED BY <1>1, InitStores, NextStores, PTL DEF Spec

\* A provisioning call returns a store that is linked to its seller, and that stays so
\* until the panel links the store to another.
THEOREM ProvisionedStoreIsSellers == Spec => []StoreIsSellers
  <1>1. StoresInv => StoreIsSellers
    BY DEF StoresInv
  <1> QED BY <1>1, InitStores, NextStores, PTL DEF Spec

\* Rotations may overlap in any way: when none is under way, a key that was handed out
\* resolves the store.
THEOREM ShopIsNotLockedOut == Spec => []AKeyResolves
  <1>1. StoresInv => AKeyResolves
    <2> SUFFICES ASSUME StoresInv, NEW s \in Existing, KeysAreSettled(s)
                 PROVE  \E c \in Calls : call[c].store = s /\ At(c, "done") /\ Resolves(c, s)
      BY DEF AKeyResolves
    <2>1. s \in Calls /\ call[s].kind = "create" /\ call[s].pc = "done"
      BY DEF KeysAreSettled, At, Existing
    <2>2. call[s].store = s /\ creds[s] # <<>> /\ settings[s] # None
      BY <2>1 DEF StoresInv, CallsInv, CallInv, OwnRows
    <2>3. /\ creds[s] \in Seq(Cred) /\ Len(creds[s]) \in 1 .. Len(creds[s])
      BY <2>1, <2>2 DEF StoresInv, TypeOK
    <2> DEFINE c == creds[s][Len(creds[s])].key
    <2>4. c \in Calls
      BY <2>1, <2>3, KeysAreCalls DEF StoresInv
    <2>5. call[c].store = s /\ At(c, "done")
      <3>1. c = s \/ (call[c].kind = "rotate" /\ call[c].store = s)
        BY <2>1, <2>3 DEF StoresInv, KeysHaveOwners
      <3> QED BY <3>1, <2>1, <2>2, <2>4 DEF KeysAreSettled, At
    <2>6. Resolves(c, s)
      BY <2>2 DEF Resolves, Considered, Last
    <2> QED BY <2>4, <2>5, <2>6
  <1> QED BY <1>1, InitStores, NextStores, PTL DEF Spec

==============================================================================
