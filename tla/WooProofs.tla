------------------------------- MODULE WooProofs -------------------------------
(***************************************************************************)
(* Theorems about the gateway for WooCommerce, for any number of requests, *)
(* sellers and orders, any fault and any behaviour of Zoop and the buyers: *)
(* an order of a linked store is charged once, under its seller's store,   *)
(* and what the plugin is told stays true.                                 *)
(***************************************************************************)
EXTENDS WooGateway, TLAPS

\* The theorems about the stores service, for the calls of this module.
Shop == INSTANCE StoresProofs WITH Calls <- Woo!Calls, Kinds <- Woo!Kinds

\* Where a request is before it has made its payment, and while it works on it.
NotCreated == {"unsent", "find", "insert", "lookup", "create"}

Working == {"evaluate", "move", "charge", "record", "recordFailure", "instrument", "save"}

\* Requests provision, and nobody else calls the stores service.
OnlyProvisioning ==
    \A c \in Woo!Calls :
        /\ call[c].kind \in {"create", "provision"}
        /\ call[c].kind = "create" => call[c].pc \in {"new", "done"}

\* The call of a request is for its seller, and over once the request has a store.
ProvisionOf(r) ==
    /\ woo[r].pc # "unsent" => call[r].kind = "provision" /\ call[r].seller = Woo!SellerOf(r)
    /\ woo[r].pc # "unsent" /\ call[r].pc = "done" => call[r].store \in Woo!Calls
    /\ woo[r].pc \notin {"unsent", "find"} => call[r].pc = "done"

\* A seller the panel linked a store to never gets another one.
OldStoreOf(r) ==
    stores[OldStore] # None =>
        /\ settings[r] # settings[OldStore]
        /\ woo[r].pc # "unsent" /\ Woo!SellerOf(r) = settings[OldStore] =>
               /\ call[r].pc \in {"lookup", "done", "failed"}
               /\ call[r].pc = "done" => call[r].store = OldStore

\* A payment has the store and the order of the request that made it, and leaves no
\* trace anywhere before it exists.
RowOf(p) ==
    /\ woo[p].pc \in NotCreated => p \notin DOMAIN payments
    /\ woo[p].pc \in Working => p \in DOMAIN payments
    /\ p \in DOMAIN payments =>
           /\ payments[p].store = Woo!StoreOf(p) /\ payments[p].ref = Woo!RefOf(p)
           /\ payments[p].status \in Entered(p)
    /\ p \notin DOMAIN payments => zoop[p] = <<>> /\ charges[p] = <<>>

\* At most one charge, asked once, recorded once.
ChargeOf(p) ==
    /\ Len(zoop[p]) <= 1
    /\ woo[p].pc \in {"evaluate", "charge"} => zoop[p] = <<>> /\ charges[p] = <<>>
    /\ woo[p].pc = "move" /\ woo[p].to = "approved_risk" =>
           zoop[p] = <<>> /\ charges[p] = <<>>
    /\ woo[p].pc \in {"record", "recordFailure"} => charges[p] = <<>>

------------------------------------------------------------------------------
(***************************************************************************)
(* Evidence and answers.                                                   *)
(***************************************************************************)

\* The buyer's money was taken; nothing was charged, or in vain.
Taken(p) == zoop[p] # <<>> /\ zoop[p][1].status \in {"succeeded", "charged_back"}
NotCharged(p) == zoop[p] # <<>> => zoop[p][1].status = "failed"

\* Its charge row says that createCharge threw.
Marked(p) == charges[p] # <<>> /\ charges[p][1].providerId = NoProviderId

Refusing(p) ==
    \/ p \in DOMAIN payments /\ payments[p].status = "refused"
    \/ woo[p].pc = "move" /\ woo[p].to = "refused"

EvidenceOf(p) ==
    /\ p \in DOMAIN payments /\ payments[p].status = "captured" => Taken(p)
    /\ woo[p].pc = "charge" => payments[p].status = "approved_risk"
    /\ Refusing(p) => Marked(p) \/ NotCharged(p)
    /\ woo[p].pc = "record" =>
           /\ woo[p].answer.status = "failed" => NotCharged(p)
           /\ woo[p].answer.status = "captured" => Woo!Faked(p) \/ Taken(p)
    /\ (woo[p].pc = "record" /\ woo[p].answer.code) \/ woo[p].pc = "instrument" =>
           woo[p].answer.status = "waiting_payment" /\ Woo!MethodOf(p) # "credit_card"

\* A webhook tells what happened, however late it comes.
HookOf(h) ==
    /\ zoop[h.ref] # <<>>
    /\ h.type \in {"transaction.paid", "transaction.succeeded"} => Taken(h.ref)
    /\ h.type = "transaction.failed" => zoop[h.ref][1].status = "failed"

\* An answer is true of a payment.
Fits(resp, p) ==
    /\ resp.status = "error" => payments[p].status = "refused"
    /\ resp.status = "captured" => Woo!Faked(p) \/ Taken(p)
    /\ resp.code => payments[p].instrument # "none"
    /\ resp.status \in {"created", "approved_risk", "authorized", "under_review", "refused"}
           => resp.status \in Entered(p)

\* The answer a handler will give is true once its transition is made.
Planned(r) ==
    LET to == woo[r].to  resp == woo[r].resp IN
    \/ to = "approved_risk"
    \/ to = "refused" /\ resp = Woo!Say("error")
    \/ to = "under_review" /\ resp = Woo!Say("under_review")
    \/ /\ to = "authorized" /\ resp \in Woo!Responses /\ ~resp.code
       /\ resp.status \in Woo!Ledger!ChargeStatuses
       /\ resp.status = "captured" => Woo!Faked(r) \/ Taken(r)
    \/ /\ to = "waiting_payment" /\ resp = [status |-> "waiting_payment", code |-> TRUE]
       /\ payments[r].instrument # "none"

AnswerOf(r) ==
    /\ woo[r].pc = "move" => Planned(r)
    /\ woo[r].pc = "save" => woo[r].resp \in Woo!Responses /\ Fits(woo[r].resp, r)
    /\ woo[r].pc = "done" =>
           /\ woo[r].resp \in Woo!Responses
           /\ \E p \in Woo!PaymentsOfAttempt(r) : Fits(woo[r].resp, p)

\* A stored response is true of the payment of its order.
KeyFits(k) ==
    keys[k].response # NoResponse =>
        \E p \in DOMAIN payments : /\ payments[p].store = k[1] /\ payments[p].ref = k[2]
                                   /\ Fits(keys[k].response, p)

RequestOf(r) ==
    /\ ProvisionOf(r) /\ OldStoreOf(r)
    /\ RowOf(r) /\ ChargeOf(r) /\ EvidenceOf(r) /\ AnswerOf(r)

WooInv ==
    /\ TypeOK
    /\ Shop!StoresInv
    /\ OnlyProvisioning
    /\ \A r \in Requests : RequestOf(r)
    /\ \A h \in hooks : HookOf(h)
    /\ \A k \in DOMAIN keys : KeyFits(k)
    /\ Woo!Ledger!OnePaymentPerOrder

------------------------------------------------------------------------------
(***************************************************************************)
(* The components of this module and those of the theorems it uses are the *)
(* same.                                                                   *)
(***************************************************************************)
LEMMA HooksLedger ==
    /\ \A p, s, to : Hooks!Ledger!Transition(p, s, to) => Woo!Ledger!Transition(p, s, to)
    /\ Woo!Provider!Hook = Hooks!Provider!Hook
  <1>1. \A f, t : Hooks!Ledger!CanTransition(f, t) <=> Woo!Ledger!CanTransition(f, t)
    BY DEF Hooks!Ledger!CanTransition, Woo!Ledger!CanTransition,
           Hooks!Ledger!AllowedTransitions, Woo!Ledger!AllowedTransitions,
           Hooks!Ledger!Statuses, Woo!Ledger!Statuses
  <1>2. \A p, s, to : Hooks!Ledger!Transition(p, s, to) => Woo!Ledger!Transition(p, s, to)
    BY <1>1 DEF Hooks!Ledger!Transition, Woo!Ledger!Transition, Hooks!Ledger!CanMove,
                Woo!Ledger!CanMove, Hooks!Ledger!EventOf, Woo!Ledger!EventOf,
                Hooks!Ledger!InScope, Woo!Ledger!InScope, Hooks!Ledger!Exists,
                Woo!Ledger!Exists
  <1>3. Woo!Provider!Hook = Hooks!Provider!Hook
    BY DEF Woo!Provider!Hook, Hooks!Provider!Hook, Woo!Provider!HookTypes,
           Hooks!Provider!HookTypes, Woo!PaymentIds
  <1>4. QED
    BY <1>2, <1>3

LEMMA ShopStep ==
    ASSUME NEW c \in Woo!Calls, Woo!Shops!Step(c) \/ Woo!Shops!Die(c)
    PROVE  Shop!Step(c) \/ Shop!Die(c)
  <1>1. \A d, pc : /\ Woo!Shops!At(d, pc) <=> Shop!At(d, pc)
                   /\ Woo!Shops!Goto(d, pc) <=> Shop!Goto(d, pc)
                   /\ Woo!Shops!Return(d, pc) <=> Shop!Return(d, pc)
    BY DEF Woo!Shops!At, Shop!At, Woo!Shops!Goto, Shop!Goto, Woo!Shops!Return, Shop!Return
  <1>2. Woo!Shops!Existing = Shop!Existing
    BY DEF Woo!Shops!Existing, Shop!Existing
  <1>3. \A d : Woo!Shops!Conflict(d) <=> Shop!Conflict(d)
    BY DEF Woo!Shops!Conflict, Shop!Conflict, Woo!Shops!Goto, Shop!Goto
  <1>4. \A s, row : Woo!Shops!CanSave(s, row) <=> Shop!CanSave(s, row)
    BY <1>2 DEF Woo!Shops!CanSave, Shop!CanSave, Woo!Shops!NameIsFree, Shop!NameIsFree,
                Woo!Shops!SlugIsFree, Shop!SlugIsFree
  <1>5. \A d, n, a : Woo!Shops!TryName(d, n, a) <=> Shop!TryName(d, n, a)
    BY DEF Woo!Shops!TryName, Shop!TryName
  <1>6. \A z : Woo!Shops!LinkedTo(z) = Shop!LinkedTo(z)
    BY <1>2 DEF Woo!Shops!LinkedTo, Shop!LinkedTo
  <1>7. CASE Woo!Shops!AssertNameAvailable(c)
    BY <1>1, <1>2, <1>3, <1>7
    DEF Woo!Shops!AssertNameAvailable, Shop!AssertNameAvailable, Shop!Step
  <1>8. CASE Woo!Shops!AssertSlugAvailable(c)
    BY <1>2, <1>3, <1>8
    DEF Woo!Shops!AssertSlugAvailable, Shop!AssertSlugAvailable, Shop!Step,
        Woo!Shops!At, Shop!At, Woo!Shops!Goto, Shop!Goto
  <1>9. CASE Woo!Shops!AssertSellerExists(c)
    BY <1>9 DEF Woo!Shops!AssertSellerExists, Shop!AssertSellerExists, Shop!Step,
                Woo!Shops!At, Shop!At, Woo!Shops!Goto, Shop!Goto
  <1>10. CASE Woo!Shops!InsertStore(c)
    BY <1>4, <1>10 DEF Woo!Shops!InsertStore, Shop!InsertStore, Shop!Step,
                Woo!Shops!At, Shop!At, Woo!Shops!Goto, Shop!Goto
  <1>11. CASE Woo!Shops!SaveCreds(c)
    BY <1>1, <1>11 DEF Woo!Shops!SaveCreds, Shop!SaveCreds, Shop!Step,
                Woo!Shops!InsertCreds, Shop!InsertCreds
  <1>12. CASE Woo!Shops!InsertSettings(c)
    BY <1>1, <1>12 DEF Woo!Shops!InsertSettings, Shop!InsertSettings, Shop!Step
  <1>13. CASE Woo!Shops!LookUp(c)
    BY <1>1, <1>6, <1>13 DEF Woo!Shops!LookUp, Shop!LookUp, Shop!Step
  <1>14. CASE Woo!Shops!GetSeller(c)
    BY <1>1, <1>5, <1>14 DEF Woo!Shops!GetSeller, Shop!GetSeller, Shop!Step
  <1>15. CASE Woo!Shops!Recheck(c)
    BY <1>1, <1>5, <1>6, <1>15 DEF Woo!Shops!Recheck, Shop!Recheck, Shop!Step,
       Woo!Shops!Raced, Shop!Raced, Woo!Shops!LastAttempt, Shop!LastAttempt
  <1>16. CASE Woo!Shops!Rotate(c) \/ Woo!Shops!RevokeOthers(c)
    BY <1>1, <1>16 DEF Woo!Shops!Rotate, Shop!Rotate, Woo!Shops!RevokeOthers,
       Shop!RevokeOthers, Shop!Step, Woo!Shops!InsertCreds, Shop!InsertCreds,
       Woo!Shops!Revoked, Shop!Revoked
  <1>17. CASE Woo!Shops!ReadSettings(c) \/ Woo!Shops!VerifySeller(c)
    BY <1>17 DEF Woo!Shops!ReadSettings, Shop!ReadSettings, Woo!Shops!VerifySeller,
       Shop!VerifySeller, Shop!Step, Woo!Shops!At, Shop!At, Woo!Shops!Goto, Shop!Goto
  <1>18. CASE Woo!Shops!SaveSettings(c) \/ Woo!Shops!FindStore(c) \/ Woo!Shops!SaveSlug(c)
    BY <1>1, <1>2, <1>3, <1>4, <1>18
    DEF Woo!Shops!SaveSettings, Shop!SaveSettings, Woo!Shops!FindStore, Shop!FindStore,
        Woo!Shops!SaveSlug, Shop!SaveSlug, Shop!Step
  <1>19. CASE Woo!Shops!Die(c)
    BY <1>1, <1>19 DEF Woo!Shops!Die, Shop!Die, Woo!Shops!At, Shop!At, Woo!Shops!Goto,
       Shop!Goto
  <1>20. QED
    BY <1>7, <1>8, <1>9, <1>10, <1>11, <1>12, <1>13, <1>14, <1>15, <1>16, <1>17, <1>18,
       <1>19 DEF Woo!Shops!Step

\* What StoresProofs proves of a step.
LEMMA ShopsStay ==
    ASSUME Shop!StoresInv,
           \/ UNCHANGED shopVars
           \/ \E c \in Woo!Calls : Woo!Shops!Step(c) \/ Woo!Shops!Die(c)
    PROVE  Shop!StoresInv'
  <1>1. [Shop!Next]_Shop!vars
    BY ShopStep DEF Shop!Next, Shop!vars, shopVars
  <1>2. /\ None \notin Woo!Calls /\ None \notin Shop!Store
        /\ None \notin Sellers \cup {NoSeller}
    BY ShopConstants DEF Woo!Shops!Store, Shop!Store
  <1>3. QED
    BY <1>1, <1>2, ShopConstants, Shop!NextStores

------------------------------------------------------------------------------
(***************************************************************************)
(* Provisioning.                                                           *)
(***************************************************************************)
LEMMA ShopTypes ==
    ASSUME Shop!StoresInv
    PROVE  /\ call \in [Woo!Calls -> Shop!Call] /\ stores \in [Woo!Calls -> Shop!Store \cup {None}]
           /\ settings \in [Woo!Calls -> Sellers \cup {NoSeller, None}]
  BY DEF Shop!StoresInv, Shop!TypeOK

\* What a step of the provisioning of r does that the payments can notice.
Provisioned(r) ==
    /\ \A c \in Woo!Calls \ {r} :
           call'[c] = call[c] /\ settings'[c] = settings[c] /\ stores'[c] = stores[c]
    /\ call'[r].kind = "provision" /\ call'[r].seller = call[r].seller
    /\ settings'[r] = settings[r] \/ (call[r].pc = "settings" /\ settings'[r] = call[r].seller)
    /\ call[r].pc \notin {"done", "failed"}
    /\ call'[r].pc = "done" => call'[r].store \in Woo!Calls
    /\ call[r].pc = "lookup" /\ call[r].seller # NoSeller =>
           /\ Shop!LinkedTo(call[r].seller) # {} => call'[r].pc \in {"done", "failed"}
           /\ call'[r].pc = "done" => call'[r].store \in Shop!LinkedTo(call[r].seller)

LEMMA ProvisionDoes ==
    ASSUME Shop!StoresInv, NEW r \in Requests, call[r].kind = "provision",
           Woo!Shops!Step(r) \/ Woo!Shops!Die(r)
    PROVE  Provisioned(r)
  <1>1. /\ r \in Woo!Calls /\ call[r] \in Shop!Call
        /\ call[r].pc \in Shop!PcsOf("provision")
    BY ShopTypes DEF Woo!Calls, Shop!StoresInv, Shop!CallsInv, Shop!CallInv, Shop!Arguments
  <1>2. Shop!Step(r) \/ Shop!Die(r)
    BY <1>1, ShopStep
  <1>3. ASSUME NEW pc, Shop!Goto(r, pc), UNCHANGED <<stores, settings>>,
               call[r].pc \notin {"done", "failed"},
               call[r].pc = "lookup" => pc = "failed" \/ Shop!LinkedTo(call[r].seller) = {},
               pc # "done"
        PROVE  Provisioned(r)
    BY <1>1, <1>3, ShopTypes DEF Shop!Goto, Provisioned, Shop!Call
  <1>4. ASSUME NEW s, Shop!Return(r, s), UNCHANGED <<stores, settings>>,
               call[r].pc \in {"lookup", "recheck"}, s \in Shop!LinkedTo(call[r].seller)
        PROVE  Provisioned(r)
    BY <1>1, <1>4, ShopTypes DEF Shop!Return, Provisioned, Shop!Call, Shop!LinkedTo,
       Shop!Existing
  <1>5. ASSUME NEW n, NEW a, Shop!TryName(r, n, a), UNCHANGED <<stores, settings>>,
               call[r].pc \in {"getSeller", "recheck"}
        PROVE  Provisioned(r)
    BY <1>1, <1>5, ShopTypes DEF Shop!TryName, Provisioned, Shop!Call
  <1>6. CASE Shop!AssertNameAvailable(r) \/ Shop!AssertSlugAvailable(r)
    BY <1>3, <1>6 DEF Shop!AssertNameAvailable, Shop!AssertSlugAvailable, Shop!Conflict,
                      Shop!At
  <1>7. CASE Shop!AssertSellerExists(r) \/ Shop!SaveCreds(r) \/ Shop!Die(r)
    BY <1>1, <1>3, <1>7 DEF Shop!AssertSellerExists, Shop!SaveCreds, Shop!Die, Shop!At
  <1>8. CASE Shop!InsertStore(r)
    BY <1>1, <1>3, <1>8, ShopTypes
    DEF Shop!InsertStore, Shop!At, Provisioned, Shop!Call
  <1>9. CASE Shop!InsertSettings(r)
    BY <1>1, <1>9, ShopTypes
    DEF Shop!InsertSettings, Shop!At, Provisioned, Shop!Call, Shop!Return
  <1>10. CASE Shop!LookUp(r)
    BY <1>3, <1>4, <1>10 DEF Shop!LookUp, Shop!At
  <1>11. CASE Shop!GetSeller(r)
    BY <1>3, <1>5, <1>11 DEF Shop!GetSeller, Shop!At
  <1>12. CASE Shop!Recheck(r)
    BY <1>3, <1>4, <1>5, <1>12 DEF Shop!Recheck, Shop!At, Shop!Raced
  <1>13. ~(\/ Shop!Rotate(r) \/ Shop!RevokeOthers(r) \/ Shop!ReadSettings(r)
           \/ Shop!VerifySeller(r) \/ Shop!SaveSettings(r) \/ Shop!FindStore(r)
           \/ Shop!SaveSlug(r))
    BY <1>1 DEF Shop!PcsOf, Shop!Rotate, Shop!RevokeOthers, Shop!ReadSettings,
                Shop!VerifySeller, Shop!SaveSettings, Shop!FindStore, Shop!SaveSlug, Shop!At
  <1>14. QED
    BY <1>2, <1>6, <1>7, <1>8, <1>9, <1>10, <1>11, <1>12, <1>13 DEF Shop!Step

------------------------------------------------------------------------------
(***************************************************************************)
(* What a step leaves true of the payments, and of the requests that do    *)
(* not move.                                                               *)
(***************************************************************************)

\* What a payment has been through stays true of it.
Keeps(p) ==
    /\ p \in DOMAIN payments =>
           /\ p \in DOMAIN payments'
           /\ payments'[p].store = payments[p].store /\ payments'[p].ref = payments[p].ref
           /\ payments[p].status = "refused" => payments'[p].status = "refused"
           /\ payments[p].instrument # "none" => payments'[p].instrument # "none"
    /\ \A s : s \in Entered(p) => s \in Entered(p)'
    /\ zoop[p] # <<>> => zoop'[p] # <<>>
    /\ Taken(p) => Taken(p)'
    /\ zoop[p] # <<>> /\ zoop[p][1].status = "failed" => zoop'[p][1].status = "failed"
    /\ woo'[p].body = woo[p].body

\* Nothing that is r's changes.
Rests(r) ==
    /\ woo'[r] = woo[r] /\ call'[r] = call[r] /\ settings'[r] = settings[r]
    /\ zoop'[r] = zoop[r] /\ charges'[r] = charges[r] /\ events'[r] = events[r]
    /\ r \in DOMAIN payments' <=> r \in DOMAIN payments
    /\ r \in DOMAIN payments => payments'[r] = payments[r]

OldStoreRests == stores'[OldStore] = stores[OldStore] /\ settings'[OldStore] = settings[OldStore]

LEMMA RestsKeeps == ASSUME NEW r \in Requests, Rests(r) PROVE Keeps(r)
  BY DEF Rests, Keeps, Entered, Taken

LEMMA FitsStays ==
    ASSUME NEW p \in DOMAIN payments, NEW x, Keeps(p), Fits(x, p)
    PROVE  Fits(x, p)'
  BY DEF Keeps, Fits, Woo!Faked, Woo!SellerOf

LEMMA HookStays ==
    ASSUME NEW h, Keeps(h.ref), HookOf(h)
    PROVE  HookOf(h)'
  BY DEF Keeps, HookOf, Taken

LEMMA KeyStays ==
    ASSUME DOMAIN payments \subseteq Requests, \A p \in Requests : Keeps(p),
           NEW k, keys'[k] = keys[k], KeyFits(k)
    PROVE  KeyFits(k)'
  <1> SUFFICES ASSUME keys[k].response # NoResponse
               PROVE  KeyFits(k)'
    BY DEF KeyFits
  <1>1. PICK x : x = keys[k].response
    OBVIOUS
  <1>2. PICK p \in DOMAIN payments : /\ payments[p].store = k[1] /\ payments[p].ref = k[2]
                                     /\ Fits(x, p)
    BY <1>1 DEF KeyFits
  <1>3. p \in DOMAIN payments' /\ payments'[p].store = k[1] /\ payments'[p].ref = k[2]
    BY <1>2 DEF Keeps
  <1>4. Fits(x, p)'
    BY <1>2, FitsStays
  <1>5. QED
    BY <1>1, <1>3, <1>4 DEF KeyFits

\* What a request answers, or is about to, stays true.
LEMMA AnswerStays ==
    ASSUME WooInv, \A p \in Requests : Keeps(p),
           NEW r \in Requests, woo'[r] = woo[r], call'[r] = call[r]
    PROVE  AnswerOf(r)'
  <1>1. RowOf(r) /\ AnswerOf(r) /\ DOMAIN payments \subseteq Requests
    BY DEF WooInv, RequestOf, TypeOK, Woo!Ledger!TypeOK, Woo!PaymentIds
  <1>2. CASE woo[r].pc = "move"
    <2>1. r \in DOMAIN payments /\ Planned(r) /\ Keeps(r)
      BY <1>1, <1>2 DEF AnswerOf, RowOf, Working
    <2>2. Planned(r)'
      BY <2>1 DEF Planned, Keeps, Woo!Faked, Woo!SellerOf, Woo!Say
    <2>3. QED
      BY <1>2, <2>2 DEF AnswerOf
  <1>3. CASE woo[r].pc = "save"
    <2>1. PICK x : x = woo[r].resp
      OBVIOUS
    <2>2. x \in Woo!Responses /\ Fits(x, r) /\ r \in DOMAIN payments
      BY <1>1, <1>3, <2>1 DEF AnswerOf, RowOf, Working
    <2>3. Fits(x, r)' /\ woo'[r].pc = "save" /\ woo'[r].resp = x
      BY <1>3, <2>1, <2>2, FitsStays
    <2>4. QED
      BY <2>2, <2>3 DEF AnswerOf
  <1>4. CASE woo[r].pc = "done"
    <2>1. PICK x : x = woo[r].resp
      OBVIOUS
    <2>2. x \in Woo!Responses /\ \E p \in Woo!PaymentsOfAttempt(r) : Fits(x, p)
      BY <1>1, <1>4, <2>1 DEF AnswerOf
    <2>3. PICK p \in DOMAIN payments :
              /\ payments[p].store = Woo!StoreOf(r) /\ payments[p].ref = Woo!RefOf(r)
              /\ Fits(x, p)
      BY <2>2 DEF Woo!PaymentsOfAttempt, Woo!Ledger!FindByExternalRef
    <2>4. Fits(x, p)'
      BY <1>1, <2>3, FitsStays
    <2>5. (p \in Woo!PaymentsOfAttempt(r))'
      BY <1>1, <2>3 DEF Keeps, Woo!PaymentsOfAttempt, Woo!Ledger!FindByExternalRef,
         Woo!StoreOf, Woo!RefOf, Woo!SellerOf
    <2>6. QED
      BY <1>4, <2>1, <2>2, <2>4, <2>5 DEF AnswerOf
  <1>5. CASE woo[r].pc \notin {"move", "save", "done"}
    BY <1>5 DEF AnswerOf
  <1>6. QED
    BY <1>2, <1>3, <1>4, <1>5

\* A request nothing happens to.
LEMMA RestingRequest ==
    ASSUME WooInv, \A p \in Requests : Keeps(p), OldStoreRests,
           NEW r \in Requests, Rests(r)
    PROVE  RequestOf(r)'
  <1>1. ProvisionOf(r) /\ OldStoreOf(r) /\ RowOf(r) /\ ChargeOf(r) /\ EvidenceOf(r)
    BY DEF WooInv, RequestOf
  <1>2. ProvisionOf(r)' /\ OldStoreOf(r)'
    BY <1>1 DEF Rests, OldStoreRests, ProvisionOf, OldStoreOf, Woo!SellerOf
  <1>3. RowOf(r)' /\ ChargeOf(r)'
    BY <1>1 DEF Rests, RowOf, ChargeOf, Woo!StoreOf, Woo!RefOf, Woo!SellerOf, Entered
  <1>4. EvidenceOf(r)'
    BY <1>1 DEF Rests, EvidenceOf, RowOf, Working, Refusing, Marked, NotCharged, Taken,
                Woo!Faked, Woo!SellerOf, Woo!MethodOf
  <1>5. AnswerOf(r)'
    BY AnswerStays DEF Rests
  <1>6. QED
    BY <1>2, <1>3, <1>4, <1>5 DEF RequestOf

------------------------------------------------------------------------------
(***************************************************************************)
(* Steps of a request.                                                     *)
(***************************************************************************)
LEMMA RequestTypes ==
    ASSUME Woo!TypeOK, NEW r \in Requests
    PROVE  /\ woo[r] \in Woo!RequestState /\ woo[r].body \in Woo!Body
           /\ Woo!SellerOf(r) \in Sellers /\ Woo!RefOf(r) \in Woo!Refs
           /\ Woo!MethodOf(r) \in {"credit_card", "pix", "boleto"}
  BY DEF Woo!TypeOK, Woo!RequestState, Woo!Body, Woo!SellerOf, Woo!RefOf, Woo!MethodOf,
         Woo!Refs

\* Only r moves, to w, and it asks what it asked.
Becomes(r, w) ==
    /\ woo'[r] = w /\ w.body = woo[r].body
    /\ \A q \in Requests \ {r} : woo'[q] = woo[q]

LEMMA BecomesTyped ==
    ASSUME Woo!TypeOK, NEW r \in Requests, NEW w \in Woo!RequestState,
           woo' = [woo EXCEPT ![r] = w], w.body = woo[r].body
    PROVE  Woo!TypeOK' /\ Becomes(r, w)
  BY DEF Woo!TypeOK, Becomes

LEMMA GotoDoes ==
    ASSUME Woo!TypeOK, NEW r \in Requests,
           NEW pc \in {"insert", "lookup", "create", "charge", "recordFailure", "evaluate",
                       "instrument", "save", "done", "failed"}, Woo!Goto(r, pc)
    PROVE  Woo!TypeOK' /\ Becomes(r, [woo[r] EXCEPT !.pc = pc])
  <1> DEFINE w == [woo[r] EXCEPT !.pc = pc]
  <1>1. w \in Woo!RequestState /\ w.body = woo[r].body
    BY RequestTypes DEF Woo!RequestState
  <1>2. woo' = [woo EXCEPT ![r] = w]
    BY DEF Woo!Goto, Woo!TypeOK
  <1> HIDE DEF w
  <1>3. Woo!TypeOK' /\ Becomes(r, w)
    BY <1>1, <1>2, BecomesTyped
  <1>4. QED
    BY <1>3 DEF w

LEMMA AnswerDoes ==
    ASSUME Woo!TypeOK, NEW r \in Requests, NEW x \in Woo!Responses, Woo!Answer(r, x)
    PROVE  Woo!TypeOK' /\ Becomes(r, [woo[r] EXCEPT !.pc = "done", !.resp = x])
  <1> DEFINE w == [woo[r] EXCEPT !.pc = "done", !.resp = x]
  <1>1. w \in Woo!RequestState /\ w.body = woo[r].body
    BY RequestTypes DEF Woo!RequestState
  <1>2. woo' = [woo EXCEPT ![r] = w]
    BY DEF Woo!Answer, Woo!TypeOK
  <1> HIDE DEF w
  <1>3. Woo!TypeOK' /\ Becomes(r, w)
    BY <1>1, <1>2, BecomesTyped
  <1>4. QED
    BY <1>3 DEF w

LEMMA GotoMoveDoes ==
    ASSUME Woo!TypeOK, NEW r \in Requests, NEW to \in Woo!Statuses,
           NEW x \in Woo!Responses \cup {NoResponse}, Woo!GotoMove(r, to, x)
    PROVE  /\ Woo!TypeOK'
           /\ Becomes(r, [woo[r] EXCEPT !.pc = "move", !.to = to, !.resp = x])
  <1> DEFINE w == [woo[r] EXCEPT !.pc = "move", !.to = to, !.resp = x]
  <1>1. w \in Woo!RequestState /\ w.body = woo[r].body
    BY RequestTypes DEF Woo!RequestState
  <1>2. woo' = [woo EXCEPT ![r] = w]
    BY DEF Woo!GotoMove, Woo!TypeOK
  <1> HIDE DEF w
  <1>3. Woo!TypeOK' /\ Becomes(r, w)
    BY <1>1, <1>2, BecomesTyped
  <1>4. QED
    BY <1>3 DEF w

LEMMA TypesStay ==
    ASSUME TypeOK, Woo!TypeOK', Woo!Ledger!TypeOK', Woo!Keys!TypeOK', Woo!Provider!BothTypeOK',
           Woo!Risk!TypeOK', Shop!StoresInv', hooks \subseteq hooks', callbacks' = callbacks,
           UNCHANGED <<acked, todo>>
    PROVE  TypeOK'
  <1>1. Hooks!TypeOK'
    BY DEF TypeOK, Hooks!TypeOK
  <1>2. Woo!Shops!TypeOK'
    BY DEF Shop!StoresInv, Shop!TypeOK, Woo!Shops!TypeOK, Shop!Store, Woo!Shops!Store,
           Shop!Cred, Woo!Shops!Cred, Shop!Call, Woo!Shops!Call, Shop!PCs, Woo!Shops!PCs
  <1>3. QED
    BY <1>1, <1>2 DEF TypeOK

\* The parts a step leaves alone are typed as they were.
LEMMA PartsStay ==
    ASSUME TypeOK
    PROVE  /\ UNCHANGED ledger => Woo!Ledger!TypeOK'
           /\ UNCHANGED keys => Woo!Keys!TypeOK'
           /\ UNCHANGED providerVars => Woo!Provider!BothTypeOK'
           /\ UNCHANGED koinVars => Woo!Risk!TypeOK'
           /\ UNCHANGED woo => Woo!TypeOK'
  <1>1. UNCHANGED ledger => Woo!Ledger!TypeOK'
    BY DEF TypeOK, ledger, Woo!Ledger!TypeOK
  <1>2. UNCHANGED keys => Woo!Keys!TypeOK'
    BY DEF TypeOK, Woo!Keys!TypeOK
  <1>3. UNCHANGED providerVars => Woo!Provider!BothTypeOK'
    BY DEF TypeOK, providerVars, Woo!Provider!BothTypeOK, Woo!Provider!TypeOK,
           Woo!Provider!Fake!TypeOK
  <1>4. UNCHANGED koinVars => Woo!Risk!TypeOK'
    BY DEF TypeOK, koinVars, Woo!Risk!TypeOK
  <1>5. UNCHANGED woo => Woo!TypeOK'
    BY DEF TypeOK, Woo!TypeOK
  <1>6. QED
    BY <1>1, <1>2, <1>3, <1>4, <1>5

\* The stores while nobody provisions.
LEMMA QuietShops ==
    ASSUME WooInv, UNCHANGED shopVars
    PROVE  Shop!StoresInv' /\ OnlyProvisioning' /\ OldStoreRests
  BY ShopsStay DEF WooInv, OnlyProvisioning, OldStoreRests, shopVars

\* A record of a key is as it was, or true.
KeysKept == \A k \in DOMAIN keys' : \/ k \in DOMAIN keys /\ keys'[k] = keys[k]
                                    \/ KeyFits(k)'

\* It is enough to look at the request that moves, and at what is new.
LEMMA RequestStep ==
    ASSUME WooInv, TypeOK', Shop!StoresInv', OnlyProvisioning', OldStoreRests, NEW r \in Requests,
           Keeps(r), RequestOf(r)', \A q \in Requests \ {r} : Rests(q),
           \A h \in hooks' : h \in hooks \/ HookOf(h)',
           KeysKept, Woo!Ledger!OnePaymentPerOrder'
    PROVE  WooInv'
  <1>1. \A p \in Requests : Keeps(p)
    BY RestsKeeps
  <1>2. \A q \in Requests : RequestOf(q)'
    BY <1>1, RestingRequest
  <1>3. DOMAIN payments \subseteq Requests /\ hooks \subseteq Woo!Provider!Hook
    BY DEF WooInv, TypeOK, Woo!Ledger!TypeOK, Woo!Provider!BothTypeOK, Woo!Provider!TypeOK,
           Woo!PaymentIds
  <1>4. ASSUME NEW h \in hooks' PROVE HookOf(h)'
    <2>1. CASE h \in hooks
      <3>1. h.ref \in Requests /\ HookOf(h)
        BY <1>3, <2>1 DEF Woo!Provider!Hook, Woo!PaymentIds, WooInv
      <3>2. QED
        BY <1>1, <3>1, HookStays
    <2>2. QED
      BY <2>1
  <1>5. ASSUME NEW k \in DOMAIN keys' PROVE KeyFits(k)'
    <2>1. CASE k \in DOMAIN keys /\ keys'[k] = keys[k]
      BY <1>1, <1>3, <2>1, KeyStays DEF WooInv
    <2>2. QED
      BY <2>1 DEF KeysKept
  <1>6. QED
    BY <1>2, <1>4, <1>5 DEF WooInv

\* Payments that keep their store and order, and get no company, stay one per order.
LEMMA SameRows ==
    ASSUME WooInv, DOMAIN payments' = DOMAIN payments, \A p \in Requests : Keeps(p)
    PROVE  Woo!Ledger!OnePaymentPerOrder'
  BY DEF WooInv, TypeOK, Woo!Ledger!TypeOK, Woo!PaymentIds, Keeps, Woo!Ledger!OnePaymentPerOrder

------------------------------------------------------------------------------
(***************************************************************************)
(* The provisioning.                                                       *)
(***************************************************************************)
LEMMA ProvisioningStep ==
    ASSUME WooInv, NEW r \in Requests, woo[r].pc = "find",
           Woo!Shops!Step(r) \/ Woo!Shops!Die(r),
           UNCHANGED <<ledger, keys, providerVars, koinVars, woo, acked, todo>>
    PROVE  WooInv'
  <1>1. /\ ProvisionOf(r) /\ OldStoreOf(r) /\ RowOf(r) /\ ChargeOf(r) /\ EvidenceOf(r)
        /\ call[r].kind = "provision" /\ call[r].seller = Woo!SellerOf(r)
    BY DEF WooInv, RequestOf, ProvisionOf
  <1>2. Provisioned(r)
    BY <1>1, ProvisionDoes DEF WooInv
  <1>3. Shop!StoresInv'
    BY ShopsStay DEF WooInv, Woo!Calls
  <1>4. OnlyProvisioning'
    BY <1>2 DEF Provisioned, WooInv, OnlyProvisioning
  <1>5. OldStore \in Woo!Calls \ {r}
    BY OldStoreIsNoRequest DEF Woo!Calls
  <1>6. OldStoreRests
    BY <1>2, <1>5 DEF Provisioned, OldStoreRests
  <1>7. \A q \in Requests \ {r} : Rests(q)
    BY <1>2 DEF Provisioned, Rests, ledger, providerVars, Woo!Calls
  <1>8. Keeps(r)
    BY DEF Keeps, Entered, Taken, ledger, providerVars
  <1>9. OldStoreOf(r)'
    <2> SUFFICES ASSUME stores[OldStore] # None PROVE OldStoreOf(r)'
      BY <1>6 DEF OldStoreOf, OldStoreRests
    <2>1. Woo!SellerOf(r) \in Sellers /\ Woo!SellerOf(r) # NoSeller
      BY RequestTypes, ShopConstants DEF WooInv, TypeOK
    <2>2. CASE Woo!SellerOf(r) = settings[OldStore]
      <3>1. call[r].pc = "lookup"
        BY <1>1, <1>2, <2>2 DEF OldStoreOf, Provisioned
      <3>2. OldStore \in Shop!LinkedTo(call[r].seller)
        BY <1>1, <1>5, <2>2 DEF Shop!LinkedTo, Shop!Existing
      <3>3. call'[r].pc \in {"done", "failed"} /\ settings'[r] = settings[r]
        BY <1>1, <1>2, <2>1, <3>1, <3>2 DEF Provisioned
      <3>4. ASSUME call'[r].pc = "done" PROVE call'[r].store = OldStore
        <4>1. call'[r].store \in Woo!Calls /\ settings[call'[r].store] = settings[OldStore]
          BY <1>1, <1>2, <2>1, <2>2, <3>1, <3>4 DEF Provisioned, Shop!LinkedTo, Shop!Existing
        <4>2. call'[r].store \notin Requests
          BY <4>1 DEF WooInv, RequestOf, OldStoreOf
        <4>3. QED
          BY <4>1, <4>2 DEF Woo!Calls
      <3>5. QED
        BY <1>1, <1>6, <3>3, <3>4 DEF OldStoreOf, OldStoreRests, Woo!SellerOf
    <2>3. CASE Woo!SellerOf(r) # settings[OldStore]
      BY <1>1, <1>2, <1>6, <2>3 DEF OldStoreOf, OldStoreRests, Woo!SellerOf, Provisioned
    <2>4. QED
      BY <2>2, <2>3
  <1>10. RequestOf(r)'
    <2>1. ProvisionOf(r)'
      BY <1>1, <1>2 DEF ProvisionOf, Provisioned, Woo!SellerOf
    <2>2. RowOf(r)' /\ ChargeOf(r)'
      BY <1>1 DEF RowOf, ChargeOf, NotCreated, ledger, providerVars
    <2>3. EvidenceOf(r)'
      BY <1>1 DEF EvidenceOf, ledger, providerVars, Refusing, Marked, NotCharged, Taken,
                  Woo!Faked, Woo!SellerOf, Woo!MethodOf
    <2>4. AnswerOf(r)'
      BY DEF AnswerOf
    <2>5. QED
      BY <1>9, <2>1, <2>2, <2>3, <2>4 DEF RequestOf
  <1>11. TypeOK'
    BY <1>3, PartsStay, TypesStay DEF WooInv, providerVars, koinVars
  <1>12. KeysKept
    BY DEF KeysKept
  <1>13. Woo!Ledger!OnePaymentPerOrder'
    BY DEF WooInv, ledger, Woo!Ledger!OnePaymentPerOrder
  <1>14. \A h \in hooks' : h \in hooks
    BY DEF providerVars
  <1>15. QED
    BY <1>3, <1>4, <1>6, <1>7, <1>8, <1>10, <1>11, <1>12, <1>13, <1>14, RequestStep

LEMMA ProvisionInv ==
    ASSUME WooInv, NEW r \in Requests, Woo!Provision(r), UNCHANGED <<acked, todo>>
    PROVE  WooInv'
  BY ProvisioningStep DEF Woo!Provision, Woo!At, ledger, providerVars, koinVars, Woo!ledger,
     Woo!providerVars, Woo!koinVars

------------------------------------------------------------------------------
(***************************************************************************)
(* The handler, up to the payment.                                         *)
(***************************************************************************)

\* A step of the handler that touches no payment but its own.
OthersKept(r) ==
    \A q \in Requests \ {r} :
        /\ zoop'[q] = zoop[q] /\ charges'[q] = charges[q] /\ events'[q] = events[q]
        /\ q \in DOMAIN payments' <=> q \in DOMAIN payments
        /\ q \in DOMAIN payments => payments'[q] = payments[q]

LEMMA HandlerStep ==
    ASSUME WooInv, NEW r \in Requests, woo[r].pc # "unsent", call[r].pc = "done",
           UNCHANGED <<shopVars, callbacks, acked, todo>>,
           NEW w, Becomes(r, w), w.pc # "unsent", OthersKept(r), Keeps(r),
           Woo!TypeOK', Woo!Ledger!TypeOK', Woo!Keys!TypeOK', Woo!Provider!BothTypeOK',
           Woo!Risk!TypeOK', hooks \subseteq hooks',
           RowOf(r)', ChargeOf(r)', EvidenceOf(r)', AnswerOf(r)',
           \A h \in hooks' : h \in hooks \/ HookOf(h)',
           KeysKept, Woo!Ledger!OnePaymentPerOrder'
    PROVE  WooInv'
  <1>1. Shop!StoresInv' /\ OnlyProvisioning' /\ OldStoreRests
    BY QuietShops
  <1>2. TypeOK'
    BY <1>1, TypesStay DEF WooInv
  <1>3. ProvisionOf(r) /\ OldStoreOf(r)
    BY DEF WooInv, RequestOf
  <1>4. ProvisionOf(r)' /\ OldStoreOf(r)'
    BY <1>3 DEF ProvisionOf, OldStoreOf, Becomes, shopVars, Woo!SellerOf
  <1>5. \A q \in Requests \ {r} : Rests(q)
    BY DEF OthersKept, Becomes, Rests, shopVars
  <1>6. RequestOf(r)'
    BY <1>4 DEF RequestOf
  <1>7. QED
    BY <1>1, <1>2, <1>5, <1>6, RequestStep

\* The request goes on, fails or answers, and nothing happens to payments.
LEMMA QuietMove ==
    ASSUME WooInv, NEW r \in Requests, woo[r].pc # "unsent", call[r].pc = "done",
           UNCHANGED <<ledger, providerVars, koinVars, shopVars, acked, todo>>,
           NEW w, Becomes(r, w), Woo!TypeOK', Woo!Keys!TypeOK', KeysKept,
           w.pc \in {"insert", "lookup", "create", "failed", "done"},
           w.pc \in {"insert", "lookup", "create"} => woo[r].pc \in NotCreated,
           w.pc = "done" => AnswerOf(r)'
    PROVE  WooInv'
  <1>1. RowOf(r) /\ ChargeOf(r) /\ EvidenceOf(r)
    BY DEF WooInv, RequestOf
  <1>2. OthersKept(r) /\ Keeps(r)
    BY DEF OthersKept, Keeps, Becomes, ledger, providerVars, Entered, Taken
  <1>3. RowOf(r)'
    BY <1>1 DEF RowOf, Becomes, NotCreated, Working, ledger, providerVars, shopVars,
                Entered, Woo!StoreOf, Woo!RefOf, Woo!SellerOf
  <1>4. ChargeOf(r)'
    BY <1>1 DEF ChargeOf, Becomes, ledger, providerVars
  <1>5. EvidenceOf(r)'
    BY <1>1 DEF EvidenceOf, Becomes, ledger, providerVars, Refusing, Marked, NotCharged, Taken
  <1>6. AnswerOf(r)'
    <2>1. w.pc # "done" => AnswerOf(r)'
      BY DEF AnswerOf, Becomes
    <2>2. QED
      BY <2>1
  <1>7. /\ Woo!Ledger!TypeOK' /\ Woo!Provider!BothTypeOK' /\ Woo!Risk!TypeOK'
        /\ hooks' = hooks /\ callbacks' = callbacks
    BY PartsStay DEF WooInv, providerVars, koinVars
  <1>8. Woo!Ledger!OnePaymentPerOrder'
    BY DEF WooInv, ledger, Woo!Ledger!OnePaymentPerOrder
  <1>9. w.pc # "unsent"
    OBVIOUS
  <1>10. QED
    BY <1>2, <1>3, <1>4, <1>5, <1>6, <1>7, <1>8, <1>9, HandlerStep

LEMMA Answers ==
    ASSUME NEW r \in Requests, NEW x \in Woo!Responses, woo'[r].pc = "done", woo'[r].resp = x,
           NEW p, (p \in Woo!PaymentsOfAttempt(r) /\ Fits(x, p))'
    PROVE  AnswerOf(r)'
  BY DEF AnswerOf

LEMMA DieInv ==
    ASSUME WooInv, NEW r \in Requests, Woo!Die(r), UNCHANGED <<acked, todo>>
    PROVE  WooInv'
  <1>1. CASE woo[r].pc = "find" /\ Woo!Shops!Die(r) /\ UNCHANGED woo
    BY <1>1, ProvisioningStep DEF Woo!Die, ledger, providerVars, koinVars, Woo!ledger,
       Woo!providerVars, Woo!koinVars
  <1>2. CASE /\ woo[r].pc \notin {"unsent", "done", "failed"} /\ call[r].pc = "done"
             /\ Woo!Goto(r, "failed") /\ UNCHANGED shopVars
    <2> DEFINE w == [woo[r] EXCEPT !.pc = "failed"]
    <2>1. Woo!TypeOK' /\ Becomes(r, w)
      BY <1>2, GotoDoes DEF WooInv, TypeOK
    <2>2. w.pc = "failed"
      BY RequestTypes DEF WooInv, TypeOK, Woo!RequestState
    <2> HIDE DEF w
    <2>3. UNCHANGED <<ledger, keys, providerVars, koinVars>>
      BY DEF Woo!Die, ledger, providerVars, koinVars, Woo!ledger, Woo!providerVars,
             Woo!koinVars
    <2>4. Woo!Keys!TypeOK' /\ KeysKept
      BY <2>3, PartsStay DEF WooInv, KeysKept
    <2>5. QED
      BY <1>2, <2>1, <2>2, <2>3, <2>4, QuietMove
  <1>3. QED
    BY <1>1, <1>2 DEF Woo!Die, Woo!At, Woo!Shops!At, shopVars, Woo!shopVars

LEMMA FindKeyInv ==
    ASSUME WooInv, NEW r \in Requests, Woo!FindKey(r), UNCHANGED <<acked, todo>>
    PROVE  WooInv'
  <1>1. /\ woo[r].pc = "find" /\ call[r].pc = "done" /\ woo[r].pc \in NotCreated
        /\ UNCHANGED <<ledger, keys, providerVars, koinVars, shopVars>>
    BY DEF Woo!FindKey, Woo!At, Woo!Shops!At, ledger, providerVars, koinVars, shopVars,
           Woo!ledger, Woo!providerVars, Woo!koinVars, Woo!shopVars, NotCreated
  <1>2. Woo!Keys!TypeOK' /\ KeysKept
    BY <1>1, PartsStay DEF WooInv, KeysKept
  <1>3. ASSUME NEW pc \in {"insert", "lookup", "failed"}, Woo!Goto(r, pc)
        PROVE  WooInv'
    <2> DEFINE w == [woo[r] EXCEPT !.pc = pc]
    <2>1. Woo!TypeOK' /\ Becomes(r, w)
      BY <1>3, GotoDoes DEF WooInv, TypeOK
    <2>2. w.pc = pc
      BY RequestTypes DEF WooInv, TypeOK, Woo!RequestState
    <2> HIDE DEF w
    <2>3. w.pc # "done"
      BY <2>2
    <2>4. QED
      BY <1>1, <1>2, <2>1, <2>2, <2>3, QuietMove
  <1> DEFINE k == <<Woo!StoreOf(r), Woo!RefOf(r)>>
  <1>4. CASE k \in DOMAIN keys /\ keys[k].response # NoResponse /\ Woo!Answer(r, keys[k].response)
    <2>1. PICK x : x = keys[k].response
      OBVIOUS
    <2>2. x \in Woo!Responses
      BY <1>4, <2>1 DEF WooInv, TypeOK, Woo!Keys!TypeOK, Woo!Keys!KeyRow
    <2> DEFINE w == [woo[r] EXCEPT !.pc = "done", !.resp = x]
    <2>3. Woo!TypeOK' /\ Becomes(r, w)
      BY <1>4, <2>1, <2>2, AnswerDoes DEF WooInv, TypeOK
    <2>4. w.pc = "done" /\ w.resp = x
      BY RequestTypes DEF WooInv, TypeOK, Woo!RequestState
    <2> HIDE DEF w
    <2>5. PICK p \in DOMAIN payments :
              /\ payments[p].store = Woo!StoreOf(r) /\ payments[p].ref = Woo!RefOf(r)
              /\ Fits(x, p)
      BY <1>4, <2>1 DEF WooInv, KeyFits
    <2>6. p \in Requests
      BY DEF WooInv, TypeOK, Woo!Ledger!TypeOK, Woo!PaymentIds
    <2>7. Keeps(p)
      BY <1>1, <2>3, <2>6 DEF Keeps, Becomes, ledger, providerVars, Entered, Taken
    <2>8. Fits(x, p)'
      BY <2>5, <2>7, FitsStays
    <2>9. (p \in Woo!PaymentsOfAttempt(r))'
      BY <1>1, <2>3, <2>5 DEF Becomes, ledger, shopVars, Woo!PaymentsOfAttempt,
         Woo!Ledger!FindByExternalRef, Woo!StoreOf, Woo!RefOf, Woo!SellerOf
    <2>10. AnswerOf(r)'
      BY <2>2, <2>3, <2>4, <2>8, <2>9, Answers DEF Becomes
    <2>11. QED
      BY <1>1, <1>2, <2>3, <2>4, <2>10, QuietMove
  <1>5. QED
    BY <1>3, <1>4 DEF Woo!FindKey, Woo!Keys!Known, Woo!Keys!Answered

LEMMA InsertKeyInv ==
    ASSUME WooInv, NEW r \in Requests, Woo!InsertKey(r), UNCHANGED <<acked, todo>>
    PROVE  WooInv'
  <1>1. /\ woo[r].pc = "insert" /\ woo[r].pc \in NotCreated
        /\ UNCHANGED <<ledger, providerVars, koinVars, shopVars>>
    BY DEF Woo!InsertKey, Woo!At, ledger, providerVars, koinVars, shopVars,
           Woo!ledger, Woo!providerVars, Woo!koinVars, Woo!shopVars, NotCreated
  <1>2. call[r].pc = "done" /\ call[r].kind = "provision"
    BY <1>1 DEF WooInv, RequestOf, ProvisionOf
  <1>3. ASSUME NEW pc \in {"create", "failed"}, Woo!Goto(r, pc), Woo!Keys!TypeOK', KeysKept
        PROVE  WooInv'
    <2> DEFINE w == [woo[r] EXCEPT !.pc = pc]
    <2>1. Woo!TypeOK' /\ Becomes(r, w)
      BY <1>3, GotoDoes DEF WooInv, TypeOK
    <2>2. w.pc = pc
      BY RequestTypes DEF WooInv, TypeOK, Woo!RequestState
    <2> HIDE DEF w
    <2>3. w.pc # "done"
      BY <2>2
    <2>4. QED
      BY <1>1, <1>2, <1>3, <2>1, <2>2, <2>3, QuietMove
  <1>4. CASE Woo!Keys!Insert(Woo!StoreOf(r), Woo!RefOf(r), woo[r].body.hash) /\ Woo!Goto(r, "create")
    <2> DEFINE s == Woo!StoreOf(r)
               k == Woo!RefOf(r)
               h == woo[r].body.hash
    <2>1. s \in Woo!Stores /\ k \in Woo!Refs /\ h \in Hashes
      <3>1. k \in Woo!Refs /\ h \in Hashes
        BY RequestTypes DEF WooInv, TypeOK, Woo!Body
      <3>2. s \in Woo!Calls
        BY <1>1, <1>2 DEF WooInv, RequestOf, ProvisionOf, Woo!StoreOf
      <3>3. QED
        BY <3>1, <3>2 DEF Woo!Stores
    <2> HIDE DEF s, k, h
    <2>2. Woo!Keys!Insert(s, k, h)
      BY <1>4 DEF s, k, h
    <2>3. Woo!Keys!TypeOK'
      BY <2>1, <2>2 DEF WooInv, TypeOK, Woo!Keys!TypeOK, Woo!Keys!Insert, Woo!Keys!KeyRow
    <2>4. KeysKept
      BY <2>2 DEF Woo!Keys!Insert, KeysKept, KeyFits
    <2>5. QED
      BY <1>3, <1>4, <2>3, <2>4
  <1>5. CASE Woo!Goto(r, "failed") /\ UNCHANGED keys
    BY <1>3, <1>5, PartsStay DEF WooInv, KeysKept
  <1>6. QED
    BY <1>4, <1>5 DEF Woo!InsertKey

LEMMA LookUpPaymentInv ==
    ASSUME WooInv, NEW r \in Requests, Woo!LookUpPayment(r), UNCHANGED <<acked, todo>>
    PROVE  WooInv'
  <1>1. /\ woo[r].pc = "lookup" /\ woo[r].pc \in NotCreated
        /\ UNCHANGED <<ledger, keys, providerVars, koinVars, shopVars>>
    BY DEF Woo!LookUpPayment, Woo!At, ledger, providerVars, koinVars, shopVars,
           Woo!ledger, Woo!providerVars, Woo!koinVars, Woo!shopVars, NotCreated
  <1>2. call[r].pc = "done"
    BY <1>1 DEF WooInv, RequestOf, ProvisionOf
  <1>3. Woo!Keys!TypeOK' /\ KeysKept
    BY <1>1, PartsStay DEF WooInv, KeysKept
  <1>4. CASE Woo!Goto(r, "create")
    <2> DEFINE w == [woo[r] EXCEPT !.pc = "create"]
    <2>1. Woo!TypeOK' /\ Becomes(r, w)
      BY <1>4, GotoDoes DEF WooInv, TypeOK
    <2>2. w.pc = "create"
      BY RequestTypes DEF WooInv, TypeOK, Woo!RequestState
    <2> HIDE DEF w
    <2>3. QED
      BY <1>1, <1>2, <1>3, <2>1, <2>2, QuietMove
  <1>5. ASSUME NEW p \in Woo!PaymentsOfAttempt(r), Woo!Answer(r, Woo!Say(payments[p].status))
        PROVE  WooInv'
    <2>1. PICK s : s = payments[p].status
      OBVIOUS
    <2>2. PICK x : x = [status |-> s, code |-> FALSE]
      OBVIOUS
    <2>3. /\ p \in DOMAIN payments /\ p \in Requests /\ payments[p] \in Woo!Ledger!PaymentRow
          /\ payments[p].store = Woo!StoreOf(r) /\ payments[p].ref = Woo!RefOf(r)
      BY DEF WooInv, TypeOK, Woo!Ledger!TypeOK, Woo!PaymentIds, Woo!PaymentsOfAttempt,
             Woo!Ledger!FindByExternalRef
    <2>4. s \in Woo!Statuses /\ s # "error"
      BY <2>1, <2>3 DEF Woo!Ledger!PaymentRow, Woo!Ledger!Statuses, Woo!Statuses
    <2>5. x \in Woo!Responses /\ x.status = s /\ x.code = FALSE
      BY <2>2, <2>4 DEF Woo!Responses, Woo!ResponseStatuses
    <2> DEFINE w == [woo[r] EXCEPT !.pc = "done", !.resp = x]
    <2>6. Woo!TypeOK' /\ Becomes(r, w)
      BY <1>5, <2>1, <2>2, <2>5, AnswerDoes DEF WooInv, TypeOK, Woo!Say
    <2>7. w.pc = "done" /\ w.resp = x
      BY RequestTypes DEF WooInv, TypeOK, Woo!RequestState
    <2> HIDE DEF w
    <2>8. Fits(x, p)
      BY <2>1, <2>3, <2>4, <2>5 DEF WooInv, RequestOf, RowOf, EvidenceOf, Fits
    <2>9. Keeps(p)
      BY <1>1, <2>3, <2>6 DEF Keeps, Becomes, ledger, providerVars, Entered, Taken
    <2>10. Fits(x, p)'
      BY <2>3, <2>8, <2>9, FitsStays
    <2>11. (p \in Woo!PaymentsOfAttempt(r))'
      BY <1>1, <2>3, <2>6 DEF Becomes, ledger, shopVars, Woo!PaymentsOfAttempt,
         Woo!Ledger!FindByExternalRef, Woo!StoreOf, Woo!RefOf, Woo!SellerOf
    <2>12. AnswerOf(r)'
      BY <2>5, <2>6, <2>7, <2>10, <2>11, Answers DEF Becomes
    <2>13. QED
      BY <1>1, <1>2, <1>3, <2>6, <2>7, <2>12, QuietMove
  <1>6. QED
    BY <1>4, <1>5 DEF Woo!LookUpPayment

LEMMA OwnStore ==
    ASSUME WooInv, NEW r \in Requests, woo[r].pc \notin {"unsent", "find"}
    PROVE  /\ call[r].pc = "done" /\ Woo!StoreOf(r) \in Woo!Stores /\ Woo!RefOf(r) \in Woo!Refs
           /\ AnyStore # Woo!StoreOf(r)
  BY RequestTypes, LedgerConstants DEF WooInv, RequestOf, ProvisionOf, Woo!StoreOf,
     Woo!Stores, TypeOK

LEMMA CreateDoes ==
    ASSUME Woo!Ledger!TypeOK, NEW p \in Requests, NEW s \in Woo!Stores, NEW k \in Woo!Refs,
           Woo!Ledger!Create(p, s, k)
    PROVE  /\ Woo!Ledger!TypeOK' /\ UNCHANGED <<charges, events>>
           /\ DOMAIN payments' = DOMAIN payments \cup {p} /\ p \notin DOMAIN payments
           /\ payments'[p].store = s /\ payments'[p].ref = k /\ payments'[p].status = "created"
           /\ \A q \in DOMAIN payments : payments'[q] = payments[q]
           /\ \A q \in DOMAIN payments : payments[q].store # s \/ payments[q].ref # k
  BY DEF Woo!Ledger!Create, Woo!Ledger!TypeOK, Woo!Ledger!Exists, Woo!Ledger!CanCreate,
         Woo!Ledger!FindByExternalRef, Woo!Ledger!InitialStatus, Woo!Ledger!PaymentRow,
         Woo!Ledger!Instruments, Woo!Ledger!Statuses, Woo!PaymentIds

LEMMA CreatePaymentInv ==
    ASSUME WooInv, NEW r \in Requests, Woo!CreatePayment(r), UNCHANGED <<acked, todo>>
    PROVE  WooInv'
  <1>1. /\ woo[r].pc = "create" /\ UNCHANGED <<keys, providerVars, koinVars, shopVars>>
    BY DEF Woo!CreatePayment, Woo!At, providerVars, koinVars, shopVars,
           Woo!providerVars, Woo!koinVars, Woo!shopVars
  <1>2. /\ call[r].pc = "done" /\ Woo!StoreOf(r) \in Woo!Stores /\ Woo!RefOf(r) \in Woo!Refs
    BY <1>1, OwnStore
  <1>3. Woo!Keys!TypeOK' /\ KeysKept
    BY <1>1, PartsStay DEF WooInv, KeysKept
  <1>4. CASE Woo!Goto(r, "failed") /\ UNCHANGED ledger
    <2> DEFINE w == [woo[r] EXCEPT !.pc = "failed"]
    <2>1. Woo!TypeOK' /\ Becomes(r, w)
      BY <1>4, GotoDoes DEF WooInv, TypeOK
    <2>2. w.pc = "failed"
      BY RequestTypes DEF WooInv, TypeOK, Woo!RequestState
    <2> HIDE DEF w
    <2>3. QED
      BY <1>1, <1>2, <1>3, <1>4, <2>1, <2>2, QuietMove
  <1>5. CASE Woo!Ledger!Create(r, Woo!StoreOf(r), Woo!RefOf(r)) /\ Woo!Goto(r, "evaluate")
    <2> DEFINE w == [woo[r] EXCEPT !.pc = "evaluate"]
    <2>1. Woo!TypeOK' /\ Becomes(r, w)
      BY <1>5, GotoDoes DEF WooInv, TypeOK
    <2>2. w.pc = "evaluate"
      BY RequestTypes DEF WooInv, TypeOK, Woo!RequestState
    <2> HIDE DEF w
    <2>3. PICK s, k : s = Woo!StoreOf(r) /\ k = Woo!RefOf(r)
      OBVIOUS
    <2>4. /\ Woo!Ledger!TypeOK' /\ UNCHANGED <<charges, events>>
          /\ DOMAIN payments' = DOMAIN payments \cup {r} /\ r \notin DOMAIN payments
          /\ payments'[r].store = s /\ payments'[r].ref = k /\ payments'[r].status = "created"
          /\ \A q \in DOMAIN payments : payments'[q] = payments[q]
          /\ \A q \in DOMAIN payments : payments[q].store # s \/ payments[q].ref # k
      BY <1>2, <1>5, <2>3, CreateDoes DEF WooInv, TypeOK
    <2>5. OthersKept(r) /\ Keeps(r)
      BY <1>1, <2>1, <2>4 DEF OthersKept, Keeps, Becomes, providerVars, Entered, Taken
    <2>6. zoop'[r] = <<>> /\ charges'[r] = <<>>
      BY <1>1, <2>4 DEF WooInv, RequestOf, RowOf, providerVars
    <2>7. RowOf(r)'
      BY <1>1, <2>1, <2>2, <2>3, <2>4 DEF RowOf, Becomes, NotCreated, shopVars,
         Entered, Woo!StoreOf, Woo!RefOf, Woo!SellerOf
    <2>8. ChargeOf(r)'
      BY <2>1, <2>2, <2>6 DEF ChargeOf, Becomes
    <2>9. EvidenceOf(r)' /\ AnswerOf(r)'
      BY <2>1, <2>2, <2>4 DEF EvidenceOf, AnswerOf, Becomes, Refusing
    <2>10. Woo!Ledger!OnePaymentPerOrder'
      BY <2>4 DEF WooInv, Woo!Ledger!OnePaymentPerOrder
    <2>11. Woo!Provider!BothTypeOK' /\ Woo!Risk!TypeOK' /\ hooks' = hooks /\ callbacks' = callbacks
      BY <1>1, PartsStay DEF WooInv, providerVars, koinVars
    <2>12. w.pc # "unsent" /\ woo[r].pc # "unsent"
      BY <1>1, <2>2
    <2>13. QED
      BY <1>1, <1>2, <1>3, <2>1, <2>4, <2>5, <2>7, <2>8, <2>9, <2>10, <2>11, <2>12, HandlerStep
  <1>6. QED
    BY <1>4, <1>5 DEF Woo!CreatePayment, ledger, Woo!ledger

------------------------------------------------------------------------------
(***************************************************************************)
(* The handler, once there is a payment.                                   *)
(***************************************************************************)
LEMMA WorkingFacts ==
    ASSUME WooInv, NEW r \in Requests, woo[r].pc \in Working
    PROVE  /\ woo[r] \in Woo!RequestState /\ r \in DOMAIN payments
           /\ payments[r] \in Woo!Ledger!PaymentRow
           /\ payments[r].store = Woo!StoreOf(r) /\ payments[r].ref = Woo!RefOf(r)
           /\ call[r].pc = "done" /\ Woo!StoreOf(r) \in Woo!Stores
           /\ ChargeOf(r) /\ EvidenceOf(r) /\ AnswerOf(r) /\ payments[r].status \in Entered(r)
  <1>1. woo[r].pc \notin {"unsent", "find"}
    BY DEF Working
  <1>2. QED
    BY <1>1, OwnStore, RequestTypes DEF WooInv, RequestOf, RowOf, TypeOK, Woo!Ledger!TypeOK

LEMMA WorkingStep ==
    ASSUME WooInv, NEW r \in Requests, woo[r].pc \in Working,
           UNCHANGED <<shopVars, callbacks, acked, todo>>,
           NEW w, Becomes(r, w), w.pc \in Working \cup {"done", "failed"},
           OthersKept(r), Keeps(r), DOMAIN payments' = DOMAIN payments,
           payments'[r].status = payments[r].status \/ payments'[r].status \in Entered(r)',
           Woo!TypeOK', Woo!Ledger!TypeOK', Woo!Keys!TypeOK', Woo!Provider!BothTypeOK',
           Woo!Risk!TypeOK', hooks \subseteq hooks',
           ChargeOf(r)', EvidenceOf(r)', AnswerOf(r)',
           \A h \in hooks' : h \in hooks \/ HookOf(h)', KeysKept
    PROVE  WooInv'
  <1>1. /\ call[r].pc = "done" /\ r \in DOMAIN payments /\ payments[r].status \in Entered(r)
        /\ payments[r].store = Woo!StoreOf(r) /\ payments[r].ref = Woo!RefOf(r)
    BY WorkingFacts
  <1>2. woo[r].pc # "unsent" /\ w.pc # "unsent"
    BY DEF Working
  <1>3. payments'[r].status \in Entered(r)'
    <2>1. PICK s : s = payments[r].status
      OBVIOUS
    <2>2. s \in Entered(r)'
      BY <1>1, <2>1 DEF Keeps
    <2>3. QED
      BY <2>1, <2>2
  <1>4. RowOf(r)'
    <2>1. w.pc \notin NotCreated
      BY DEF Working, NotCreated
    <2>2. QED
      BY <1>1, <1>3, <2>1 DEF RowOf, Becomes, Keeps, shopVars, Woo!StoreOf, Woo!RefOf,
                              Woo!SellerOf
  <1>5. \A q \in Requests : Keeps(q)
    <2>1. \A q \in Requests \ {r} : Rests(q)
      BY DEF OthersKept, Becomes, Rests, shopVars
    <2>2. QED
      BY <2>1, RestsKeeps
  <1>6. Woo!Ledger!OnePaymentPerOrder'
    BY <1>5, SameRows
  <1>7. QED
    BY <1>1, <1>2, <1>4, <1>6, HandlerStep

\* A handler that plans a transition of its payment, or nothing more.
LEMMA PlanningStep ==
    ASSUME WooInv, NEW r \in Requests, woo[r].pc \in Working,
           NEW to \in Woo!Statuses, NEW x \in Woo!Responses \cup {NoResponse},
           Woo!GotoMove(r, to, x)
    PROVE  /\ Woo!TypeOK'
           /\ \E w : /\ Becomes(r, w) /\ w.pc \in Working \cup {"done", "failed"}
                     /\ w.pc = "move" /\ w.to = to /\ w.resp = x /\ w.answer = woo[r].answer
  <1> DEFINE w == [woo[r] EXCEPT !.pc = "move", !.to = to, !.resp = x]
  <1>1. Woo!TypeOK' /\ Becomes(r, w)
    BY GotoMoveDoes DEF WooInv, TypeOK
  <1>2. w.pc = "move" /\ w.to = to /\ w.resp = x /\ w.answer = woo[r].answer
    BY WorkingFacts DEF Woo!RequestState
  <1> HIDE DEF w
  <1>3. QED
    BY <1>1, <1>2 DEF Working

LEMMA SayDoes ==
    ASSUME NEW s \in Woo!ResponseStatuses
    PROVE  Woo!Say(s) \in Woo!Responses /\ Woo!Say(s).status = s /\ Woo!Say(s).code = FALSE
  BY DEF Woo!Say, Woo!Responses

LEMMA EvaluateRiskInv ==
    ASSUME WooInv, NEW r \in Requests, Woo!EvaluateRisk(r), UNCHANGED <<acked, todo>>
    PROVE  WooInv'
  <1>1. /\ woo[r].pc = "evaluate" /\ woo[r].pc \in Working
        /\ UNCHANGED <<ledger, keys, providerVars, shopVars>>
    BY DEF Woo!EvaluateRisk, Woo!At, ledger, providerVars, shopVars, Woo!ledger,
           Woo!providerVars, Woo!shopVars, Working
  <1>2. PICK v \in Woo!Risk!Verdicts :
            /\ Woo!Risk!Evaluate(r, Woo!StoreOf(r), v)
            /\ CASE v = "denied"   -> Woo!GotoMove(r, "refused", Woo!Say("error"))
                 [] v = "received" -> Woo!GotoMove(r, "under_review", Woo!Say("under_review"))
                 [] v = "approved" -> Woo!GotoMove(r, "approved_risk", NoResponse)
    BY DEF Woo!EvaluateRisk
  <1>3. Woo!Risk!TypeOK' /\ callbacks' = callbacks
    <2>1. \/ UNCHANGED <<koin, callbacks, notices>>
          \/ koin' = [koin EXCEPT ![r].eval = v] /\ UNCHANGED <<callbacks, notices>>
      BY <1>2 DEF Woo!Risk!Evaluate, Woo!Risk!vars
    <2>2. QED
      BY <2>1 DEF WooInv, TypeOK, Woo!Risk!TypeOK, Woo!Risk!Case, Woo!PaymentIds
  <1>4. PICK to, x :
            /\ Woo!GotoMove(r, to, x)
            /\ \/ to = "refused" /\ x = Woo!Say("error")
               \/ to = "under_review" /\ x = Woo!Say("under_review")
               \/ to = "approved_risk" /\ x = NoResponse
    BY <1>2 DEF Woo!Risk!Verdicts
  <1>5. to \in Woo!Statuses /\ x \in Woo!Responses \cup {NoResponse}
    BY <1>4, SayDoes DEF Woo!Statuses, Woo!ResponseStatuses
  <1>6. PICK w : /\ Becomes(r, w) /\ w.pc \in Working \cup {"done", "failed"}
                 /\ w.pc = "move" /\ w.to = to /\ w.resp = x /\ w.answer = woo[r].answer
    BY <1>1, <1>4, <1>5, PlanningStep
  <1>7. Woo!TypeOK'
    BY <1>1, <1>4, <1>5, PlanningStep
  <1>8. OthersKept(r) /\ Keeps(r)
    BY <1>1, <1>6 DEF OthersKept, Keeps, Becomes, ledger, providerVars, Entered, Taken
  <1>9. zoop[r] = <<>> /\ charges[r] = <<>> /\ ChargeOf(r) /\ EvidenceOf(r)
    BY <1>1, WorkingFacts DEF ChargeOf
  <1>10. ChargeOf(r)'
    BY <1>1, <1>6, <1>9 DEF ChargeOf, Becomes, ledger, providerVars
  <1>11. EvidenceOf(r)'
    BY <1>1, <1>6, <1>9 DEF EvidenceOf, Becomes, ledger, providerVars, NotCharged, Taken
  <1>12. AnswerOf(r)'
    BY <1>4, <1>6 DEF AnswerOf, Becomes, Planned, Woo!Say
  <1>13. /\ Woo!Ledger!TypeOK' /\ Woo!Keys!TypeOK' /\ Woo!Provider!BothTypeOK'
         /\ hooks' = hooks /\ KeysKept /\ DOMAIN payments' = DOMAIN payments
         /\ payments'[r].status = payments[r].status
    BY <1>1, PartsStay DEF WooInv, providerVars, ledger, KeysKept
  <1>14. QED
    BY <1>1, <1>3, <1>6, <1>7, <1>8, <1>10, <1>11, <1>12, <1>13, WorkingStep

\* The rows of the other payments are as they were.
OthersPaid(p) ==
    \A q \in Requests \ {p} :
        /\ charges'[q] = charges[q] /\ events'[q] = events[q]
        /\ q \in DOMAIN payments' <=> q \in DOMAIN payments
        /\ q \in DOMAIN payments => payments'[q] = payments[q]

LEMMA TransitionDoes ==
    ASSUME Woo!Ledger!TypeOK, NEW p \in Requests, NEW s, NEW to \in Woo!Statuses,
           Woo!Ledger!Transition(p, s, to)
    PROVE  /\ Woo!Ledger!TypeOK' /\ UNCHANGED charges
           /\ p \in DOMAIN payments /\ DOMAIN payments' = DOMAIN payments
           /\ payments'[p].store = payments[p].store /\ payments'[p].ref = payments[p].ref
           /\ payments'[p].instrument = payments[p].instrument
           /\ payments'[p].status = to
           /\ payments[p].status # "refused"
           /\ to \in Entered(p)' /\ \A t : t \in Entered(p) => t \in Entered(p)'
           /\ OthersPaid(p)
  <1>1. /\ p \in DOMAIN payments /\ to \in Woo!Ledger!AllowedTransitions[payments[p].status]
        /\ payments' = [payments EXCEPT ![p].status = to]
        /\ events' = [events EXCEPT ![p] = Append(@, Woo!Ledger!EventOf(p, to))]
        /\ outbox' = [outbox EXCEPT ![p] =
                         Append(@, [store |-> payments[p].store, type |-> to])]
        /\ UNCHANGED charges
    BY DEF Woo!Ledger!Transition, Woo!Ledger!CanMove, Woo!Ledger!InScope, Woo!Ledger!Exists,
           Woo!Ledger!CanTransition
  <1>2. payments[p] \in Woo!Ledger!PaymentRow
    BY <1>1 DEF Woo!Ledger!TypeOK
  <1>3. to \in Woo!Ledger!Statuses
    BY DEF Woo!Ledger!Statuses, Woo!Statuses
  <1> DEFINE e == Woo!Ledger!EventOf(p, to)
             o == [store |-> payments[p].store, type |-> to]
  <1>4. e \in Woo!Ledger!EventRow /\ o \in Woo!Ledger!OutboxRow /\ e.to = to
    BY <1>2, <1>3 DEF Woo!Ledger!EventOf, Woo!Ledger!EventRow, Woo!Ledger!OutboxRow,
                      Woo!Ledger!PaymentRow
  <1>5. /\ events' = [events EXCEPT ![p] = Append(@, e)]
        /\ outbox' = [outbox EXCEPT ![p] = Append(@, o)]
    BY <1>1
  <1> HIDE DEF e, o
  <1>6. Woo!Ledger!TypeOK'
    <2> DEFINE row == [payments[p] EXCEPT !.status = to]
    <2>1. row \in Woo!Ledger!PaymentRow /\ payments' = [payments EXCEPT ![p] = row]
      BY <1>1, <1>2, <1>3 DEF Woo!Ledger!PaymentRow
    <2> HIDE DEF row
    <2>2. DOMAIN payments' = DOMAIN payments /\ payments' \in [DOMAIN payments -> Woo!Ledger!PaymentRow]
      BY <1>1, <2>1 DEF Woo!Ledger!TypeOK
    <2>3. events' \in [Woo!PaymentIds -> Seq(Woo!Ledger!EventRow)]
      BY <1>4, <1>5 DEF Woo!Ledger!TypeOK, Woo!PaymentIds
    <2>4. outbox' \in [Woo!PaymentIds -> Seq(Woo!Ledger!OutboxRow)]
      BY <1>4, <1>5 DEF Woo!Ledger!TypeOK, Woo!PaymentIds
    <2>5. QED
      BY <1>1, <2>2, <2>3, <2>4 DEF Woo!Ledger!TypeOK
  <1>7. payments[p].status # "refused"
    BY <1>1, <1>2 DEF Woo!Ledger!AllowedTransitions, Woo!Ledger!PaymentRow, Woo!Ledger!Statuses
  <1>8. events[p] \in Seq(Woo!Ledger!EventRow) /\ events'[p] = Append(events[p], e)
    BY <1>5 DEF Woo!Ledger!TypeOK, Woo!PaymentIds
  <1>9. to \in Entered(p)' /\ \A t : t \in Entered(p) => t \in Entered(p)'
    BY <1>4, <1>8 DEF Entered
  <1>10. /\ DOMAIN payments' = DOMAIN payments
         /\ payments'[p].store = payments[p].store /\ payments'[p].ref = payments[p].ref
         /\ payments'[p].instrument = payments[p].instrument
         /\ payments'[p].status = to
    BY <1>1, <1>2 DEF Woo!Ledger!PaymentRow
  <1>11. OthersPaid(p)
    BY <1>1, <1>5 DEF OthersPaid, Woo!Ledger!TypeOK, Woo!PaymentIds
  <1>12. QED
    BY <1>1, <1>6, <1>7, <1>9, <1>10, <1>11

\* The request goes on without another plan.
LEMMA GoingOn ==
    ASSUME WooInv, NEW r \in Requests, woo[r].pc \in Working,
           NEW pc \in {"charge", "recordFailure", "instrument", "save", "done", "failed"},
           Woo!Goto(r, pc)
    PROVE  /\ Woo!TypeOK'
           /\ \E w : /\ Becomes(r, w) /\ w.pc \in Working \cup {"done", "failed"}
                     /\ w.pc = pc /\ w.to = woo[r].to /\ w.resp = woo[r].resp
                     /\ w.answer = woo[r].answer
  <1> DEFINE w == [woo[r] EXCEPT !.pc = pc]
  <1>1. Woo!TypeOK' /\ Becomes(r, w)
    BY GotoDoes DEF WooInv, TypeOK
  <1>2. w.pc = pc /\ w.to = woo[r].to /\ w.resp = woo[r].resp /\ w.answer = woo[r].answer
    BY WorkingFacts DEF Woo!RequestState
  <1> HIDE DEF w
  <1>3. QED
    BY <1>1, <1>2 DEF Working

LEMMA MoveInv ==
    ASSUME WooInv, NEW r \in Requests, Woo!Move(r), UNCHANGED <<acked, todo>>
    PROVE  WooInv'
  <1>1. /\ woo[r].pc = "move" /\ woo[r].pc \in Working
        /\ UNCHANGED <<keys, providerVars, koinVars, shopVars>>
    BY DEF Woo!Move, Woo!At, koinVars, providerVars, shopVars, Woo!koinVars,
           Woo!providerVars, Woo!shopVars, Working
  <1>2. /\ ChargeOf(r) /\ EvidenceOf(r) /\ Planned(r) /\ r \in DOMAIN payments
        /\ woo[r] \in Woo!RequestState
    BY <1>1, WorkingFacts DEF AnswerOf
  <1>3. PICK to : to = woo[r].to /\ to \in Woo!Statuses
    BY <1>2 DEF Woo!RequestState
  <1>4. /\ Woo!Keys!TypeOK' /\ Woo!Provider!BothTypeOK' /\ Woo!Risk!TypeOK'
        /\ hooks' = hooks /\ KeysKept /\ callbacks' = callbacks
    BY <1>1, PartsStay DEF WooInv, providerVars, koinVars, KeysKept
  <1>5. CASE Woo!Goto(r, "failed") /\ UNCHANGED ledger
    <2>1. PICK w : /\ Becomes(r, w) /\ w.pc \in Working \cup {"done", "failed"}
                   /\ w.pc = "failed"
      BY <1>1, <1>5, GoingOn
    <2>2. Woo!TypeOK'
      BY <1>1, <1>5, GoingOn
    <2>3. QED
      BY <1>1, <1>2, <1>4, <1>5, <2>1, <2>2, QuietMove, WorkingFacts
  <1>6. CASE /\ Woo!Ledger!Transition(r, Woo!StoreOf(r), to)
             /\ Woo!Goto(r, IF to = "approved_risk" THEN "charge" ELSE "save")
    <2>1. PICK w : /\ Becomes(r, w) /\ w.pc \in Working \cup {"done", "failed"}
                   /\ w.pc = (IF to = "approved_risk" THEN "charge" ELSE "save")
                   /\ w.to = to /\ w.resp = woo[r].resp /\ w.answer = woo[r].answer
      BY <1>1, <1>3, <1>6, GoingOn
    <2>2. Woo!TypeOK'
      BY <1>1, <1>6, GoingOn
    <2>3. PICK s : s = Woo!StoreOf(r)
      OBVIOUS
    <2>4. /\ Woo!Ledger!TypeOK' /\ UNCHANGED charges
          /\ DOMAIN payments' = DOMAIN payments
          /\ payments'[r].store = payments[r].store /\ payments'[r].ref = payments[r].ref
          /\ payments'[r].instrument = payments[r].instrument
          /\ payments'[r].status = to /\ payments[r].status # "refused"
          /\ to \in Entered(r)' /\ \A t : t \in Entered(r) => t \in Entered(r)'
          /\ OthersPaid(r)
      BY <1>3, <1>6, <2>3, TransitionDoes DEF WooInv, TypeOK
    <2>5. OthersKept(r) /\ Keeps(r)
      BY <1>1, <2>1, <2>4 DEF OthersKept, OthersPaid, Keeps, Becomes, providerVars, Taken
    <2>6. ChargeOf(r)'
      BY <1>1, <1>2, <1>3, <2>1, <2>4 DEF ChargeOf, Becomes, providerVars
    <2>7. EvidenceOf(r)'
      <3>1. to # "captured"
        BY <1>2, <1>3 DEF Planned
      <3>2. to = "refused" => Marked(r)' \/ NotCharged(r)'
        BY <1>1, <1>2, <1>3, <2>4 DEF EvidenceOf, Refusing, Marked, NotCharged, providerVars
      <3>3. QED
        BY <2>1, <2>4, <3>1, <3>2 DEF EvidenceOf, Becomes, Refusing
    <2>8. AnswerOf(r)'
      <3> SUFFICES ASSUME to # "approved_risk"
                   PROVE  (woo[r].resp \in Woo!Responses /\ Fits(woo[r].resp, r))'
        BY <2>1 DEF AnswerOf, Becomes
      <3>1. PICK x : x = woo[r].resp
        OBVIOUS
      <3>2. CASE to = "refused" /\ x = Woo!Say("error")
        <4>1. x \in Woo!Responses /\ x.status = "error" /\ ~x.code
          BY <3>2, SayDoes DEF Woo!ResponseStatuses
        <4>2. QED
          BY <2>1, <2>4, <3>1, <3>2, <4>1 DEF Becomes, Fits
      <3>3. CASE to = "under_review" /\ x = Woo!Say("under_review")
        <4>1. x \in Woo!Responses /\ x.status = "under_review" /\ ~x.code
          BY <3>3, SayDoes DEF Woo!ResponseStatuses, Woo!Statuses
        <4>2. QED
          BY <2>1, <2>4, <3>1, <3>3, <4>1 DEF Becomes, Fits
      <3>4. CASE /\ to = "authorized" /\ x \in Woo!Responses /\ ~x.code
                 /\ x.status \in Woo!Ledger!ChargeStatuses
                 /\ x.status = "captured" => Woo!Faked(r) \/ Taken(r)
        BY <1>1, <2>1, <2>4, <3>1, <3>4
        DEF Becomes, Fits, Woo!Ledger!ChargeStatuses, Woo!Faked, Woo!SellerOf, Taken,
            providerVars
      <3>5. CASE /\ to = "waiting_payment"
                 /\ x = [status |-> "waiting_payment", code |-> TRUE]
                 /\ payments[r].instrument # "none"
        <4>1. x \in Woo!Responses /\ x.status = "waiting_payment"
          BY <3>5 DEF Woo!Responses, Woo!ResponseStatuses, Woo!Statuses
        <4>2. QED
          BY <2>1, <2>4, <3>1, <3>5, <4>1 DEF Becomes, Fits
      <3>6. QED
        BY <1>2, <1>3, <3>1, <3>2, <3>3, <3>4, <3>5 DEF Planned
    <2>9. QED
      BY <1>1, <1>4, <2>1, <2>2, <2>4, <2>5, <2>6, <2>7, <2>8, WorkingStep
  <1>7. QED
    BY <1>3, <1>5, <1>6 DEF Woo!Move, ledger, Woo!ledger

LEMMA SaveChargeDoes ==
    ASSUME Woo!Ledger!TypeOK, NEW p \in Requests, NEW row \in Woo!Ledger!ChargeRow,
           Woo!Ledger!SaveProviderCharge(p, row)
    PROVE  /\ Woo!Ledger!TypeOK' /\ UNCHANGED <<payments, events>>
           /\ charges[p] = <<>> => charges'[p] = <<row>>
           /\ OthersPaid(p)
  <1>1. /\ charges' = [charges EXCEPT ![p] = Append(@, row)]
        /\ UNCHANGED <<payments, events, outbox>>
    BY DEF Woo!Ledger!SaveProviderCharge
  <1>2. charges[p] \in Seq(Woo!Ledger!ChargeRow) /\ charges'[p] = Append(charges[p], row)
    BY <1>1 DEF Woo!Ledger!TypeOK, Woo!PaymentIds
  <1>3. Woo!Ledger!TypeOK'
    BY <1>1, <1>2 DEF Woo!Ledger!TypeOK, Woo!PaymentIds
  <1>4. OthersPaid(p)
    BY <1>1 DEF Woo!Ledger!TypeOK, Woo!PaymentIds, OthersPaid
  <1>5. Append(<<>>, row) = <<row>>
    OBVIOUS
  <1>6. charges[p] = <<>> => charges'[p] = <<row>>
    BY <1>2, <1>5, Zenon
  <1>7. QED
    BY <1>1, <1>3, <1>4, <1>6

LEMMA RecordFailureInv ==
    ASSUME WooInv, NEW r \in Requests, Woo!RecordFailure(r), UNCHANGED <<acked, todo>>
    PROVE  WooInv'
  <1> DEFINE row == [providerId |-> NoProviderId, status |-> "failed"]
             x == Woo!Say("error")
  <1>1. /\ woo[r].pc = "recordFailure" /\ woo[r].pc \in Working
        /\ UNCHANGED <<keys, providerVars, koinVars, shopVars>>
        /\ Woo!GotoMove(r, "refused", x)
    BY DEF Woo!RecordFailure, Woo!At, koinVars, providerVars, shopVars, Woo!koinVars,
           Woo!providerVars, Woo!shopVars, Working
  <1>2. ChargeOf(r) /\ EvidenceOf(r) /\ charges[r] = <<>>
    BY <1>1, WorkingFacts DEF ChargeOf
  <1>3. x \in Woo!Responses /\ "refused" \in Woo!Statuses
    BY SayDoes DEF Woo!ResponseStatuses, Woo!Statuses
  <1>4. row \in Woo!Ledger!ChargeRow /\ row.providerId = NoProviderId
    BY DEF Woo!Ledger!ChargeRow, Woo!Ledger!ChargeStatuses
  <1>5. Woo!Ledger!SaveProviderCharge(r, row)
    BY DEF Woo!RecordFailure
  <1>6. PICK w : /\ Becomes(r, w) /\ w.pc \in Working \cup {"done", "failed"}
                 /\ w.pc = "move" /\ w.to = "refused" /\ w.resp = x
                 /\ w.answer = woo[r].answer
    BY <1>1, <1>3, PlanningStep
  <1>7. Woo!TypeOK'
    BY <1>1, <1>3, PlanningStep
  <1> HIDE DEF row
  <1>8. /\ Woo!Ledger!TypeOK' /\ UNCHANGED <<payments, events>>
        /\ charges'[r] = <<row>> /\ OthersPaid(r)
    BY <1>2, <1>4, <1>5, SaveChargeDoes DEF WooInv, TypeOK
  <1>9. OthersKept(r) /\ Keeps(r)
    BY <1>1, <1>6, <1>8 DEF OthersKept, OthersPaid, Keeps, Becomes, providerVars, Entered, Taken
  <1>10. ChargeOf(r)'
    BY <1>1, <1>2, <1>6 DEF ChargeOf, Becomes, providerVars
  <1>11. EvidenceOf(r)'
    BY <1>1, <1>2, <1>4, <1>6, <1>8 DEF EvidenceOf, Becomes, providerVars, Marked, Taken
  <1>12. AnswerOf(r)'
    BY <1>6 DEF AnswerOf, Becomes, Planned
  <1>13. /\ Woo!Keys!TypeOK' /\ Woo!Provider!BothTypeOK' /\ Woo!Risk!TypeOK'
         /\ hooks' = hooks /\ KeysKept /\ callbacks' = callbacks
    BY <1>1, PartsStay DEF WooInv, providerVars, koinVars, KeysKept
  <1>14. QED
    BY <1>1, <1>6, <1>7, <1>8, <1>9, <1>10, <1>11, <1>12, <1>13, WorkingStep

LEMMA RecordChargeInv ==
    ASSUME WooInv, NEW r \in Requests, Woo!RecordCharge(r), UNCHANGED <<acked, todo>>
    PROVE  WooInv'
  <1>1. /\ woo[r].pc = "record" /\ woo[r].pc \in Working
        /\ UNCHANGED <<keys, providerVars, koinVars, shopVars>>
    BY DEF Woo!RecordCharge, Woo!At, koinVars, providerVars, shopVars, Woo!koinVars,
           Woo!providerVars, Woo!shopVars, Working
  <1>2. ChargeOf(r) /\ EvidenceOf(r) /\ charges[r] = <<>> /\ r \in DOMAIN payments
    BY <1>1, WorkingFacts DEF ChargeOf
  <1>3. PICK a : a = woo[r].answer
    OBVIOUS
  <1>4. /\ a.id \in Woo!ProviderIds \cup {NoProviderId} /\ a.status \in Woo!Ledger!ChargeStatuses
        /\ a.code \in BOOLEAN
    <2>1. a \in [id : Woo!ProviderIds, status : Woo!Ledger!ChargeStatuses, code : BOOLEAN]
               \cup {Woo!NoResult}
      BY <1>1, <1>3, WorkingFacts DEF Woo!RequestState
    <2>2. CASE a = Woo!NoResult
      <3>1. a.id = NoProviderId /\ a.status = "failed" /\ a.code = FALSE
        BY <2>2 DEF Woo!NoResult
      <3>2. QED
        BY <3>1 DEF Woo!Ledger!ChargeStatuses
    <2>3. QED
      BY <2>1, <2>2
  <1> DEFINE row == [providerId |-> a.id, status |-> a.status]
  <1>5. row \in Woo!Ledger!ChargeRow
    BY <1>4 DEF Woo!Ledger!ChargeRow
  <1>6. Woo!Ledger!SaveProviderCharge(r, row)
    BY <1>3 DEF Woo!RecordCharge
  <1> HIDE DEF row
  <1>7. /\ Woo!Ledger!TypeOK' /\ UNCHANGED <<payments, events>>
        /\ charges'[r] = <<row>> /\ OthersPaid(r)
    BY <1>2, <1>5, <1>6, SaveChargeDoes DEF WooInv, TypeOK
  <1>8. /\ Woo!Keys!TypeOK' /\ Woo!Provider!BothTypeOK' /\ Woo!Risk!TypeOK'
        /\ hooks' = hooks /\ KeysKept /\ callbacks' = callbacks
    BY <1>1, PartsStay DEF WooInv, providerVars, koinVars, KeysKept
  <1>9. /\ a.status = "failed" => NotCharged(r)
        /\ a.status = "captured" => Woo!Faked(r) \/ Taken(r)
        /\ a.code => a.status = "waiting_payment" /\ Woo!MethodOf(r) # "credit_card"
        /\ payments[r].status = "captured" => Taken(r)
        /\ payments[r].status = "refused" => NotCharged(r)
    BY <1>1, <1>2, <1>3 DEF EvidenceOf, Refusing, Marked
  <1>10. ASSUME NEW w, Becomes(r, w), w.pc \in {"move", "instrument"},
                w.pc = "move" => w.to # "approved_risk",
                w.pc = "move" /\ w.to = "refused" => NotCharged(r),
                w.pc = "instrument" => w.answer = a /\ a.code,
                Woo!TypeOK', AnswerOf(r)'
         PROVE  WooInv'
    <2>1. OthersKept(r) /\ Keeps(r)
      BY <1>1, <1>7, <1>10 DEF OthersKept, OthersPaid, Keeps, Becomes, providerVars, Entered,
                               Taken
    <2>2. ChargeOf(r)'
      BY <1>1, <1>2, <1>10 DEF ChargeOf, Becomes, providerVars
    <2>3. (NotCharged(r) => NotCharged(r)') /\ (Taken(r) => Taken(r)')
      BY <1>1 DEF NotCharged, Taken, providerVars
    <2>4. EvidenceOf(r)'
      BY <1>7, <1>9, <1>10, <2>3 DEF EvidenceOf, Becomes, Refusing, Woo!MethodOf
    <2>5. w.pc \in Working \cup {"done", "failed"}
      BY <1>10 DEF Working
    <2>6. QED
      BY <1>1, <1>7, <1>8, <1>10, <2>1, <2>2, <2>4, <2>5, WorkingStep
  <1>11. CASE a.status = "failed"
    <2>1. Woo!GotoMove(r, "refused", Woo!Say("error"))
      BY <1>3, <1>11 DEF Woo!RecordCharge
    <2>2. PICK x : x = Woo!Say("error")
      OBVIOUS
    <2>3. x \in Woo!Responses /\ "refused" \in Woo!Statuses
      BY <2>2, SayDoes DEF Woo!ResponseStatuses, Woo!Statuses
    <2>4. PICK w : /\ Becomes(r, w) /\ w.pc \in Working \cup {"done", "failed"}
                   /\ w.pc = "move" /\ w.to = "refused" /\ w.resp = x
                   /\ w.answer = woo[r].answer
      BY <1>1, <2>1, <2>2, <2>3, PlanningStep
    <2>5. Woo!TypeOK'
      BY <1>1, <2>1, <2>2, <2>3, PlanningStep
    <2>6. AnswerOf(r)'
      BY <2>2, <2>4 DEF AnswerOf, Becomes, Planned
    <2>7. QED
      BY <1>9, <1>10, <1>11, <2>4, <2>5, <2>6
  <1>12. CASE a.status # "failed" /\ a.code
    <2>1. Woo!Goto(r, "instrument")
      BY <1>3, <1>12 DEF Woo!RecordCharge
    <2>2. PICK w : /\ Becomes(r, w) /\ w.pc \in Working \cup {"done", "failed"}
                   /\ w.pc = "instrument" /\ w.to = woo[r].to /\ w.resp = woo[r].resp
                   /\ w.answer = woo[r].answer
      BY <1>1, <2>1, GoingOn
    <2>3. Woo!TypeOK'
      BY <1>1, <2>1, GoingOn
    <2>4. AnswerOf(r)'
      BY <2>2 DEF AnswerOf, Becomes
    <2>5. QED
      BY <1>3, <1>10, <1>12, <2>2, <2>3, <2>4
  <1>13. CASE a.status # "failed" /\ ~a.code
    <2>1. Woo!GotoMove(r, "authorized", Woo!Say(a.status))
      BY <1>3, <1>13 DEF Woo!RecordCharge
    <2>2. PICK x : x = Woo!Say(a.status)
      OBVIOUS
    <2>3. /\ x \in Woo!Responses /\ "authorized" \in Woo!Statuses
          /\ x.status = a.status /\ x.code = FALSE
      <3>1. a.status \in Woo!ResponseStatuses
        BY <1>4 DEF Woo!ResponseStatuses, Woo!Statuses, Woo!Ledger!ChargeStatuses
      <3>2. QED
        BY <2>2, <3>1, SayDoes DEF Woo!Statuses
    <2>4. PICK w : /\ Becomes(r, w) /\ w.pc \in Working \cup {"done", "failed"}
                   /\ w.pc = "move" /\ w.to = "authorized" /\ w.resp = x
                   /\ w.answer = woo[r].answer
      BY <1>1, <2>1, <2>2, <2>3, PlanningStep
    <2>5. Woo!TypeOK'
      BY <1>1, <2>1, <2>2, <2>3, PlanningStep
    <2>6. AnswerOf(r)'
      <3>1. x.status = "captured" => Woo!Faked(r)' \/ Taken(r)'
        BY <1>1, <1>9, <2>3, <2>4 DEF Becomes, Woo!Faked, Woo!SellerOf, Taken, providerVars
      <3>2. QED
        BY <1>4, <2>3, <2>4, <3>1 DEF AnswerOf, Becomes, Planned
    <2>7. QED
      BY <1>10, <2>4, <2>5, <2>6
  <1>14. QED
    BY <1>4, <1>11, <1>12, <1>13

LEMMA InstrumentDoes ==
    ASSUME Woo!Ledger!TypeOK, NEW p \in Requests, NEW s, NEW i \in {"pix", "boleto"},
           Woo!Ledger!UpdateInstrument(p, s, i)
    PROVE  /\ Woo!Ledger!TypeOK' /\ UNCHANGED <<charges, events>>
           /\ p \in DOMAIN payments /\ DOMAIN payments' = DOMAIN payments
           /\ payments'[p].store = payments[p].store /\ payments'[p].ref = payments[p].ref
           /\ payments'[p].status = payments[p].status /\ payments'[p].instrument = i
           /\ OthersPaid(p)
  <1>1. /\ payments' = [payments EXCEPT ![p].instrument = i] /\ p \in DOMAIN payments
        /\ UNCHANGED <<events, outbox, charges>>
    BY DEF Woo!Ledger!UpdateInstrument, Woo!Ledger!InScope, Woo!Ledger!Exists
  <1> DEFINE row == [payments[p] EXCEPT !.instrument = i]
  <1>2. /\ row \in Woo!Ledger!PaymentRow /\ payments' = [payments EXCEPT ![p] = row]
        /\ row.store = payments[p].store /\ row.ref = payments[p].ref
        /\ row.status = payments[p].status /\ row.instrument = i
    BY <1>1 DEF Woo!Ledger!TypeOK, Woo!Ledger!PaymentRow, Woo!Ledger!Instruments
  <1> HIDE DEF row
  <1>3. QED
    BY <1>1, <1>2 DEF Woo!Ledger!TypeOK, OthersPaid

LEMMA SaveInstrumentInv ==
    ASSUME WooInv, NEW r \in Requests, Woo!SaveInstrument(r), UNCHANGED <<acked, todo>>
    PROVE  WooInv'
  <1>1. /\ woo[r].pc = "instrument" /\ woo[r].pc \in Working
        /\ UNCHANGED <<keys, providerVars, koinVars, shopVars>>
    BY DEF Woo!SaveInstrument, Woo!At, koinVars, providerVars, shopVars, Woo!koinVars,
           Woo!providerVars, Woo!shopVars, Working
  <1>2. /\ ChargeOf(r) /\ EvidenceOf(r) /\ woo[r].answer.status = "waiting_payment"
        /\ Woo!MethodOf(r) # "credit_card"
    BY <1>1, WorkingFacts DEF EvidenceOf
  <1>3. PICK s, i : s = Woo!StoreOf(r) /\ i = Woo!MethodOf(r)
    OBVIOUS
  <1>4. i \in {"pix", "boleto"}
    BY <1>2, <1>3, RequestTypes DEF WooInv, TypeOK
  <1>5. PICK x : x = [status |-> "waiting_payment", code |-> TRUE]
    OBVIOUS
  <1>6. /\ Woo!Ledger!UpdateInstrument(r, s, i) /\ Woo!GotoMove(r, "waiting_payment", x)
    BY <1>2, <1>3, <1>5 DEF Woo!SaveInstrument
  <1>7. x \in Woo!Responses /\ "waiting_payment" \in Woo!Statuses
    BY <1>5 DEF Woo!Responses, Woo!ResponseStatuses, Woo!Statuses
  <1>8. PICK w : /\ Becomes(r, w) /\ w.pc \in Working \cup {"done", "failed"}
                 /\ w.pc = "move" /\ w.to = "waiting_payment" /\ w.resp = x
                 /\ w.answer = woo[r].answer
    BY <1>1, <1>6, <1>7, PlanningStep
  <1>9. Woo!TypeOK'
    BY <1>1, <1>6, <1>7, PlanningStep
  <1>10. /\ Woo!Ledger!TypeOK' /\ UNCHANGED <<charges, events>>
         /\ r \in DOMAIN payments /\ DOMAIN payments' = DOMAIN payments
         /\ payments'[r].store = payments[r].store /\ payments'[r].ref = payments[r].ref
         /\ payments'[r].status = payments[r].status /\ payments'[r].instrument = i
         /\ OthersPaid(r)
    BY <1>4, <1>6, InstrumentDoes DEF WooInv, TypeOK
  <1>11. OthersKept(r) /\ Keeps(r)
    BY <1>1, <1>4, <1>8, <1>10 DEF OthersKept, OthersPaid, Keeps, Becomes, providerVars,
                                   Entered, Taken
  <1>12. ChargeOf(r)'
    BY <1>1, <1>2, <1>8 DEF ChargeOf, Becomes, providerVars
  <1>13. EvidenceOf(r)'
    BY <1>1, <1>2, <1>8, <1>10 DEF EvidenceOf, Becomes, Refusing, NotCharged, Marked, Taken,
       providerVars
  <1>14. AnswerOf(r)'
    BY <1>4, <1>5, <1>8, <1>10 DEF AnswerOf, Becomes, Planned
  <1>15. /\ Woo!Keys!TypeOK' /\ Woo!Provider!BothTypeOK' /\ Woo!Risk!TypeOK'
         /\ hooks' = hooks /\ KeysKept /\ callbacks' = callbacks
    BY <1>1, PartsStay DEF WooInv, providerVars, koinVars, KeysKept
  <1>16. QED
    BY <1>1, <1>8, <1>9, <1>10, <1>11, <1>12, <1>13, <1>14, <1>15, WorkingStep

LEMMA SaveResponseInv ==
    ASSUME WooInv, NEW r \in Requests, Woo!SaveResponse(r), UNCHANGED <<acked, todo>>
    PROVE  WooInv'
  <1>1. /\ woo[r].pc = "save" /\ woo[r].pc \in Working
        /\ UNCHANGED <<ledger, providerVars, koinVars, shopVars>>
        /\ Woo!Goto(r, "done")
    BY DEF Woo!SaveResponse, Woo!At, ledger, koinVars, providerVars, shopVars, Woo!ledger,
           Woo!koinVars, Woo!providerVars, Woo!shopVars, Working
  <1>2. PICK s, k, x : s = Woo!StoreOf(r) /\ k = Woo!RefOf(r) /\ x = woo[r].resp
    OBVIOUS
  <1>3. /\ keys' = [keys EXCEPT ![<<s, k>>].response = x]
        /\ x \in Woo!Responses /\ Fits(x, r) /\ r \in DOMAIN payments
        /\ payments[r].store = s /\ payments[r].ref = k /\ call[r].pc = "done"
    BY <1>1, <1>2, WorkingFacts DEF AnswerOf, Woo!SaveResponse, Woo!Keys!SaveResponse
  <1>4. PICK w : /\ Becomes(r, w) /\ w.pc \in Working \cup {"done", "failed"}
                 /\ w.pc = "done" /\ w.to = woo[r].to /\ w.resp = x
                 /\ w.answer = woo[r].answer
    BY <1>1, <1>2, GoingOn
  <1>5. Woo!TypeOK'
    BY <1>1, GoingOn
  <1>6. Keeps(r)
    BY <1>1, <1>4 DEF Keeps, Becomes, ledger, providerVars, Entered, Taken
  <1>7. Fits(x, r)'
    BY <1>3, <1>6, FitsStays
  <1>8. r \in DOMAIN payments' /\ payments'[r].store = s /\ payments'[r].ref = k
    BY <1>1, <1>3 DEF ledger
  <1>9. (r \in Woo!PaymentsOfAttempt(r))'
    BY <1>1, <1>2, <1>4, <1>8 DEF Becomes, shopVars, Woo!PaymentsOfAttempt,
       Woo!Ledger!FindByExternalRef, Woo!StoreOf, Woo!RefOf, Woo!SellerOf
  <1>10. AnswerOf(r)'
    BY <1>3, <1>4, <1>7, <1>9, Answers DEF Becomes
  <1>11. Woo!Keys!TypeOK'
    BY <1>3 DEF WooInv, TypeOK, Woo!Keys!TypeOK, Woo!Keys!KeyRow
  <1>12. KeysKept
    <2> SUFFICES ASSUME NEW y \in DOMAIN keys', ~(y \in DOMAIN keys /\ keys'[y] = keys[y])
                 PROVE  KeyFits(y)'
      BY DEF KeysKept
    <2>1. y = <<s, k>> /\ keys'[y].response = x
      BY <1>3 DEF WooInv, TypeOK, Woo!Keys!TypeOK, Woo!Keys!KeyRow
    <2>2. y[1] = s /\ y[2] = k
      BY <2>1
    <2>3. QED
      BY <1>7, <1>8, <2>1, <2>2 DEF KeyFits
  <1>13. woo[r].pc # "unsent"
    BY <1>1
  <1>14. QED
    BY <1>1, <1>3, <1>4, <1>5, <1>10, <1>11, <1>12, <1>13, QuietMove

------------------------------------------------------------------------------
(***************************************************************************)
(* The charge, and what happens at Zoop.                                   *)
(***************************************************************************)
ChargeResult == [id : Woo!ProviderIds, status : Woo!Ledger!ChargeStatuses, code : BOOLEAN]

\* The provider has executed the first charge of p, and x is its answer.
Charged(f, p, x) ==
    /\ \A q \in Requests \ {p} : zoop'[q] = zoop[q]
    /\ Len(zoop'[p]) <= 1
    /\ x.status = "failed" => NotCharged(p)'
    /\ x.status = "captured" => f \/ Taken(p)'
    /\ hooks \subseteq hooks' /\ \A h \in hooks' : h \in hooks \/ HookOf(h)'

LEMMA ChargeDoes ==
    ASSUME Woo!Provider!BothTypeOK, NEW p \in Requests,
           NEW m \in {"credit_card", "pix", "boleto"}, NEW f \in BOOLEAN,
           NEW o \in Woo!Provider!Outcomes(f, m, TRUE),
           Woo!Provider!Charge(f, p, m, TRUE, o), zoop[p] = <<>>,
           NEW x, x = Woo!Provider!ResultOf(f, p, m, o)
    PROVE  /\ Woo!Provider!BothTypeOK' /\ Charged(f, p, x) /\ x \in ChargeResult
           /\ x.code => x.status = "waiting_payment" /\ m # "credit_card"
  <1>1. MaxTxns \in Nat
    BY LedgerConstants
  <1>2. CASE f
    <2>1. /\ Len(fake[p]) < MaxTxns /\ fake' = [fake EXCEPT ![p] = Append(@, o.status)]
          /\ UNCHANGED <<zoop, hooks>>
      BY <1>2 DEF Woo!Provider!Charge, Woo!Provider!Fake!Register, Woo!Provider!zoopVars
    <2>2. /\ o.status \in {"failed", "captured", "waiting_payment"} /\ o.code \in BOOLEAN
          /\ o.code => o.status = "waiting_payment" /\ m # "credit_card"
      <3>1. o \in Woo!Provider!Fake!Outcomes(m, TRUE)
        BY <1>2 DEF Woo!Provider!Outcomes
      <3>2. CASE m = "credit_card"
        <4>1. PICK s \in {"failed", "captured"} : o = [status |-> s, code |-> FALSE]
          BY <3>1, <3>2 DEF Woo!Provider!Fake!Outcomes
        <4>2. o.status = s /\ o.code = FALSE
          BY <4>1
        <4>3. QED
          BY <4>2
      <3>3. CASE m # "credit_card"
        <4>1. o = [status |-> "waiting_payment", code |-> TRUE]
          BY <3>1, <3>3 DEF Woo!Provider!Fake!Outcomes
        <4>2. o.status = "waiting_payment" /\ o.code = TRUE
          BY <4>1
        <4>3. QED
          BY <3>3, <4>2
      <3>4. QED
        BY <3>2, <3>3
    <2>3. /\ fake[p] \in Seq(Woo!Provider!Fake!FakeStatuses) /\ Len(fake[p]) \in Nat
          /\ \A q \in Requests : fake[q] \in Seq(Woo!Provider!Fake!FakeStatuses)
      BY DEF Woo!Provider!BothTypeOK, Woo!Provider!Fake!TypeOK, Woo!PaymentIds
    <2> DEFINE g == Append(fake[p], o.status)
    <2>4. g \in Seq(Woo!Provider!Fake!FakeStatuses) /\ Len(g) = Len(fake[p]) + 1
      BY <2>2, <2>3 DEF Woo!Provider!Fake!FakeStatuses
    <2>5. fake' = [fake EXCEPT ![p] = g]
      BY <2>1
    <2> HIDE DEF g
    <2>6. Woo!Provider!Fake!TypeOK'
      BY <1>1, <2>1, <2>3, <2>4, <2>5 DEF Woo!Provider!BothTypeOK, Woo!Provider!Fake!TypeOK,
         Woo!PaymentIds
    <2>7. Woo!Provider!TypeOK'
      BY <2>1 DEF Woo!Provider!BothTypeOK, Woo!Provider!TypeOK
    <2>8. <<p, 1 + Len(fake[p])>> \in Woo!ProviderIds
      BY <1>1, <2>1, <2>3 DEF Woo!ProviderIds, Woo!PaymentIds
    <2>9. x = [id |-> <<p, 1 + Len(fake[p])>>, status |-> o.status, code |-> o.code]
      BY <1>2 DEF Woo!Provider!ResultOf
    <2>10. x \in ChargeResult /\ x.status = o.status /\ x.code = o.code
      BY <2>2, <2>8, <2>9 DEF ChargeResult, Woo!Ledger!ChargeStatuses
    <2>11. Charged(f, p, x)
      <3>1. /\ \A q \in Requests \ {p} : zoop'[q] = zoop[q]
            /\ Len(zoop'[p]) <= 1 /\ NotCharged(p)' /\ hooks' = hooks
        BY <2>1 DEF NotCharged
      <3>2. QED
        BY <1>2, <3>1, Zenon DEF Charged
    <2>12. QED
      BY <2>2, <2>6, <2>7, <2>10, <2>11, Zenon DEF Woo!Provider!BothTypeOK
  <1>3. CASE ~f
    <2>1. Woo!Provider!CreateCharge(p, m, TRUE, o.status) /\ UNCHANGED fake
      BY <1>3 DEF Woo!Provider!Charge
    <2>2. /\ o.status \in {"pending", "failed", "succeeded"} /\ o.code \in BOOLEAN
          /\ o.code => o.status # "failed" /\ m # "credit_card"
          /\ m # "credit_card" => o.status # "succeeded"
      BY <1>3 DEF Woo!Provider!Outcomes, Woo!Provider!FirstStatuses
    <2> DEFINE t == [method |-> m, status |-> o.status, refunded |-> 0,
                     capture |-> TRUE /\ m = "credit_card", paidOut |-> FALSE]
    <2>3. t \in Woo!Provider!Txn /\ t.status = o.status
      BY <2>2 DEF Woo!Provider!Txn, Woo!Provider!TxnStatuses, Woo!Provider!FullAmount,
                  Woo!Provider!Methods
    <2>4. /\ Len(zoop[p]) < MaxTxns /\ zoop' = [zoop EXCEPT ![p] = Append(@, t)]
          /\ hooks' = hooks \cup Woo!Provider!FirstHooks(p, o.status)
      BY <2>1 DEF Woo!Provider!CreateCharge
    <2> HIDE DEF t
    <2>5. /\ zoop'[p] = <<t>> /\ zoop'[p] # <<>> /\ Len(zoop'[p]) = 1
          /\ \A q \in Requests \ {p} : zoop'[q] = zoop[q]
      BY <2>4 DEF Woo!Provider!BothTypeOK, Woo!Provider!TypeOK, Woo!PaymentIds
    <2>6. /\ Woo!Provider!FirstHooks(p, o.status) \subseteq Woo!Provider!Hook
          /\ \A h \in Woo!Provider!FirstHooks(p, o.status) :
                 /\ h.ref = p
                 /\ \/ o.status = "succeeded" /\ h.type = "transaction.succeeded"
                    \/ o.status = "failed" /\ h.type = "transaction.failed"
      BY <2>2 DEF Woo!Provider!FirstHooks, Woo!Provider!Hook, Woo!Provider!HookTypes,
                  Woo!PaymentIds
    <2>7. Woo!Provider!TypeOK'
      BY <1>1, <2>3, <2>4, <2>5, <2>6 DEF Woo!Provider!BothTypeOK, Woo!Provider!TypeOK,
         Woo!PaymentIds
    <2>8. Woo!Provider!Fake!TypeOK'
      BY <2>1 DEF Woo!Provider!BothTypeOK, Woo!Provider!Fake!TypeOK
    <2>9. <<p, 1>> \in Woo!ProviderIds
      BY <1>1, <2>4 DEF Woo!ProviderIds, Woo!PaymentIds
    <2>10. x = [id |-> <<p, 1>>, status |-> Woo!Provider!ChargeStatus(m, o.status),
                code |-> o.code]
      BY <1>3 DEF Woo!Provider!ResultOf
    <2>11. PICK s : s = Woo!Provider!ChargeStatus(m, o.status)
      OBVIOUS
    <2>12. /\ s \in Woo!Ledger!ChargeStatuses
           /\ s = "failed" => o.status = "failed"
           /\ s = "captured" => o.status = "succeeded"
           /\ o.code => s = "waiting_payment"
      BY <2>2, <2>11 DEF Woo!Provider!ChargeStatus, Woo!Provider!MapZoopStatus,
         Woo!Ledger!ChargeStatuses
    <2>13. x \in ChargeResult /\ x.status = s /\ x.code = o.code
      BY <2>2, <2>9, <2>10, <2>11, <2>12 DEF ChargeResult
    <2>14. zoop'[p][1].status = o.status
      BY <2>3, <2>5
    <2>15. \A h \in hooks' : h \in hooks \/ HookOf(h)'
      BY <2>4, <2>5, <2>6, <2>14 DEF HookOf, Taken
    <2>16. Charged(f, p, x)
      BY <2>4, <2>5, <2>12, <2>13, <2>14, <2>15 DEF Charged, NotCharged, Taken
    <2>17. QED
      BY <2>2, <2>7, <2>8, <2>12, <2>13, <2>16, Zenon DEF Woo!Provider!BothTypeOK
  <1>4. QED
    BY <1>2, <1>3

LEMMA ChargeInv ==
    ASSUME WooInv, NEW r \in Requests, Woo!Charge(r), UNCHANGED <<acked, todo>>
    PROVE  WooInv'
  <1>1. /\ woo[r].pc = "charge" /\ woo[r].pc \in Working
        /\ UNCHANGED <<ledger, keys, koinVars, shopVars>>
    BY DEF Woo!Charge, Woo!At, ledger, koinVars, shopVars, Woo!ledger, Woo!koinVars,
           Woo!shopVars, Working
  <1>2. /\ zoop[r] = <<>> /\ charges[r] = <<>> /\ payments[r].status = "approved_risk"
        /\ woo[r] \in Woo!RequestState
    BY <1>1, WorkingFacts DEF ChargeOf, EvidenceOf
  <1>3. Woo!Provider!BothTypeOK /\ Woo!TypeOK
    BY DEF WooInv, TypeOK
  <1>4. PICK m : m = Woo!MethodOf(r) /\ m \in {"credit_card", "pix", "boleto"}
    BY <1>3, RequestTypes
  <1>5. Woo!Faked(r) \in BOOLEAN
    BY DEF Woo!Faked
  <1>6. PICK f \in BOOLEAN : f = Woo!Faked(r)
    BY <1>5
  <1>7. ASSUME NEW w, Becomes(r, w), Woo!TypeOK', w.pc \in {"record", "recordFailure"},
               w.pc = "record" =>
                   /\ w.answer.status = "failed" => NotCharged(r)'
                   /\ w.answer.status = "captured" => Woo!Faked(r) \/ Taken(r)'
                   /\ w.answer.code => w.answer.status = "waiting_payment" /\ m # "credit_card",
               Woo!Provider!BothTypeOK', Len(zoop'[r]) <= 1,
               \A q \in Requests \ {r} : zoop'[q] = zoop[q],
               hooks \subseteq hooks', \A h \in hooks' : h \in hooks \/ HookOf(h)'
        PROVE  WooInv'
    <2>1. OthersKept(r) /\ Keeps(r)
      BY <1>1, <1>2, <1>7 DEF OthersKept, Keeps, Becomes, ledger, Entered, Taken
    <2>2. ChargeOf(r)'
      BY <1>1, <1>2, <1>7 DEF ChargeOf, Becomes, ledger
    <2>3. EvidenceOf(r)'
      BY <1>1, <1>2, <1>4, <1>7 DEF EvidenceOf, Becomes, Refusing, ledger, Woo!Faked,
         Woo!SellerOf, Woo!MethodOf
    <2>4. AnswerOf(r)' /\ w.pc \in Working \cup {"done", "failed"}
      BY <1>7 DEF AnswerOf, Becomes, Working
    <2>5. /\ Woo!Ledger!TypeOK' /\ Woo!Keys!TypeOK' /\ Woo!Risk!TypeOK' /\ KeysKept
          /\ DOMAIN payments' = DOMAIN payments /\ payments'[r].status = payments[r].status
          /\ callbacks' = callbacks
      BY <1>1, PartsStay DEF WooInv, ledger, koinVars, KeysKept
    <2>6. QED
      BY <1>1, <1>7, <2>1, <2>2, <2>3, <2>4, <2>5, WorkingStep
  <1>8. ASSUME NEW o \in Woo!Provider!Outcomes(f, m, TRUE), Woo!Provider!Charge(f, r, m, TRUE, o),
               NEW x, x = Woo!Provider!ResultOf(f, r, m, o)
        PROVE  /\ Woo!Provider!BothTypeOK' /\ Charged(f, r, x) /\ x \in ChargeResult
               /\ x.code => x.status = "waiting_payment" /\ m # "credit_card"
    BY <1>2, <1>3, <1>4, <1>8, ChargeDoes
  <1>9. ASSUME NEW o \in Woo!Provider!Outcomes(f, m, TRUE), Woo!Provider!Charge(f, r, m, TRUE, o),
               woo' = [woo EXCEPT ![r].pc = "record",
                                  ![r].answer = Woo!Provider!ResultOf(f, r, m, o)]
        PROVE  WooInv'
    <2>1. PICK x : x = Woo!Provider!ResultOf(f, r, m, o)
      OBVIOUS
    <2>2. /\ Woo!Provider!BothTypeOK' /\ Charged(f, r, x) /\ x \in ChargeResult
          /\ x.code => x.status = "waiting_payment" /\ m # "credit_card"
      BY <1>8, <1>9, <2>1
    <2> DEFINE w == [woo[r] EXCEPT !.pc = "record", !.answer = x]
    <2>3. /\ w \in Woo!RequestState /\ w.body = woo[r].body /\ w.pc = "record" /\ w.answer = x
      BY <1>2, <2>2 DEF Woo!RequestState, ChargeResult
    <2>4. woo' = [woo EXCEPT ![r] = w]
      BY <1>3, <1>9, <2>1 DEF Woo!TypeOK
    <2> HIDE DEF w
    <2>5. Woo!TypeOK' /\ Becomes(r, w)
      BY <1>3, <2>3, <2>4, BecomesTyped
    <2>6. /\ x.status = "failed" => NotCharged(r)'
          /\ x.status = "captured" => Woo!Faked(r) \/ Taken(r)'
      BY <1>6, <2>2, Zenon DEF Charged
    <2>7. QED
      BY <1>7, <2>2, <2>3, <2>5, <2>6 DEF Charged
  <1>10. ASSUME Woo!Goto(r, "recordFailure"), Woo!Provider!BothTypeOK', Len(zoop'[r]) <= 1,
                \A q \in Requests \ {r} : zoop'[q] = zoop[q],
                hooks \subseteq hooks', \A h \in hooks' : h \in hooks \/ HookOf(h)'
         PROVE  WooInv'
    <2>1. PICK w : /\ Becomes(r, w) /\ w.pc \in Working \cup {"done", "failed"}
                   /\ w.pc = "recordFailure" /\ w.to = woo[r].to /\ w.resp = woo[r].resp
                   /\ w.answer = woo[r].answer
      BY <1>1, <1>10, GoingOn
    <2>2. Woo!TypeOK'
      BY <1>1, <1>10, GoingOn
    <2>3. QED
      BY <1>7, <1>10, <2>1, <2>2
  <1>11. ASSUME NEW o \in Woo!Provider!Outcomes(f, m, TRUE),
                Woo!Provider!Charge(f, r, m, TRUE, o), Woo!Goto(r, "recordFailure")
         PROVE  WooInv'
    <2>1. PICK x : x = Woo!Provider!ResultOf(f, r, m, o)
      OBVIOUS
    <2>2. Woo!Provider!BothTypeOK' /\ Charged(f, r, x)
      BY <1>8, <1>11, <2>1
    <2>3. QED
      BY <1>10, <1>11, <2>2 DEF Charged
  <1>12. ASSUME UNCHANGED providerVars, Woo!Goto(r, "recordFailure")
         PROVE  WooInv'
    <2>1. Woo!Provider!BothTypeOK' /\ Len(zoop'[r]) <= 1 /\ hooks' = hooks /\ zoop' = zoop
      BY <1>2, <1>12, PartsStay DEF providerVars, WooInv
    <2>2. QED
      BY <1>10, <1>12, <2>1
  <1>13. QED
    <2>1. \/ \E o \in Woo!Provider!Outcomes(f, m, TRUE) :
                 /\ Woo!Provider!Charge(f, r, m, TRUE, o)
                 /\ woo' = [woo EXCEPT ![r].pc = "record",
                                       ![r].answer = Woo!Provider!ResultOf(f, r, m, o)]
          \/ /\ \E o \in Woo!Provider!Outcomes(f, m, TRUE) :
                    Woo!Provider!Charge(f, r, m, TRUE, o)
             /\ Woo!Goto(r, "recordFailure")
          \/ Woo!Goto(r, "recordFailure") /\ UNCHANGED providerVars
      BY <1>4, <1>6, Zenon DEF Woo!Charge, providerVars, Woo!providerVars
    <2>2. QED
      BY <1>9, <1>11, <1>12, <2>1

\* What happens to a payment from outside.
LEMMA OutsideStep ==
    ASSUME WooInv, TypeOK', UNCHANGED <<keys, shopVars, woo>>, NEW p \in Requests,
           Keeps(p), OthersKept(p), DOMAIN payments' = DOMAIN payments,
           RowOf(p)', ChargeOf(p)', EvidenceOf(p)',
           \A h \in hooks' : h \in hooks \/ HookOf(h)'
    PROVE  WooInv'
  <1>1. Shop!StoresInv' /\ OnlyProvisioning' /\ OldStoreRests
    BY QuietShops
  <1>2. \A q \in Requests \ {p} : Rests(q)
    BY DEF OthersKept, Rests, shopVars
  <1>3. \A q \in Requests : Keeps(q)
    BY <1>2, RestsKeeps
  <1>4. ProvisionOf(p)' /\ OldStoreOf(p)'
    BY DEF WooInv, RequestOf, ProvisionOf, OldStoreOf, shopVars, Woo!SellerOf
  <1>5. AnswerOf(p)'
    BY <1>3, AnswerStays DEF shopVars
  <1>6. RequestOf(p)'
    BY <1>4, <1>5 DEF RequestOf
  <1>7. Woo!Ledger!OnePaymentPerOrder'
    BY <1>3, SameRows
  <1>8. KeysKept
    BY DEF KeysKept
  <1>9. QED
    BY <1>1, <1>2, <1>6, <1>7, <1>8, RequestStep

\* Nothing but the records of the controller.
LEMMA QuietStep ==
    ASSUME WooInv, UNCHANGED <<ledger, keys, zoop, hooks, shopVars, woo>>, TypeOK'
    PROVE  WooInv'
  <1>1. Shop!StoresInv' /\ OnlyProvisioning' /\ OldStoreRests
    BY QuietShops
  <1>2. \A r \in Requests : Rests(r)
    BY DEF Rests, ledger, shopVars
  <1>3. \A r \in Requests : Keeps(r)
    BY <1>2, RestsKeeps
  <1>4. \A r \in Requests : RequestOf(r)'
    BY <1>1, <1>2, <1>3, RestingRequest
  <1>5. \A h \in hooks' : HookOf(h)'
    BY DEF WooInv, HookOf, Taken
  <1>6. \A k \in DOMAIN keys' : KeyFits(k)'
    <2>1. DOMAIN payments \subseteq Requests
      BY DEF WooInv, TypeOK, Woo!Ledger!TypeOK, Woo!PaymentIds
    <2>2. QED
      BY <1>3, <2>1, KeyStays DEF WooInv
  <1>7. Woo!Ledger!OnePaymentPerOrder'
    BY <1>3, SameRows DEF ledger
  <1>8. QED
    BY <1>1, <1>4, <1>5, <1>6, <1>7 DEF WooInv

\* What a message makes transition() enter.
LEMMA ZoopStatusIs ==
    ASSUME NEW h \in Woo!Provider!Hook
    PROVE  /\ h.ref \in Requests /\ Hooks!ZoopStatus(h.type) \in Woo!Statuses
           /\ Hooks!ZoopStatus(h.type) = "captured" =>
                  h.type \in {"transaction.paid", "transaction.succeeded"}
           /\ Hooks!ZoopStatus(h.type) = "refused" => h.type = "transaction.failed"
  BY DEF Woo!Provider!Hook, Woo!Provider!HookTypes, Woo!PaymentIds, Hooks!ZoopStatus,
         Woo!Statuses

LEMMA HooksInv ==
    ASSUME WooInv, NEW h \in hooks, Hooks!DeliverZoop(h) \/ Hooks!Swallow(h),
           UNCHANGED <<keys, fake, shopVars, woo>>
    PROVE  WooInv'
  <1>1. /\ acked' = acked \cup {h} /\ UNCHANGED <<zoop, hooks, fake, koinVars, todo>>
        /\ h \in Woo!Provider!Hook /\ HookOf(h)
    BY DEF Hooks!DeliverZoop, Hooks!Swallow, Hooks!koinVars, koinVars, WooInv, TypeOK,
           Woo!Provider!BothTypeOK, Woo!Provider!TypeOK
  <1>2. ASSUME Woo!Ledger!TypeOK' PROVE TypeOK'
    <2>1. Hooks!TypeOK'
      BY <1>1 DEF WooInv, TypeOK, Hooks!TypeOK, koinVars
    <2>2. /\ Woo!Keys!TypeOK' /\ Woo!Provider!BothTypeOK' /\ Woo!Risk!TypeOK' /\ Woo!TypeOK'
      BY <1>1, PartsStay DEF WooInv, providerVars
    <2>3. Woo!Shops!TypeOK'
      BY DEF WooInv, TypeOK, Woo!Shops!TypeOK, shopVars
    <2>4. QED
      BY <1>2, <2>1, <2>2, <2>3 DEF TypeOK
  <1>3. CASE UNCHANGED ledger
    BY <1>1, <1>2, <1>3, PartsStay, QuietStep DEF WooInv
  <1>4. CASE Hooks!Ledger!Transition(h.ref, AnyStore, Hooks!ZoopStatus(h.type))
    <2>1. PICK p \in Requests, to \in Woo!Statuses :
              p = h.ref /\ to = Hooks!ZoopStatus(h.type)
      BY <1>1, ZoopStatusIs
    <2>2. Woo!Ledger!Transition(p, AnyStore, to)
      BY <1>4, <2>1, HooksLedger
    <2>3. /\ Woo!Ledger!TypeOK' /\ UNCHANGED charges
          /\ p \in DOMAIN payments /\ DOMAIN payments' = DOMAIN payments
          /\ payments'[p].store = payments[p].store /\ payments'[p].ref = payments[p].ref
          /\ payments'[p].instrument = payments[p].instrument
          /\ payments'[p].status = to /\ payments[p].status # "refused"
          /\ to \in Entered(p)' /\ \A t : t \in Entered(p) => t \in Entered(p)'
          /\ OthersPaid(p)
      BY <2>2, TransitionDoes DEF WooInv, TypeOK
    <2>4. /\ zoop[p] # <<>>
          /\ to = "captured" => Taken(p)
          /\ to = "refused" => NotCharged(p)
      BY <1>1, <2>1, ZoopStatusIs DEF HookOf, NotCharged
    <2>5. RowOf(p) /\ ChargeOf(p) /\ EvidenceOf(p)
      BY DEF WooInv, RequestOf
    <2>6. Keeps(p) /\ OthersKept(p)
      BY <1>1, <2>3 DEF Keeps, OthersKept, OthersPaid, Taken
    <2>7. RowOf(p)'
      BY <2>3, <2>5 DEF RowOf, shopVars, Woo!StoreOf, Woo!RefOf, Woo!SellerOf
    <2>8. ChargeOf(p)'
      BY <1>1, <2>3, <2>5 DEF ChargeOf
    <2>9. EvidenceOf(p)'
      <3>1. woo[p].pc # "charge"
        BY <2>4, <2>5 DEF ChargeOf
      <3>2. /\ Taken(p) <=> Taken(p)'
            /\ NotCharged(p) <=> NotCharged(p)'
            /\ Marked(p) <=> Marked(p)'
        BY <1>1, <2>3 DEF Taken, NotCharged, Marked
      <3>3. QED
        BY <2>3, <2>4, <2>5, <3>1, <3>2 DEF EvidenceOf, Refusing, Woo!Faked, Woo!SellerOf,
           Woo!MethodOf
    <2>10. QED
      BY <1>1, <1>2, <2>3, <2>6, <2>7, <2>8, <2>9, OutsideStep
  <1>5. QED
    BY <1>3, <1>4 DEF Hooks!DeliverZoop, Hooks!Swallow, Hooks!ledger, ledger

LEMMA OnlyTxn ==
    ASSUME WooInv, NEW id \in Txns
    PROVE  /\ id[1] \in Requests /\ id = <<id[1], 1>> /\ id[2] = 1
           /\ zoop[id[1]] # <<>> /\ Len(zoop[id[1]]) = 1
           /\ zoop[id[1]][1] \in Woo!Provider!Txn /\ TxnOf(id) = zoop[id[1]][1]
  <1>1. PICK p \in Requests, i \in 1 .. MaxTxns : id = <<p, i>> /\ i <= Len(zoop[p])
    BY DEF Txns, Woo!Provider!Txns, Woo!Provider!TxnIds, Woo!PaymentIds
  <1>2. zoop[p] \in Seq(Woo!Provider!Txn) /\ Len(zoop[p]) \in Nat /\ Len(zoop[p]) <= 1
    BY DEF WooInv, RequestOf, ChargeOf, TypeOK, Woo!Provider!BothTypeOK, Woo!Provider!TypeOK,
           Woo!PaymentIds
  <1>3. i = 1 /\ Len(zoop[p]) = 1 /\ zoop[p] # <<>> /\ zoop[p][1] \in Woo!Provider!Txn
    <2>0. PICK n \in Nat : n = Len(zoop[p])
      BY <1>2
    <2>a. i \in Nat /\ i >= 1 /\ i <= n /\ n \in Nat /\ n <= 1
      BY <1>1, <1>2, <2>0, LedgerConstants
    <2>b. \A j, k \in Nat : j >= 1 /\ j <= k /\ k <= 1 => j = 1 /\ k = 1
      OBVIOUS
    <2>1. i = 1 /\ Len(zoop[p]) = 1
      BY <2>0, <2>a, <2>b, Zenon
    <2>2. PICK h \in Seq(Woo!Provider!Txn) : h = zoop[p]
      BY <1>2
    <2>3. Len(h) = 1
      BY <2>1, <2>2
    <2>4. h # <<>> /\ h[1] \in Woo!Provider!Txn
      BY <2>3
    <2>5. QED
      BY <2>1, <2>2, <2>4
  <1>4. QED
    BY <1>1, <1>3 DEF TxnOf, Woo!Provider!TxnOf

\* The transaction goes to t, which forgets nothing a webhook told, and tells it by m.
LEMMA TxnMoves ==
    ASSUME WooInv, NEW id \in Txns, NEW t \in Woo!Provider!Txn, NEW m \in Woo!Provider!Hook,
           zoop' = [zoop EXCEPT ![id[1]][id[2]] = t], hooks' = hooks \cup {m}, m.ref = id[1],
           UNCHANGED <<ledger, keys, fake, koinVars, shopVars, woo, acked, todo>>,
           TxnOf(id).status # "failed",
           TxnOf(id).status \in {"succeeded", "charged_back"} =>
               t.status \in {"succeeded", "charged_back"},
           m.type \in {"transaction.paid", "transaction.succeeded"} => t.status = "succeeded",
           m.type = "transaction.failed" => t.status = "failed"
    PROVE  WooInv'
  <1>1. PICK p \in Requests : p = id[1]
    BY OnlyTxn
  <1>2. /\ id[2] = 1 /\ zoop[p] # <<>> /\ Len(zoop[p]) = 1
        /\ zoop[p][1] \in Woo!Provider!Txn /\ TxnOf(id) = zoop[p][1]
    BY <1>1, OnlyTxn
  <1>3. zoop \in [Requests -> Seq(Woo!Provider!Txn)] /\ hooks \subseteq Woo!Provider!Hook
    BY DEF WooInv, TypeOK, Woo!Provider!BothTypeOK, Woo!Provider!TypeOK, Woo!PaymentIds
  <1> DEFINE h == zoop[p]
             g == [h EXCEPT ![1] = t]
  <1>4. zoop' = [zoop EXCEPT ![p] = g]
    BY <1>1, <1>2
  <1>5. g \in Seq(Woo!Provider!Txn) /\ Len(g) = 1 /\ g # <<>> /\ g[1] = t
    BY <1>2, <1>3
  <1> HIDE DEF g
  <1>6. /\ zoop'[p] = g /\ zoop' \in [Requests -> Seq(Woo!Provider!Txn)]
        /\ \A q \in Requests \ {p} : zoop'[q] = zoop[q]
    BY <1>3, <1>4, <1>5
  <1>7. zoop'[p] # <<>> /\ Len(zoop'[p]) = 1 /\ zoop'[p][1] = t
    BY <1>5, <1>6
  <1>8. TypeOK'
    <2>1. Woo!Provider!BothTypeOK'
      <3>1. \A q \in Requests : Len(zoop'[q]) <= MaxTxns
        BY <1>2, <1>6, <1>7 DEF WooInv, TypeOK, Woo!Provider!BothTypeOK,
           Woo!Provider!TypeOK, Woo!PaymentIds
      <3>2. QED
        BY <1>3, <1>6, <3>1 DEF WooInv, TypeOK, Woo!Provider!BothTypeOK,
           Woo!Provider!TypeOK, Woo!Provider!Fake!TypeOK, Woo!PaymentIds
    <2>2. Hooks!TypeOK'
      BY DEF WooInv, TypeOK, Hooks!TypeOK, koinVars
    <2>3. /\ Woo!Ledger!TypeOK' /\ Woo!Keys!TypeOK' /\ Woo!Risk!TypeOK' /\ Woo!TypeOK'
      BY PartsStay DEF WooInv
    <2>4. Woo!Shops!TypeOK'
      BY DEF WooInv, TypeOK, Woo!Shops!TypeOK, shopVars
    <2>5. QED
      BY <2>1, <2>2, <2>3, <2>4 DEF TypeOK
  <1>9. RowOf(p) /\ ChargeOf(p) /\ EvidenceOf(p) /\ p \in DOMAIN payments
    BY <1>2 DEF WooInv, RequestOf, RowOf
  <1>10. /\ Taken(p) => Taken(p)'
         /\ ~NotCharged(p)
    BY <1>2, <1>7 DEF Taken, NotCharged
  <1>11. Keeps(p) /\ OthersKept(p)
    BY <1>2, <1>6, <1>7, <1>10 DEF Keeps, OthersKept, ledger, Entered
  <1>12. RowOf(p)'
    BY <1>9 DEF RowOf, ledger, shopVars, Entered, Woo!StoreOf, Woo!RefOf, Woo!SellerOf
  <1>13. ChargeOf(p)'
    BY <1>2, <1>7, <1>9 DEF ChargeOf, ledger
  <1>14. EvidenceOf(p)'
    BY <1>9, <1>10 DEF EvidenceOf, Refusing, Marked, ledger, Woo!Faked, Woo!SellerOf,
       Woo!MethodOf
  <1>15. \A x \in hooks' : x \in hooks \/ HookOf(x)'
    BY <1>1, <1>7 DEF HookOf, Taken
  <1>16. DOMAIN payments' = DOMAIN payments
    BY DEF ledger
  <1>17. QED
    BY <1>8, <1>11, <1>12, <1>13, <1>14, <1>15, <1>16, OutsideStep

LEMMA ZoopMovesInv ==
    ASSUME WooInv, NEW id \in Txns, ZoopMoves(id)
    PROVE  WooInv'
  <1>1. UNCHANGED <<ledger, keys, fake, koinVars, shopVars, woo, acked, todo>>
    BY DEF ZoopMoves
  <1>2. id[1] \in Requests /\ TxnOf(id) \in Woo!Provider!Txn /\ TxnOf(id) = zoop[id[1]][id[2]]
    BY OnlyTxn DEF TxnOf, Woo!Provider!TxnOf
  <1>3. ASSUME NEW From, NEW s \in Woo!Provider!TxnStatuses, NEW type \in Woo!Provider!HookTypes,
               Woo!Provider!MoveTxn(id, From, s, type), "failed" \notin From,
               "charged_back" \notin From,
               "succeeded" \in From => s = "charged_back",
               type \in {"transaction.paid", "transaction.succeeded"} => s = "succeeded",
               type = "transaction.failed" => s = "failed"
        PROVE  WooInv'
    <2> DEFINE t == [zoop[id[1]][id[2]] EXCEPT !.status = s]
               m == [type |-> type, ref |-> id[1]]
    <2>1. /\ t \in Woo!Provider!Txn /\ t.status = s
          /\ m \in Woo!Provider!Hook /\ m.type = type /\ m.ref = id[1]
      BY <1>2 DEF Woo!Provider!Txn, Woo!Provider!Hook, Woo!PaymentIds
    <2>2. /\ zoop' = [zoop EXCEPT ![id[1]][id[2]] = t] /\ hooks' = hooks \cup {m}
          /\ TxnOf(id).status \in From
      BY <1>3 DEF Woo!Provider!MoveTxn, TxnOf
    <2> HIDE DEF t, m
    <2>3. TxnOf(id).status # "failed" /\ TxnOf(id).status # "charged_back"
      BY <1>3, <2>2
    <2>4. TxnOf(id).status = "succeeded" => t.status = "charged_back"
      BY <1>3, <2>1, <2>2
    <2>5. QED
      BY <1>1, <1>3, <2>1, <2>2, <2>3, <2>4, TxnMoves
  <1>4. CASE Woo!Provider!PaidOut(id)
    <2> DEFINE t == [zoop[id[1]][id[2]] EXCEPT !.paidOut = TRUE]
               m == [type |-> "receivable.paid", ref |-> id[1]]
    <2>1. /\ t \in Woo!Provider!Txn /\ t.status = TxnOf(id).status
          /\ m \in Woo!Provider!Hook /\ m.type = "receivable.paid" /\ m.ref = id[1]
      BY <1>2 DEF Woo!Provider!Txn, Woo!Provider!Hook, Woo!Provider!HookTypes, Woo!PaymentIds
    <2>2. /\ zoop' = [zoop EXCEPT ![id[1]][id[2]] = t] /\ hooks' = hooks \cup {m}
          /\ TxnOf(id).status = "succeeded"
      BY <1>4 DEF Woo!Provider!PaidOut, TxnOf
    <2> HIDE DEF t, m
    <2>3. QED
      BY <1>1, <2>1, <2>2, TxnMoves
  <1>5. CASE Woo!Provider!BuyerPays(id)
    BY <1>3, <1>5 DEF Woo!Provider!BuyerPays, Woo!Provider!TxnStatuses, Woo!Provider!HookTypes
  <1>6. CASE Woo!Provider!CodeExpires(id)
    BY <1>3, <1>6 DEF Woo!Provider!CodeExpires, Woo!Provider!TxnStatuses,
                      Woo!Provider!HookTypes
  <1>7. CASE Woo!Provider!CardDecided(id)
    BY <1>3, <1>7 DEF Woo!Provider!CardDecided, Woo!Provider!TxnStatuses,
                      Woo!Provider!HookTypes
  <1>8. CASE Woo!Provider!ChargedBack(id)
    BY <1>3, <1>8 DEF Woo!Provider!ChargedBack, Woo!Provider!TxnStatuses,
                      Woo!Provider!HookTypes
  <1>9. QED
    BY <1>4, <1>5, <1>6, <1>7, <1>8 DEF ZoopMoves

LEMMA StutterInv ==
    ASSUME WooInv, UNCHANGED vars
    PROVE  WooInv'
  <1>1. UNCHANGED <<ledger, keys, zoop, hooks, fake, koinVars, shopVars, woo, acked, todo>>
    BY DEF vars, providerVars
  <1>2. TypeOK'
    <2>1. Hooks!TypeOK'
      BY <1>1 DEF WooInv, TypeOK, Hooks!TypeOK, koinVars
    <2>2. Woo!Shops!TypeOK'
      BY <1>1 DEF WooInv, TypeOK, Woo!Shops!TypeOK, shopVars
    <2>3. QED
      BY <1>1, <2>1, <2>2, PartsStay DEF WooInv, TypeOK, providerVars
  <1>3. QED
    BY <1>1, <1>2, QuietStep

LEMMA NextInv == WooInv /\ [Next]_vars => WooInv'
  <1> SUFFICES ASSUME WooInv, [Next]_vars PROVE WooInv'
    OBVIOUS
  <1>1. ASSUME NEW r \in Requests, Woo!Step(r) \/ Woo!Die(r), UNCHANGED <<acked, todo>>
        PROVE  WooInv'
    BY <1>1, ProvisionInv, FindKeyInv, InsertKeyInv, LookUpPaymentInv, CreatePaymentInv,
       EvaluateRiskInv, MoveInv, ChargeInv, RecordFailureInv, RecordChargeInv,
       SaveInstrumentInv, SaveResponseInv, DieInv DEF Woo!Step
  <1>2. CASE Woo!Next /\ UNCHANGED <<acked, todo>>
    BY <1>1, <1>2 DEF Woo!Next
  <1>3. CASE /\ \E m \in hooks : Hooks!DeliverZoop(m) \/ Hooks!Swallow(m)
             /\ UNCHANGED <<keys, fake, shopVars, woo>>
    BY <1>3, HooksInv
  <1>4. CASE \E id \in Txns : ZoopMoves(id)
    BY <1>4, ZoopMovesInv
  <1>5. CASE UNCHANGED vars
    BY <1>5, StutterInv
  <1>6. QED
    BY <1>2, <1>3, <1>4, <1>5 DEF Next

LEMMA InitShops ==
    ASSUME Init
    PROVE  /\ Shop!StoresInv /\ OnlyProvisioning
           /\ \A r \in Requests : ProvisionOf(r) /\ OldStoreOf(r)
  <1>1. PICK w \in Workloads : Woo!Init(w.requests) /\ ShopsInit(w)
    BY DEF Init
  <1>2. /\ DOMAIN w.requests \subseteq Requests
        /\ w.requests \in [DOMAIN w.requests -> Woo!Body]
        /\ w.name # None => w.name \in Names /\ Slugify(w.name) \in Slugs
        /\ w.seller \in Sellers \cup {NoSeller}
    BY WorkloadsAreRequests
  <1> DEFINE old == w.name # None
             row == [name |-> w.name, slug |-> Slugify(w.name)]
             new == Woo!Shops!NewCall
  <1>3. new \in Shop!Call /\ new.kind = "create" /\ new.pc = "new"
    BY DEF Woo!Shops!NewCall, Shop!Call, Shop!PCs
  <1>4. /\ \A s \in Woo!Calls : stores[s] = IF s = OldStore /\ old THEN row ELSE None
        /\ \A s \in Woo!Calls : settings[s] = IF s = OldStore /\ old THEN w.seller ELSE None
        /\ \A s \in Woo!Calls : creds[s] = IF s = OldStore /\ old
                                         THEN <<[key |-> s, revoked |-> FALSE]>> ELSE <<>>
    BY <1>1 DEF ShopsInit
  <1> DEFINE asking(c) == [new EXCEPT !.kind = "provision", !.pc = "lookup",
                                      !.seller = w.requests[c].seller]
             opened(c) == [new EXCEPT !.pc = "done", !.store = c]
             first(c) == CASE c \in DOMAIN w.requests -> asking(c)
                           [] c = OldStore /\ old -> opened(c)
                           [] OTHER -> new
  <1>a. call = [c \in Woo!Calls |-> first(c)]
    BY <1>1 DEF ShopsInit
  <1>b. ~(OldStore \in DOMAIN w.requests)
    BY <1>2, OldStoreIsNoRequest
  <1> HIDE DEF new, asking, opened
  <1>c. \A c \in Woo!Calls : c \in DOMAIN w.requests => first(c) = asking(c)
    BY <1>b
  <1>d. \A c \in Woo!Calls : c = OldStore /\ old => first(c) = opened(c)
    BY <1>b
  <1>e. \A c \in Woo!Calls :
            c \notin DOMAIN w.requests /\ ~(c = OldStore /\ old) => first(c) = new
    OBVIOUS
  <1> HIDE DEF first
  <1>5. \A c \in Woo!Calls : call[c] = first(c)
    BY <1>a
  <1>6. ASSUME NEW c \in DOMAIN w.requests
        PROVE  /\ call[c] \in Shop!Call /\ call[c].kind = "provision" /\ call[c].pc = "lookup"
               /\ call[c].seller = w.requests[c].seller /\ call[c].seller \in Sellers
    <2>1. w.requests[c].seller \in Sellers /\ c \in Woo!Calls
      BY <1>2 DEF Woo!Body, Woo!Calls
    <2>2. call[c] = asking(c)
      BY <1>5, <1>c, <2>1
    <2>3. QED
      BY <1>3, <2>1, <2>2 DEF asking, Shop!Call, Shop!PCs
  <1>7. ASSUME old
        PROVE  /\ call[OldStore] \in Shop!Call /\ call[OldStore].kind = "create"
               /\ call[OldStore].pc = "done" /\ call[OldStore].store = OldStore
    <2>1. OldStore \in Woo!Calls
      BY DEF Woo!Calls
    <2>2. call[OldStore] = opened(OldStore)
      BY <1>5, <1>7, <1>d, <2>1
    <2>3. QED
      BY <1>3, <2>1, <2>2 DEF opened, Shop!Call, Shop!PCs
  <1>8. ASSUME NEW c \in Woo!Calls, c \notin DOMAIN w.requests, ~(c = OldStore /\ old)
        PROVE  call[c] \in Shop!Call /\ call[c].kind = "create" /\ call[c].pc = "new"
    BY <1>3, <1>5, <1>8, <1>e
  <1>9. Shop!TypeOK
    <2>1. call \in [Woo!Calls -> Shop!Call]
      <3>1. \A c \in Woo!Calls : call[c] \in Shop!Call
        BY <1>6, <1>7, <1>8
      <3>2. \A c \in Woo!Calls : first(c) \in Shop!Call
        BY <1>5, <3>1
      <3>3. QED
        BY <1>a, <3>2
    <2>2. old => row \in Shop!Store
      BY <1>2 DEF Shop!Store
    <2>3. stores \in [Woo!Calls -> Shop!Store \cup {None}]
      BY <1>1, <2>2 DEF ShopsInit
    <2>4. settings \in [Woo!Calls -> Sellers \cup {NoSeller, None}]
      BY <1>1, <1>2 DEF ShopsInit
    <2>5. \A s \in Woo!Calls : <<[key |-> s, revoked |-> FALSE]>> \in Seq(Shop!Cred)
      BY DEF Shop!Cred
    <2>6. creds \in [Woo!Calls -> Seq(Shop!Cred)]
      <3> DEFINE its(s) == IF s = OldStore /\ w.name # None
                           THEN <<[key |-> s, revoked |-> FALSE]>> ELSE <<>>
      <3>1. creds = [s \in Woo!Calls |-> its(s)]
        BY <1>1 DEF ShopsInit
      <3>2. <<>> \in Seq(Shop!Cred)
        OBVIOUS
      <3>3. \A s \in Woo!Calls : its(s) \in Seq(Shop!Cred)
        BY <2>5, <3>2
      <3> HIDE DEF its
      <3>4. QED
        BY <3>1, <3>3
    <2>7. QED
      BY <2>1, <2>3, <2>4, <2>6 DEF Shop!TypeOK
  <1>10. /\ None \notin Shop!Store /\ None \notin Sellers \cup {NoSeller}
         /\ old => row \in Shop!Store /\ w.seller # None
    BY <1>2, ShopConstants DEF Shop!Store, Woo!Shops!Store
  <1>11. Shop!CallsInv
    <2> SUFFICES ASSUME NEW c \in Woo!Calls PROVE Shop!CallInv(c, call[c])
      BY DEF Shop!CallsInv
    <2>1. CASE c \in DOMAIN w.requests
      <3>1. c # OldStore
        BY <1>2, <2>1, OldStoreIsNoRequest
      <3>2. stores[c] = None /\ creds[c] = <<>> /\ settings[c] = None
        BY <1>4, <3>1
      <3>3. QED
        BY <1>6, <2>1, <3>2 DEF Shop!CallInv, Shop!Arguments, Shop!OwnRows, Shop!OthersRows,
           Shop!PcsOf, Shop!Naming
    <2>2. CASE c = OldStore /\ old
      <3>1. stores[c] = row /\ settings[c] = w.seller
            /\ creds[c] = <<[key |-> c, revoked |-> FALSE]>>
        BY <1>4, <2>2
      <3>2. stores[c] # None /\ settings[c] # None
        BY <1>10, <2>2, <3>1
      <3>3. creds[c] # <<>>
        BY <3>1
      <3>4. QED
        BY <1>7, <2>2, <3>2, <3>3 DEF Shop!CallInv, Shop!Arguments, Shop!OwnRows, Shop!OthersRows,
           Shop!PcsOf, Shop!NotInserted
    <2>3. CASE c \notin DOMAIN w.requests /\ ~(c = OldStore /\ old)
      <3>1. stores[c] = None /\ creds[c] = <<>> /\ settings[c] = None
        BY <1>4, <2>3
      <3>2. QED
        BY <1>8, <2>3, <3>1 DEF Shop!CallInv, Shop!Arguments, Shop!OwnRows, Shop!OthersRows,
           Shop!PcsOf
    <2>4. QED
      BY <2>1, <2>2, <2>3
  <1>12. Shop!KeysHaveOwners
    <2> SUFFICES ASSUME NEW s \in Woo!Calls, NEW i \in 1 .. Len(creds[s])
                 PROVE  creds[s][i].key = s
      BY Zenon DEF Shop!KeysHaveOwners
    <2>1. CASE s = OldStore /\ old
      <3>1. creds[s] = <<[key |-> s, revoked |-> FALSE]>>
        BY <1>4, <2>1
      <3>2. i = 1
        BY <3>1
      <3>3. QED
        BY <3>1, <3>2
    <2>2. CASE ~(s = OldStore /\ old)
      <3>1. creds[s] = <<>>
        BY <1>4, <2>2
      <3>2. QED
        BY <3>1
    <2>3. QED
      BY <2>1, <2>2
  <1>13. Shop!NamesAndSlugsAreUnique
    BY <1>4 DEF Shop!NamesAndSlugsAreUnique, Shop!Existing
  <1>14. Shop!StoreIsSellers
    BY <1>6, <1>7, <1>8 DEF Shop!StoreIsSellers, Shop!At
  <1>15. OnlyProvisioning
    BY <1>6, <1>7, <1>8 DEF OnlyProvisioning
  <1>16. ASSUME NEW r \in Requests PROVE ProvisionOf(r) /\ OldStoreOf(r)
    <2>1. /\ r \in Woo!Calls /\ r # OldStore /\ OldStore \in Woo!Calls
      BY OldStoreIsNoRequest DEF Woo!Calls
    <2>2. /\ r \in DOMAIN w.requests => woo[r].pc = "find" /\ woo[r].body = w.requests[r]
          /\ r \notin DOMAIN w.requests => woo[r].pc = "unsent"
      BY <1>1 DEF Woo!Init
    <2>3. ProvisionOf(r)
      BY <1>6, <2>1, <2>2 DEF ProvisionOf, Woo!SellerOf
    <2>4. OldStoreOf(r)
      BY <1>4, <1>6, <1>10, <2>1, <2>2 DEF OldStoreOf, Woo!SellerOf
    <2>5. QED
      BY <2>3, <2>4
  <1>17. QED
    BY <1>9, <1>11, <1>12, <1>13, <1>14, <1>15, <1>16 DEF Shop!StoresInv

LEMMA InitInv == Init => WooInv
  <1> SUFFICES ASSUME Init PROVE WooInv
    OBVIOUS
  <1>1. PICK w \in Workloads : Woo!Init(w.requests) /\ ShopsInit(w)
    BY DEF Init
  <1>2. /\ DOMAIN w.requests \subseteq Requests
        /\ w.requests \in [DOMAIN w.requests -> Woo!Body]
    BY WorkloadsAreRequests
  <1>3. /\ Shop!StoresInv /\ OnlyProvisioning
        /\ \A r \in Requests : ProvisionOf(r) /\ OldStoreOf(r)
    BY InitShops
  <1>4. Woo!Ledger!TypeOK
    BY DEF Init, Woo!Ledger!Init, Woo!Ledger!TypeOK
  <1>5. Woo!Keys!TypeOK
    BY DEF Init, Woo!Keys!Init, Woo!Keys!TypeOK
  <1>6. Woo!Provider!BothTypeOK
    BY LedgerConstants DEF Init, Woo!Provider!BothInit, Woo!Provider!Init,
       Woo!Provider!Fake!Init, Woo!Provider!BothTypeOK, Woo!Provider!TypeOK,
       Woo!Provider!Fake!TypeOK
  <1>7. Woo!Risk!TypeOK
    BY DEF Init, Woo!Risk!Init, Woo!Risk!TypeOK, Woo!Risk!Case
  <1>8. Hooks!TypeOK
    BY DEF Init, Hooks!Init, Hooks!TypeOK
  <1>9. Woo!Shops!TypeOK
    BY <1>3 DEF Shop!StoresInv, Shop!TypeOK, Woo!Shops!TypeOK, Shop!Store, Woo!Shops!Store,
       Shop!Cred, Woo!Shops!Cred, Shop!Call, Woo!Shops!Call, Shop!PCs, Woo!Shops!PCs
  <1>10. Woo!TypeOK
    <2> DEFINE some == CHOOSE b \in Woo!Body : TRUE
               state(r) == [pc |-> IF r \in DOMAIN w.requests THEN "find" ELSE "unsent",
                            body |-> IF r \in DOMAIN w.requests THEN w.requests[r] ELSE some,
                            to |-> "created", resp |-> NoResponse, answer |-> Woo!NoResult]
    <2>1. some \in Woo!Body
      BY ThereAreBodies
    <2>2. woo = [r \in Requests |-> state(r)]
      BY <1>1 DEF Woo!Init
    <2> HIDE DEF some
    <2>3. \A r \in Requests : state(r) \in Woo!RequestState
      BY <1>2, <2>1 DEF Woo!RequestState, Woo!Statuses
    <2> HIDE DEF state
    <2>4. QED
      BY <2>2, <2>3 DEF Woo!TypeOK
  <1>11. TypeOK
    BY <1>4, <1>5, <1>6, <1>7, <1>8, <1>9, <1>10 DEF TypeOK
  <1>12. ASSUME NEW r \in Requests PROVE RequestOf(r)
    <2>1. /\ woo[r].pc \in {"unsent", "find"} /\ r \notin DOMAIN payments
          /\ zoop[r] = <<>> /\ charges[r] = <<>>
      BY <1>1 DEF Init, Woo!Init, Woo!Ledger!Init, Woo!Provider!BothInit,
                  Woo!Provider!Init, Woo!PaymentIds
    <2>2. RowOf(r)
      BY <2>1 DEF RowOf, Working
    <2>3. ChargeOf(r)
      BY <2>1 DEF ChargeOf
    <2>4. EvidenceOf(r)
      BY <2>1 DEF EvidenceOf, Refusing
    <2>5. AnswerOf(r)
      BY <2>1 DEF AnswerOf
    <2>6. QED
      BY <1>3, <2>2, <2>3, <2>4, <2>5 DEF RequestOf
  <1>13. /\ hooks = {} /\ DOMAIN keys = {} /\ DOMAIN payments = {}
    BY DEF Init, Woo!Ledger!Init, Woo!Provider!BothInit, Woo!Provider!Init, Woo!Keys!Init
  <1>14. QED
    BY <1>3, <1>11, <1>12, <1>13 DEF WooInv, Woo!Ledger!OnePaymentPerOrder

\* Whatever is sent, clashes, fails or dies, on any number of requests, the parts of
\* WooInv hold together.
THEOREM WooInvariant == Spec => []WooInv
  BY InitInv, NextInv, PTL DEF Spec

\* The state of the gateway and of every component it is made of keeps its type.
THEOREM WooTypeCorrect == Spec => []TypeOK
  <1>1. WooInv => TypeOK
    BY DEF WooInv
  <1>2. QED
    BY <1>1, WooInvariant, PTL

------------------------------------------------------------------------------
(***************************************************************************)
(* What the invariant says of a payment.                                   *)
(***************************************************************************)
\* It was made by a request whose provisioning is over.
LEMMA MadeByRequest ==
    ASSUME WooInv, NEW p \in DOMAIN payments
    PROVE  /\ p \in Requests /\ p \in Woo!Calls
           /\ call[p].kind = "provision" /\ call[p].pc = "done"
           /\ call[p].seller = Woo!SellerOf(p) /\ call[p].store \in Woo!Calls
           /\ payments[p].store = call[p].store /\ payments[p].ref = Woo!RefOf(p)
           /\ woo[p].pc \notin NotCreated
  <1>1. p \in Requests /\ RequestOf(p)
    BY DEF WooInv, RequestOf, TypeOK, Woo!Ledger!TypeOK, Woo!PaymentIds
  <1>2. woo[p].pc \notin NotCreated /\ payments[p].store = Woo!StoreOf(p)
        /\ payments[p].ref = Woo!RefOf(p)
    BY <1>1 DEF RequestOf, RowOf
  <1>3. QED
    BY <1>1, <1>2 DEF RequestOf, ProvisionOf, NotCreated, Woo!Calls, Woo!StoreOf

\* Its transaction at Zoop, if it has one.
LEMMA ItsTxn ==
    ASSUME WooInv, NEW p \in Requests, zoop[p] # <<>>
    PROVE  <<p, 1>> \in Txns /\ TxnOf(<<p, 1>>) = zoop[p][1]
  <1>1. /\ zoop[p] \in Seq(Woo!Provider!Txn) /\ Len(zoop[p]) \in Nat
        /\ Len(zoop[p]) <= MaxTxns /\ MaxTxns \in Nat
    BY LedgerConstants DEF WooInv, TypeOK, Woo!Provider!BothTypeOK, Woo!Provider!TypeOK,
                           Woo!PaymentIds
  <1>2. PICK h \in Seq(Woo!Provider!Txn) : h = zoop[p]
    BY <1>1
  <1>3. Len(h) \in Nat /\ Len(h) >= 1
    BY <1>2
  <1>4. PICK n \in Nat : n = Len(zoop[p])
    BY <1>1
  <1>5. n >= 1 /\ n <= MaxTxns /\ MaxTxns \in Nat
    BY <1>1, <1>2, <1>3, <1>4
  <1>6. 1 \in 1 .. MaxTxns /\ 1 <= n
    BY <1>5
  <1>7. QED
    BY <1>4, <1>6 DEF Txns, Woo!Provider!Txns, Woo!Provider!TxnIds, Woo!PaymentIds, TxnOf,
       Woo!Provider!TxnOf

\* However often an order of a seller who has a store is sent, whichever of the requests
\* dies or times out, Zoop is asked for one transaction.
THEOREM OrdersAreChargedOnce == Spec => []OrderChargedOnce
  <1>1. WooInv => OrderChargedOnce
    <2> SUFFICES ASSUME WooInv, NEW id1 \in Txns, NEW id2 \in Txns, SameOrder(id1, id2),
                        stores[OldStore] # None,
                        settings[OldStore] = Woo!SellerOf(id1[1])
                 PROVE  id1 = id2
      BY DEF OrderChargedOnce
    <2> DEFINE p == id1[1]
               q == id2[1]
    <2>1. /\ p \in Requests /\ id1 = <<p, 1>> /\ zoop[p] # <<>>
          /\ q \in Requests /\ id2 = <<q, 1>> /\ zoop[q] # <<>>
      BY OnlyTxn
    <2>2. Woo!RefOf(p) = Woo!RefOf(q) /\ Woo!SellerOf(p) = Woo!SellerOf(q)
      BY DEF SameOrder, Woo!RefOf
    <2>3. Woo!SellerOf(p) = settings[OldStore]
      OBVIOUS
    <2> HIDE DEF p, q
    <2>4. p \in DOMAIN payments /\ q \in DOMAIN payments
      BY <2>1 DEF WooInv, RequestOf, RowOf
    <2>5. ASSUME NEW r \in DOMAIN payments, r \in Requests,
                 Woo!SellerOf(r) = settings[OldStore]
          PROVE  payments[r].store = OldStore
      <3>1. OldStoreOf(r)
        BY <2>5 DEF WooInv, RequestOf
      <3>2. QED
        BY <2>5, <3>1, MadeByRequest DEF OldStoreOf, NotCreated
    <2>6. payments[p].store = payments[q].store /\ payments[p].ref = payments[q].ref
      BY <2>1, <2>2, <2>3, <2>4, <2>5, MadeByRequest
    <2>7. p = q
      BY <2>4, <2>6 DEF WooInv, Woo!Ledger!OnePaymentPerOrder
    <2>8. QED
      BY <2>1, <2>7
  <1>2. QED
    BY <1>1, WooInvariant, PTL

\* The store of a payment is linked to the seller who is to be paid, however many
\* sellers are provisioned at once and whatever their names.
THEOREM SellersAreNeverMixed == Spec => []PaidUnderOwnStore
  <1>1. WooInv => PaidUnderOwnStore
    <2> SUFFICES ASSUME WooInv, NEW p \in DOMAIN payments
                 PROVE  settings[payments[p].store] = Woo!SellerOf(p)
      BY DEF PaidUnderOwnStore
    <2>1. \/ settings[call[p].store] = call[p].seller
          \/ \E d \in Woo!Calls : call[d].kind = "settings"
      BY MadeByRequest DEF WooInv, Shop!StoresInv, Shop!StoreIsSellers, Shop!At
    <2>2. \A d \in Woo!Calls : call[d].kind # "settings"
      BY DEF WooInv, OnlyProvisioning
    <2>3. QED
      BY <2>1, <2>2, MadeByRequest
  <1>2. QED
    BY <1>1, WooInvariant, PTL

\* What the plugin was told stays true of the order's payment: an error is of a payment
\* refused for good, captured is money Zoop took, a code is the one stored, any other
\* status one the payment has been in.
THEOREM AnswersAreTrue == Spec => []AnswerIsTrue
  <1>1. WooInv => AnswerIsTrue
    <2> SUFFICES ASSUME WooInv, NEW p \in DOMAIN payments, NEW r \in RequestsOf(p),
                        Answered(r)
                 PROVE  LET status == woo[r].resp.status IN
                        /\ status = "error" => payments[p].status = "refused"
                        /\ status = "captured" /\ ~Woo!Faked(p) =>
                               AtZoop(p, {"succeeded", "charged_back"})
                        /\ woo[r].resp.code => payments[p].instrument # "none"
                        /\ status \in {"created", "approved_risk", "authorized",
                                       "under_review", "refused"}
                               => status \in Entered(p)
      BY DEF AnswerIsTrue
    <2>1. /\ r \in Requests /\ woo[r].pc = "done"
          /\ Woo!StoreOf(r) = payments[p].store /\ Woo!RefOf(r) = payments[p].ref
      BY DEF RequestsOf, Answered
    <2>2. PICK q \in Woo!PaymentsOfAttempt(r) : Fits(woo[r].resp, q)
      BY <2>1 DEF WooInv, RequestOf, AnswerOf
    <2>3. q = p
      BY <2>1, <2>2 DEF WooInv, Woo!Ledger!OnePaymentPerOrder, Woo!PaymentsOfAttempt,
                        Woo!Ledger!FindByExternalRef
    <2>4. p \in Requests
      BY MadeByRequest
    <2>5. Taken(p) => AtZoop(p, {"succeeded", "charged_back"})
      BY <2>4, ItsTxn DEF Taken, AtZoop
    <2>6. QED
      BY <2>2, <2>3, <2>5 DEF Fits
  <1>2. QED
    BY <1>1, WooInvariant, PTL

\* A payment the ledger refused although Zoop has, or may yet take, the buyer's money is
\* marked: its charge row has no transaction id.
THEOREM RefusalsAreMarked == Spec => []RefusedMoneyIsMarked
  <1>1. WooInv => RefusedMoneyIsMarked
    <2> SUFFICES ASSUME WooInv, NEW p \in DOMAIN payments,
                        payments[p].status = "refused",
                        AtZoop(p, {"pending", "succeeded"})
                 PROVE  \E i \in DOMAIN charges[p] : charges[p][i].providerId = NoProviderId
      BY DEF RefusedMoneyIsMarked
    <2>1. PICK id \in Txns : id[1] = p /\ TxnOf(id).status \in {"pending", "succeeded"}
      BY DEF AtZoop
    <2>2. zoop[p] # <<>> /\ zoop[p][1].status # "failed"
      BY <2>1, OnlyTxn
    <2>3. p \in Requests /\ RequestOf(p)
      BY MadeByRequest DEF WooInv
    <2>4. Marked(p)
      BY <2>2, <2>3 DEF RequestOf, EvidenceOf, Refusing, NotCharged
    <2>5. charges[p] \in Seq(Woo!Ledger!ChargeRow)
      BY <2>3 DEF WooInv, TypeOK, Woo!Ledger!TypeOK, Woo!PaymentIds
    <2>6. PICK h \in Seq(Woo!Ledger!ChargeRow) : h = charges[p]
      BY <2>5
    <2>7. 1 \in DOMAIN h
      BY <2>4, <2>6 DEF Marked
    <2>8. QED
      BY <2>4, <2>6, <2>7 DEF Marked
  <1>2. QED
    BY <1>1, WooInvariant, PTL

==============================================================================
