----------------------------- MODULE Idempotency -----------------------------
(***************************************************************************)
(* idempotency/idempotency.service.ts: the table idempotency_keys.         *)
(* getOrCreate() is a SELECT and then an INSERT, two statements with other *)
(* requests between them, so callers take Known and Insert as two steps.   *)
(* expires_at is written and never read: the record has no TTL here.       *)
(***************************************************************************)
CONSTANTS
    Stores,
    Refs,       \* idempotency keys
    Hashes,     \* sha256 of request bodies
    Responses,  \* what a handler answers
    NoResponse  \* response NULL

VARIABLE keys  \* idempotency_keys: partial function from <<store, key>>

KeyRow == [hash: Hashes, response: Responses \cup {NoResponse}]

TypeOK ==
    /\ DOMAIN keys \subseteq Stores \X Refs
    /\ keys \in [DOMAIN keys -> KeyRow]

Init == keys = [k \in {} |-> {}]

\* The findOne of getOrCreate.
Known(s, k) == <<s, k>> \in DOMAIN keys

\* ConflictException: the key was used with another body.
Conflicts(s, k, h) == keys[<<s, k>>].hash # h

\* A previous attempt got as far as its answer.
Answered(s, k) == keys[<<s, k>>].response # NoResponse

\* A mutant: INSERT ... ON CONFLICT DO UPDATE.
Bug_LastWriterWins(s, k) == TRUE

\* UNIQUE (store_id, key_hash)
CanInsert(s, k) == ~Known(s, k)

Insert(s, k, h) ==
    /\ CanInsert(s, k)
    /\ keys' = [x \in DOMAIN keys \cup {<<s, k>>} |->
                   IF x = <<s, k>> THEN [hash |-> h, response |-> NoResponse]
                   ELSE keys[x]]

SaveResponse(s, k, resp) ==
    keys' = [keys EXCEPT ![<<s, k>>].response = resp]

==============================================================================
