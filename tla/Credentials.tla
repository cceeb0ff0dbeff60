----------------------------- MODULE Credentials -----------------------------
(***************************************************************************)
(* Provider credentials, the accounts bound to them, and their keys.       *)
(*                                                                         *)
(* A credential belongs to the platform, an agency or a client, and is     *)
(* stored encrypted.  Discovery asks the provider which accounts a         *)
(* credential opens, stores what it found in the account and, last, binds  *)
(* the account to the credential; only bound accounts get money writes.    *)
(* Synchronization reads the account first and writes its metadata back    *)
(* after the fetch.  A rotation decrypts every row, then swaps them all.   *)
(* A patch reads its row, and writes every column back, in two steps; so   *)
(* does a bind with the rows it checks.  What comes between them is seen   *)
(* by neither: such a patch or bind is called overtaken.                   *)
(*                                                                         *)
(* One provider (Meta) and one connection per owner.  Accounts contested   *)
(* by two clients, which are refused throughout, are in                    *)
(* AssignmentConflicts.  Grants are numbered as they are given.            *)
(***************************************************************************)
EXTENDS Integers, FiniteSets

CONSTANTS
    Rows, Clients, Agencies, Accounts, Patches, Discoveries, Syncs,
    MaxGrant,      \* bound: grants ever given
    LastKey,       \* bound: keys ever introduced
    Platform, NoRow, NoCred, NoBinding, Keep, Idle

VARIABLES
    cred,          \* integration_credentials
    issued,        \* grants given so far
    patching,      \* what a patch will write
    binding,       \* provider_account_credential_bindings
    account,       \* client, status and the server's metadata of an account
    clients,       \* clients that are active
    holding,       \* which active agency has which client
    keyring,       \* the configured keys, and the one to encrypt with
    rotation,      \* the rows a rotation has read
    discovery,     \* what a discovery remembers
    sync           \* what a run of the synchronization remembers

credentialVars ==
    <<cred, issued, patching, binding, account, clients, holding, keyring, rotation, discovery, sync>>

Scopes == {Platform} \cup Clients \cup Agencies
Actors == {"admin", "solo"} \cup Agencies
Plain  == 0        \* the key of rows from before encryption

\* sealed: the owner its credentials were encrypted for, the associated data.
\* late, of history: it is what a patch that was overtaken has written.
Row     == [active: BOOLEAN, scope: Scopes, grant: 1 .. MaxGrant, key: Plain .. LastKey,
            sealed: Scopes, late: BOOLEAN]
Account == [client: Clients, active: BOOLEAN, rediscover: BOOLEAN, uses: Rows \cup {NoCred}]
\* active, of history: the status of the row when the binding was written.
Binding == [client: Clients, cred: Rows, verified: 1 .. MaxGrant, active: BOOLEAN]
Patch   == [cred: Rows, row: Row, unbinds: BOOLEAN, overtaken: BOOLEAN]

TypeOK ==
    /\ cred \in [Rows -> Row \cup {NoRow}]
    /\ issued \in 1 .. MaxGrant
    /\ patching \in [Patches -> Patch \cup {Idle}]
    /\ binding \in [Accounts -> Binding \cup {NoBinding}]
    /\ account \in [Accounts -> Account]
    /\ clients \subseteq Clients
    /\ holding \subseteq Agencies \X Clients
    /\ keyring \in [active: 1 .. LastKey, keys: SUBSET (1 .. LastKey)]
    /\ keyring.active \in keyring.keys

NewRow(s, grant, key) ==
    [active |-> TRUE, scope |-> s, grant |-> grant, key |-> key, sealed |-> s, late |-> FALSE]

Init ==
    /\ \E k \in Rows, s \in Scopes, key \in {Plain, 1} :
           cred = [r \in Rows |-> IF r = k THEN NewRow(s, 1, key) ELSE NoRow]
    /\ issued = 1
    /\ patching = [p \in Patches |-> Idle]
    /\ binding = [a \in Accounts |-> NoBinding]
    /\ account \in [Accounts ->
           [client: Clients, active: {TRUE}, rediscover: {FALSE}, uses: {NoCred}]]
    /\ clients = Clients
    /\ holding = Agencies \X Clients
    /\ keyring = [active |-> 1, keys |-> {1}]
    /\ rotation = Idle
    /\ discovery = [d \in Discoveries |-> Idle]
    /\ sync = [s \in Syncs |-> Idle]

-----------------------------------------------------------------------------
(* The store of credentials *)

Stored  == {k \in Rows : cred[k] # NoRow}
Active  == {k \in Stored : cred[k].active}

\* Encrypted for the owner the row names.  A legacy row is not encrypted.
SealedForOwner(k) == cred[k].key # Plain => cred[k].sealed = cred[k].scope

KeyConfigured(k) == cred[k].key \in keyring.keys \cup {Plain}

\* _deserialize_credentials
Readable(k) == SealedForOwner(k) /\ KeyConfigured(k)

Unbound(k) == [a \in Accounts |->
    IF binding[a] # NoBinding /\ binding[a].cred = k THEN NoBinding ELSE binding[a]]

\* Patches under way once the rows ks are written.
Overtaken(ks) == [p \in Patches |->
    IF patching[p] # Idle /\ patching[p].cred \in ks
    THEN [patching[p] EXCEPT !.overtaken = TRUE] ELSE patching[p]]

\* The id of a row is fresh: no call that is under way, and no account, knows it.
Fresh(k) ==
    /\ k \notin Stored
    /\ \A p \in Patches : patching[p] # Idle => patching[p].cred # k
    /\ rotation # Idle => rotation.rows[k] = NoRow
    /\ \A d \in Discoveries : discovery[d] # Idle => k \notin {discovery[d].cred, discovery[d].saw.uses}
    /\ \A s \in Syncs : sync[s] # Idle => sync[s].saw.uses # k
    /\ \A a \in Accounts : account[a].uses # k

\* The row is looked up and written under BEGIN IMMEDIATE.
UpsertCredential(s) ==
    /\ issued < MaxGrant
    /\ issued' = issued + 1
    /\ IF \E k \in Stored : cred[k].scope = s
       THEN \E k \in Stored :
                /\ cred[k].scope = s
                /\ cred' = [cred EXCEPT ![k] = NewRow(s, issued + 1, keyring.active)]
                /\ binding' = Unbound(k)
                /\ patching' = Overtaken({k})
       ELSE \E k \in Rows :
                /\ Fresh(k)
                /\ cred' = [cred EXCEPT ![k] = NewRow(s, issued + 1, keyring.active)]
                /\ UNCHANGED <<binding, patching>>
    /\ UNCHANGED <<account, clients, holding, keyring, rotation, discovery, sync>>

\* Mutant: the credentials are encrypted anew only when they are new.
SealedIfNew(k, credentials, s) == credentials

\* aad_changed, or new credentials.
Reseals(k, credentials, s) == credentials \/ s \notin {Keep, cred[k].scope}

\* Every column of the row, from the payload or as it was read.
PatchedRow(k, credentials, s, active) ==
    LET owner    == IF s = Keep THEN cred[k].scope ELSE s
        resealed == Reseals(k, credentials, s)
    IN  [active |-> IF active = Keep THEN cred[k].active ELSE active,
         scope  |-> owner,
         grant  |-> IF credentials THEN issued + 1 ELSE cred[k].grant,
         key    |-> IF resealed THEN keyring.active ELSE cred[k].key,
         sealed |-> IF resealed THEN owner ELSE cred[k].sealed,
         late   |-> cred[k].late]

\* Mutant: only new credentials end the bindings.
UnbindsIfNew(k, row, credentials) == credentials

\* Bindings end with new credentials, another owner or another status than was read.
Unbinds(k, row, credentials) ==
    credentials \/ row.scope # cred[k].scope \/ row.active # cred[k].active

\* patch, up to its UPDATE: nothing is locked while it decrypts and encrypts.
StartPatch(p, k, credentials, s, active) ==
    LET row == PatchedRow(k, credentials, s, active)
    IN  /\ patching[p] = Idle
        /\ Reseals(k, credentials, s) /\ ~credentials => Readable(k)
        /\ credentials => issued < MaxGrant
        /\ issued' = IF credentials THEN issued + 1 ELSE issued
        /\ patching' = [patching EXCEPT ![p] =
               [cred |-> k, row |-> row, unbinds |-> Unbinds(k, row, credentials), overtaken |-> FALSE]]
        /\ UNCHANGED <<cred, binding, account, clients, holding, keyring, rotation, discovery, sync>>

\* The UPDATE and the DELETE, on whatever the row has become.  A unique index refuses
\* an owner that has a row by now; an UPDATE of a row that is gone writes nothing.
FinishPatch(p) ==
    LET t == patching[p]
    IN  /\ t # Idle
        /\ IF t.cred \in Stored /\ \A o \in Stored \ {t.cred} : cred[o].scope # t.row.scope
           THEN /\ cred' = [cred EXCEPT ![t.cred] = [t.row EXCEPT !.late = @ \/ t.overtaken]]
                /\ binding' = IF t.unbinds THEN Unbound(t.cred) ELSE binding
                /\ patching' = [Overtaken({t.cred}) EXCEPT ![p] = Idle]
           ELSE patching' = [patching EXCEPT ![p] = Idle] /\ UNCHANGED <<cred, binding>>
        /\ UNCHANGED <<issued, account, clients, holding, keyring, rotation, discovery, sync>>

\* The row is only looked for before it is written.
ArchiveCredential(k) ==
    /\ cred' = [cred EXCEPT ![k].active = FALSE]
    /\ binding' = Unbound(k)
    /\ patching' = Overtaken({k})
    /\ UNCHANGED <<issued, account, clients, holding, keyring, rotation, discovery, sync>>

\* delete_agency takes the credentials of the agency and their bindings along.
DeleteAgency(g) ==
    LET own == {k \in Stored : cred[k].scope = g}
    IN  /\ cred' = [k \in Rows |-> IF k \in own THEN NoRow ELSE cred[k]]
        /\ binding' = [a \in Accounts |->
               IF binding[a] # NoBinding /\ binding[a].cred \in own THEN NoBinding ELSE binding[a]]
        /\ patching' = Overtaken(own)
        /\ holding' = {h \in holding : h[1] # g}
        /\ UNCHANGED <<issued, account, clients, keyring, rotation, discovery, sync>>

-----------------------------------------------------------------------------
(* Which credentials reach a client, and what a binding is worth *)

CoversClient(k, c) == cred[k].scope \in {Platform, c} \/ <<cred[k].scope, c>> \in holding

\* The rows of resolve_many_for_client, over all the users that may ask.
Reaching(c) == {k \in Active : CoversClient(k, c)}

\* What _resolve_provider_credentials_candidates leaves of them to an actor.
Candidates(actor, c) == {k \in Reaching(c) :
    /\ actor = "solo" => cred[k].scope = c
    /\ actor \in Agencies => cred[k].scope = actor}

\* resolve_bound_credential and what it leads to: this account may be written.
Usable(a) ==
    /\ binding[a] # NoBinding
    /\ account[a].active /\ account[a].client \in clients
    /\ binding[a].client = account[a].client
    /\ binding[a].cred \in Active
    /\ CoversClient(binding[a].cred, account[a].client)
    /\ cred[binding[a].cred].key \in keyring.keys

-----------------------------------------------------------------------------
(* Discovery *)

\* NoCred is the platform's own configuration, for administrators without candidates.
AskProvider(d, actor, a, k) ==
    /\ discovery[d] = Idle
    /\ account[a].client \in clients
    /\ LET found == Candidates(actor, account[a].client)
       IN  /\ \A f \in found : Readable(f)
           /\ IF found = {} THEN actor = "admin" /\ k = NoCred ELSE k \in found
    /\ discovery' = [discovery EXCEPT ![d] =
           [stage |-> "store", account |-> a, saw |-> account[a], cred |-> k,
            grant |-> IF k = NoCred THEN 0 ELSE cred[k].grant]]
    /\ UNCHANGED <<cred, issued, patching, binding, account, clients, holding, keyring, rotation, sync>>

\* The existing account is patched by its id, with what was read before.
StoreDiscovered(d) ==
    /\ discovery[d] # Idle /\ discovery[d].stage = "store"
    /\ LET t == discovery[d]
       IN  /\ account' = [account EXCEPT
                  ![t.account].rediscover = FALSE,
                  ![t.account].uses = IF t.cred = NoCred THEN t.saw.uses ELSE t.cred,
                  ![t.account].active = @ \/ ~t.saw.active]
           /\ discovery' = [discovery EXCEPT ![d] = IF t.cred = NoCred THEN Idle ELSE [t EXCEPT !.stage = "bind"]]
    /\ UNCHANGED <<cred, issued, patching, binding, clients, holding, keyring, rotation, sync>>

\* bind_provider_account, its SELECTs.
CheckBinding(d) ==
    /\ discovery[d] # Idle /\ discovery[d].stage = "bind"
    /\ LET t == discovery[d]
           c == account[t.account].client
       IN  discovery' = [discovery EXCEPT ![d] =
               IF account[t.account].active /\ c \in clients /\ t.cred \in Active /\ CoversClient(t.cred, c)
               THEN [t EXCEPT !.stage = "insert", !.saw = account[t.account]]
               ELSE Idle]
    /\ UNCHANGED <<cred, issued, patching, binding, account, clients, holding, keyring, rotation, sync>>

\* Its INSERT: of what was checked, the foreign key sees only that the row exists.
InsertBinding(d) ==
    /\ discovery[d] # Idle /\ discovery[d].stage = "insert"
    /\ LET t == discovery[d]
       IN  IF t.cred \in Stored
           THEN binding' = [binding EXCEPT ![t.account] =
                    [client |-> t.saw.client, cred |-> t.cred, verified |-> t.grant,
                     active |-> cred[t.cred].active]]
           ELSE UNCHANGED binding
    /\ discovery' = [discovery EXCEPT ![d] = Idle]
    /\ UNCHANGED <<cred, issued, patching, account, clients, holding, keyring, rotation, sync>>

\* An error, a conflict, upsert_existing = false, or the process stops.
AbandonDiscovery(d) ==
    /\ discovery[d] # Idle
    /\ discovery' = [discovery EXCEPT ![d] = Idle]
    /\ UNCHANGED <<cred, issued, patching, binding, account, clients, holding, keyring, rotation, sync>>

-----------------------------------------------------------------------------
(* Synchronization *)

\* run_sync reads the accounts before it takes them in turn.
ReadAccount(s, actor, a) ==
    /\ sync[s] = Idle
    /\ account[a].active /\ account[a].client \in clients
    /\ sync' = [sync EXCEPT ![s] = [actor |-> actor, account |-> a, saw |-> account[a]]]
    /\ UNCHANGED <<cred, issued, patching, binding, account, clients, holding, keyring, rotation, discovery>>

\* The credentials a fetch may use; none for an account to be discovered again.
Fetching(t) ==
    LET found == Candidates(t.actor, t.saw.client)
    IN  CASE t.saw.rediscover -> {}
          [] \E f \in found : ~Readable(f) -> {}
          [] found = {} /\ t.saw.uses = NoCred /\ t.actor = "admin" -> {NoCred}
          [] t.saw.uses # NoCred -> found \cap {t.saw.uses}
          [] OTHER -> IF Cardinality(found) = 1 THEN found ELSE {}

WrittenBack(t, k) == [t.saw EXCEPT !.uses = IF k = NoCred THEN @ ELSE k]

\* The metadata is that of the read; client and status are not written.
WriteMetadata(s) ==
    /\ sync[s] # Idle
    /\ LET t == sync[s]
       IN  \E k \in Fetching(t) \cup {NoCred} :
               account' = [account EXCEPT
                   ![t.account].rediscover = WrittenBack(t, k).rediscover,
                   ![t.account].uses = WrittenBack(t, k).uses]
    /\ sync' = [sync EXCEPT ![s] = Idle]
    /\ UNCHANGED <<cred, issued, patching, binding, clients, holding, keyring, rotation, discovery>>

-----------------------------------------------------------------------------
(* Keys and their rotation *)

\* A new key beside the old ones, to encrypt with from now on.
AddKey ==
    /\ keyring.active < LastKey /\ keyring.keys = {keyring.active}
    /\ keyring' = [active |-> keyring.active + 1, keys |-> keyring.keys \cup {keyring.active + 1}]
    /\ UNCHANGED <<cred, issued, patching, binding, account, clients, holding, rotation, discovery, sync>>

ReadRows ==
    /\ rotation = Idle
    /\ \A k \in Stored : Readable(k)
    /\ rotation' = [rows |-> cred, key |-> keyring.active]
    /\ UNCHANGED <<cred, issued, patching, binding, account, clients, holding, keyring, discovery, sync>>

\* Not under the key of the rotation when it read them.
Planned == {k \in Rows : rotation.rows[k] # NoRow /\ rotation.rows[k].key # rotation.key}

\* What is compared: two envelopes of one grant, owner and key count as one here.
Envelope(row) == <<row.grant, row.sealed, row.key>>

\* Mutant: the row is written whatever it holds by now.
StillThere(k) == cred[k] # NoRow

Untouched(k) == cred[k] # NoRow /\ Envelope(cred[k]) = Envelope(rotation.rows[k])

\* All rows or, when one was changed meanwhile, none.
SwapRows ==
    /\ rotation # Idle
    /\ IF \A k \in Planned : Untouched(k)
       THEN cred' = [k \in Rows |->
                IF k \in Planned
                THEN [cred[k] EXCEPT !.grant = rotation.rows[k].grant, !.key = rotation.key,
                                     !.sealed = rotation.rows[k].scope]
                ELSE cred[k]]
            /\ patching' = Overtaken(Planned)
       ELSE UNCHANGED <<cred, patching>>
    /\ rotation' = Idle
    /\ UNCHANGED <<issued, binding, account, clients, holding, keyring, discovery, sync>>

\* Mutant: rows that are not active are not counted.
StaleAmongActive == {k \in Active : cred[k].key # keyring.active}

\* needs_rotation of the summary, and what a dry run counts.
Stale == {k \in Stored : cred[k].key # keyring.active}

\* By docs/credential-encryption.md: only after a dry run found no stale row.
RemoveOldKeys ==
    /\ Stale = {}
    /\ keyring' = [keyring EXCEPT !.keys = {keyring.active}]
    /\ UNCHANGED <<cred, issued, patching, binding, account, clients, holding, rotation, discovery, sync>>

-----------------------------------------------------------------------------
(* Accounts, clients and agencies *)

\* patch_ad_account: an account that changes clients has to be discovered again.
MoveAccount(a, c) ==
    /\ c # account[a].client
    /\ account' = [account EXCEPT ![a].client = c, ![a].rediscover = TRUE, ![a].uses = NoCred]
    /\ UNCHANGED <<cred, issued, patching, binding, clients, holding, keyring, rotation, discovery, sync>>

SwitchAccount(a) ==
    /\ account' = [account EXCEPT ![a].active = ~@]
    /\ UNCHANGED <<cred, issued, patching, binding, clients, holding, keyring, rotation, discovery, sync>>

SwitchClient(c) ==
    /\ clients' = IF c \in clients THEN clients \ {c} ELSE clients \cup {c}
    /\ UNCHANGED <<cred, issued, patching, binding, account, holding, keyring, rotation, discovery, sync>>

SwitchHolding(g, c) ==
    /\ holding' = IF <<g, c>> \in holding THEN holding \ {<<g, c>>} ELSE holding \cup {<<g, c>>}
    /\ UNCHANGED <<cred, issued, patching, binding, account, clients, keyring, rotation, discovery, sync>>

-----------------------------------------------------------------------------
Next ==
    \/ \E s \in Scopes : UpsertCredential(s)
    \/ \E p \in Patches :
        \/ \E k \in Stored, credentials \in BOOLEAN, s \in Scopes \cup {Keep}, active \in BOOLEAN \cup {Keep} :
               StartPatch(p, k, credentials, s, active)
        \/ FinishPatch(p)
    \/ \E k \in Stored : ArchiveCredential(k)
    \/ \E g \in Agencies : DeleteAgency(g)
    \/ \E d \in Discoveries, actor \in Actors, a \in Accounts, k \in Rows \cup {NoCred} :
           AskProvider(d, actor, a, k)
    \/ \E d \in Discoveries : StoreDiscovered(d) \/ CheckBinding(d) \/ InsertBinding(d) \/ AbandonDiscovery(d)
    \/ \E s \in Syncs, actor \in Actors, a \in Accounts : ReadAccount(s, actor, a)
    \/ \E s \in Syncs : WriteMetadata(s)
    \/ AddKey \/ ReadRows \/ SwapRows \/ RemoveOldKeys
    \/ \E a \in Accounts, c \in Clients : MoveAccount(a, c)
    \/ \E a \in Accounts : SwitchAccount(a)
    \/ \E c \in Clients : SwitchClient(c)
    \/ \E g \in Agencies, c \in Clients : SwitchHolding(g, c)

Spec == Init /\ [][Next]_credentialVars

-----------------------------------------------------------------------------
\* A credential does not change its status under a binding: switching it off ends
\* the bindings, and one that was inserted after the row it had checked was switched
\* off ends when the row is switched on.  Only a patch that was overtaken can leave
\* it otherwise.  Deleted rows leave no binding.
\* (archive, patch and upsert of SqliteIntegrationCredentialStore,
\* bind_provider_account; delete_agency)
BindingsEndWithStatus ==
    \A a \in Accounts : binding[a] # NoBinding =>
        LET k == binding[a].cred
        IN  k \in Stored /\ (cred[k].late \/ cred[k].active = binding[a].active)

\* A rotation that read a row before its credentials were replaced does not write
\* the old ones back.  The only step that does is that of a patch that was overtaken.
\* (the compare-and-swap of rotate_credentials; patch)
LateWrite(k) == \E p \in Patches :
    patching[p] # Idle /\ patching'[p] = Idle /\ patching[p].cred = k /\ patching[p].overtaken

KeepsGrants == \A k \in Stored :
    cred'[k] # NoRow => cred'[k].grant >= cred[k].grant \/ LateWrite(k)

GrantsOnlyGrow == [][KeepsGrants]_credentialVars

\* Every row is encrypted for the owner it names, however patches, upserts and
\* rotations overlap; and, but for what a patch that was overtaken wrote, none needs
\* a key that was removed, archived rows included: they may be activated again.
\* (patch, rotate_credentials, get_encryption_summary)
RowsStayReadable == \A k \in Stored : SealedForOwner(k) /\ (cred[k].late \/ KeyConfigured(k))

\* A binding attests the credentials the provider was asked with.  The code does
\* not keep this: a discovery may bind to credentials that were replaced since.
\* (upsert; the discover route: resolve, ask, bind)
BindingsAttestTheirGrant ==
    \A a \in Accounts : binding[a] # NoBinding => binding[a].verified = cred[binding[a].cred].grant

\* Only a discovery clears the mark of an account that changed clients.  The code
\* does not keep this: a synchronization writes back the metadata it has read.
\* (run_sync; patch_ad_account; AdAccountDiscoveryService.discover)
OnlyDiscoveryClears ==
    [][\A a \in Accounts : account[a].rediscover /\ ~account'[a].rediscover
           => \E d \in Discoveries : discovery[d] # Idle /\ discovery[d].stage = "store"
                                     /\ discovery[d] # discovery'[d] ]_credentialVars
=============================================================================
