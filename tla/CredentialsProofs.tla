--------------------------- MODULE CredentialsProofs ---------------------------
(***************************************************************************)
(* What the store of credentials keeps for every set of rows, owners and   *)
(* accounts, every number of keys and of grants, with any number of        *)
(* patches, discoveries and synchronizations beside one rotation.          *)
(***************************************************************************)
EXTENDS Credentials, TLAPS

Rotation  == [rows: [Rows -> Row \cup {NoRow}], key: 1 .. LastKey]
Discovery == [stage: {"store", "bind", "insert"}, account: Accounts, saw: Account, cred: Rows \cup {NoCred},
              grant: 0 .. MaxGrant]
Sync      == [actor: Actors, account: Accounts, saw: Account]

\* The bounds are numbers, there is a first key, and the values that stand for
\* nothing differ from what they stand beside.
Values ==
    /\ MaxGrant \in Nat \ {0} /\ LastKey \in Nat \ {0}
    /\ NoRow \notin Row /\ NoBinding \notin Binding /\ NoCred \notin Rows
    /\ Idle \notin Patch \cup Rotation \cup Discovery \cup Sync

Typed ==
    /\ cred \in [Rows -> Row \cup {NoRow}]
    /\ issued \in 1 .. MaxGrant
    /\ patching \in [Patches -> Patch \cup {Idle}]
    /\ binding \in [Accounts -> Binding \cup {NoBinding}]
    /\ account \in [Accounts -> Account]
    /\ clients \subseteq Clients
    /\ holding \subseteq Agencies \X Clients
    /\ keyring \in [active: 1 .. LastKey, keys: SUBSET (1 .. LastKey)]
    /\ keyring.active \in keyring.keys
    /\ rotation \in Rotation \cup {Idle}
    /\ discovery \in [Discoveries -> Discovery \cup {Idle}]
    /\ sync \in [Syncs -> Sync \cup {Idle}]
    /\ \A d \in Discoveries : discovery[d] # Idle =>
        /\ discovery[d].cred # NoCred => discovery[d].grant # 0
        /\ discovery[d].stage # "store" => discovery[d].cred \in Rows

\* A row as it may be stored: encrypted for its owner, under a key that is not one
\* to come and, unless late, still configured.  A rotation whose key was removed comes
\* too late for it: it has been encrypted under a newer key since.
Fits(row) ==
    /\ row.sealed = row.scope
    /\ row.key <= keyring.active
    /\ row.grant <= issued
    /\ row.late \/ row.key \in keyring.keys \cup {Plain}
    /\ rotation # Idle /\ rotation.key \notin keyring.keys => row.late \/ row.key > rotation.key

RowsFit == \A k \in Stored : Fits(cred[k])

RotationFits ==
    rotation # Idle =>
        /\ rotation.key <= keyring.active
        /\ \A k \in Rows : rotation.rows[k] # NoRow =>
               rotation.rows[k].key <= rotation.key /\ rotation.rows[k].sealed = rotation.rows[k].scope

\* What a patch will write would fit if it were late; and it fits as it is, beside the
\* row it is to replace, as long as the patch is not overtaken.
PatchFits(t) ==
    /\ t.row.sealed = t.row.scope
    /\ t.row.key <= keyring.active
    /\ t.row.grant <= issued
    /\ ~t.overtaken =>
        /\ t.cred \in Stored
        /\ Fits(t.row)
        /\ t.row.grant >= cred[t.cred].grant
        /\ t.row.key >= cred[t.cred].key
        /\ t.row.late = cred[t.cred].late
        /\ t.unbinds \/ t.row.active = cred[t.cred].active

PatchesFit == \A p \in Patches : patching[p] # Idle => PatchFits(patching[p])

AllFit == RowsFit /\ RotationFits /\ PatchesFit

KeyNumbers ==
    /\ keyring.active \in 1 .. LastKey /\ keyring.keys \subseteq 1 .. LastKey
    /\ keyring.active \in keyring.keys

LEMMA Fields ==
    ASSUME Values, Typed
    PROVE  /\ KeyNumbers
           /\ issued \in 1 .. MaxGrant
           /\ \A k \in Stored : k \in Rows /\ cred[k] \in Row
           /\ rotation # Idle => rotation \in Rotation
           /\ \A p \in Patches : patching[p] # Idle =>
                  /\ patching[p] \in Patch /\ patching[p].cred \in Rows /\ patching[p].row \in Row
                  /\ patching[p].overtaken \in BOOLEAN /\ patching[p].unbinds \in BOOLEAN
BY DEF Typed, Stored, Patch, KeyNumbers

LEMMA RowFields ==
    ASSUME Values, NEW row \in Row
    PROVE  /\ row.grant \in 1 .. MaxGrant /\ row.key \in Plain .. LastKey
           /\ row.active \in BOOLEAN /\ row.late \in BOOLEAN
           /\ row.scope \in Scopes /\ row.sealed \in Scopes
           /\ row.grant \in Int /\ row.key \in Int
BY DEF Row, Values, Plain

-----------------------------------------------------------------------------
(* The steps that write rows *)

LEMMA UnboundIs ==
    ASSUME Values, Typed, NEW k
    PROVE  /\ Unbound(k) \in [Accounts -> Binding \cup {NoBinding}]
           /\ \A a \in Accounts : Unbound(k)[a] # NoBinding => Unbound(k)[a] = binding[a] /\ binding[a].cred # k
<1>1. ASSUME NEW a \in Accounts
      PROVE  (IF binding[a] # NoBinding /\ binding[a].cred = k THEN NoBinding ELSE binding[a])
                 \in Binding \cup {NoBinding}
  BY DEF Typed
<1>2. Unbound(k) \in [Accounts -> Binding \cup {NoBinding}]
  BY <1>1, Zenon DEF Unbound
<1> QED
  BY <1>2 DEF Unbound

\* A patch that is overtaken is otherwise as it was.
LEMMA OvertakenIs ==
    ASSUME Values, Typed, NEW ks
    PROVE  /\ Overtaken(ks) \in [Patches -> Patch \cup {Idle}]
           /\ \A p \in Patches :
                \/ Overtaken(ks)[p] = patching[p] /\ (patching[p] = Idle \/ patching[p].cred \notin ks)
                \/ /\ patching[p] # Idle /\ Overtaken(ks)[p] # Idle
                   /\ Overtaken(ks)[p].overtaken /\ Overtaken(ks)[p].row = patching[p].row
<1>1. ASSUME NEW p \in Patches, patching[p] # Idle
      PROVE  /\ [patching[p] EXCEPT !.overtaken = TRUE] \in Patch
             /\ [patching[p] EXCEPT !.overtaken = TRUE].overtaken
             /\ [patching[p] EXCEPT !.overtaken = TRUE].row = patching[p].row
  BY <1>1 DEF Typed, Patch
<1>2. \A p \in Patches :
        (IF patching[p] # Idle /\ patching[p].cred \in ks
         THEN [patching[p] EXCEPT !.overtaken = TRUE] ELSE patching[p]) \in Patch \cup {Idle}
  BY <1>1 DEF Typed
<1>3. Overtaken(ks) \in [Patches -> Patch \cup {Idle}]
  BY <1>2, Zenon DEF Overtaken
<1>4. ASSUME NEW p \in Patches
      PROVE  Overtaken(ks)[p] = IF patching[p] # Idle /\ patching[p].cred \in ks
                                THEN [patching[p] EXCEPT !.overtaken = TRUE] ELSE patching[p]
  BY DEF Overtaken
<1> QED
  BY <1>1, <1>3, <1>4 DEF Values
\* Only the rows ks are written, or go, and every patch of one of them is overtaken.
Overtakes(ks, p) ==
    \/ patching'[p] = Idle
    \/ patching'[p] = patching[p] /\ patching[p].cred \notin ks
    \/ patching[p] # Idle /\ patching'[p].overtaken /\ patching'[p].row = patching[p].row

Writes(ks) ==
    /\ keyring' = keyring /\ rotation' \in {rotation, Idle}
    /\ issued' >= issued
    /\ \A k \in Rows \ ks : cred'[k] = cred[k]

LEMMA RowsWritten ==
    ASSUME Values, Typed, Typed', AllFit, NEW ks, Writes(ks),
           \A k \in Stored' \cap ks : Fits(cred[k])',
           \A p \in Patches : Overtakes(ks, p) \/ (patching[p] # Idle => PatchFits(patching[p]))'
    PROVE  AllFit'
<1>1. issued \in Int /\ issued' \in Int /\ KeyNumbers /\ keyring' = keyring /\ issued' >= issued
      /\ rotation' \in {rotation, Idle}
  BY Fields DEF Typed, Values, Writes
<1>2. ASSUME NEW row \in Row, Fits(row)
      PROVE  Fits(row)'
  BY <1>1, <1>2, RowFields DEF Fits, Values
<1>3. RowsFit'
  <2> SUFFICES ASSUME NEW k \in Stored', k \notin ks PROVE Fits(cred[k])'
    BY DEF RowsFit
  <2>1. k \in Rows /\ cred'[k] = cred[k] /\ k \in Stored
    BY DEF Stored, Writes
  <2>2. PICK row \in Row : row = cred[k] /\ Fits(row)
    BY <2>1, Fields DEF AllFit, RowsFit
  <2>3. Fits(row)'
    BY <1>2, <2>2
  <2> QED
    BY <2>1, <2>2, <2>3 DEF Fits
<1>4. RotationFits'
  BY <1>1 DEF AllFit, RotationFits
<1>5. PatchesFit'
  <2> SUFFICES ASSUME NEW p \in Patches, patching'[p] # Idle, Overtakes(ks, p)
               PROVE  PatchFits(patching[p])'
    BY DEF PatchesFit
  <2>1. patching[p] # Idle => PatchFits(patching[p]) /\ patching[p].row \in Row
    BY Fields DEF AllFit, PatchesFit
  <2>2. CASE patching'[p] = patching[p] /\ patching[p].cred \notin ks
    <3>1. PICK t \in Patch : t = patching[p]
      BY <2>2, Fields
    <3>2. PatchFits(t) /\ t.row \in Row /\ t.cred \in Rows /\ t.cred \notin ks
      BY <2>1, <2>2, <3>1 DEF Patch
    <3>3. cred'[t.cred] = cred[t.cred]
      BY <3>2 DEF Writes
    <3>4. Fits(t.row) => Fits(t.row)'
      BY <1>2, <3>2
    <3>5. t.row.grant <= issued'
      BY <1>1, <3>2, RowFields DEF PatchFits
    <3>6. PatchFits(t)'
      BY <1>1, <3>2, <3>3, <3>4, <3>5 DEF PatchFits, Stored
    <3> QED
      BY <2>2, <3>1, <3>6 DEF PatchFits, Fits
  <2>3. CASE patching[p] # Idle /\ patching'[p].overtaken /\ patching'[p].row = patching[p].row
    <3>1. patching[p].row.grant <= issued'
      BY <1>1, <2>1, <2>3, RowFields DEF PatchFits
    <3> QED
      BY <1>1, <2>1, <2>3, <3>1 DEF PatchFits
  <2> QED
    BY <2>2, <2>3 DEF Overtakes
<1> QED
  BY <1>3, <1>4, <1>5 DEF AllFit

LEMMA UpsertWrites ==
    ASSUME Values, Typed, NEW s \in Scopes, UpsertCredential(s)
    PROVE  /\ Typed'
           /\ \E k \in Rows :
                /\ Writes({k}) /\ \A p \in Patches : Overtakes({k}, p)
                /\ cred'[k] = NewRow(s, issued + 1, keyring.active) /\ cred'[k] \in Row
                /\ issued' = issued + 1
                /\ \/ k \in Stored /\ binding' = Unbound(k)
                   \/ k \notin Stored /\ binding' = binding
<1>1. issued + 1 \in 1 .. MaxGrant /\ issued' = issued + 1 /\ issued' >= issued
  BY DEF UpsertCredential, Typed, Values
<1>2. PICK row \in Row : row = NewRow(s, issued + 1, keyring.active)
  <2>1. NewRow(s, issued + 1, keyring.active) \in Row
    BY <1>1, Fields DEF NewRow, Row, KeyNumbers, Values, Plain
  <2> QED
    BY <2>1
<1>3. UNCHANGED <<account, clients, holding, keyring, rotation, discovery, sync>>
  BY DEF UpsertCredential
<1>4. PICK k \in Rows :
        /\ cred' = [cred EXCEPT ![k] = row]
        /\ \/ k \in Stored /\ binding' = Unbound(k) /\ patching' = Overtaken({k})
           \/ Fresh(k) /\ UNCHANGED <<binding, patching>>
  BY <1>2 DEF UpsertCredential, Stored
<1>5. /\ cred' \in [Rows -> Row \cup {NoRow}] /\ cred'[k] = row
      /\ \A o \in Rows \ {k} : cred'[o] = cred[o]
  BY <1>2, <1>4 DEF Typed
<1>6. Writes({k})
  BY <1>1, <1>3, <1>5 DEF Writes
<1>7. CASE k \in Stored /\ binding' = Unbound(k) /\ patching' = Overtaken({k})
  <2>1. Typed'
    BY <1>1, <1>3, <1>5, <1>7, UnboundIs, OvertakenIs DEF Typed
  <2>2. \A p \in Patches : Overtakes({k}, p)
    BY <1>7, OvertakenIs DEF Overtakes
  <2> QED
    BY <1>1, <1>2, <1>5, <1>6, <1>7, <2>1, <2>2
<1>8. CASE Fresh(k) /\ UNCHANGED <<binding, patching>>
  <2>1. Typed'
    BY <1>1, <1>3, <1>5, <1>8 DEF Typed
  <2>2. k \notin Stored /\ \A p \in Patches : Overtakes({k}, p)
    BY <1>8 DEF Overtakes, Fresh
  <2> QED
    BY <1>1, <1>2, <1>5, <1>6, <1>8, <2>1, <2>2
<1> QED
  BY <1>4, <1>7, <1>8

LEMMA StartWrites ==
    ASSUME Values, Typed, NEW p \in Patches, NEW k \in Stored, NEW credentials \in BOOLEAN,
           NEW s \in Scopes \cup {Keep}, NEW active \in BOOLEAN \cup {Keep},
           StartPatch(p, k, credentials, s, active)
    PROVE  /\ Typed' /\ Writes({})
           /\ UNCHANGED <<cred, binding, keyring, rotation>>
           /\ issued' = IF credentials THEN issued + 1 ELSE issued
           /\ \A q \in Patches \ {p} : patching'[q] = patching[q]
           /\ \E row \in Row :
                /\ row = PatchedRow(k, credentials, s, active)
                /\ patching'[p] = [cred |-> k, row |-> row, unbinds |-> Unbinds(k, row, credentials),
                                   overtaken |-> FALSE]
<1>1. k \in Rows /\ cred[k] \in Row /\ KeyNumbers
  BY Fields
<1>2. issued' = (IF credentials THEN issued + 1 ELSE issued)
      /\ issued' \in 1 .. MaxGrant /\ issued' >= issued
  BY DEF StartPatch, Typed, Values
<1>3. PICK row \in Row : row = PatchedRow(k, credentials, s, active)
  <2>1. (IF s = Keep THEN cred[k].scope ELSE s) \in Scopes
    BY <1>1, RowFields
  <2>2. (IF active = Keep THEN cred[k].active ELSE active) \in BOOLEAN
    BY <1>1, RowFields
  <2>3. (IF credentials THEN issued + 1 ELSE cred[k].grant) \in 1 .. MaxGrant
    BY <1>1, <1>2, RowFields
  <2>4. keyring.active \in Plain .. LastKey
    BY <1>1 DEF KeyNumbers, Plain, Values
  <2>5. PatchedRow(k, credentials, s, active) \in Row
    BY <1>1, <2>1, <2>2, <2>3, <2>4, RowFields DEF PatchedRow, Row
  <2> QED
    BY <2>5
<1>4. Unbinds(k, row, credentials) \in BOOLEAN
  BY DEF Unbinds
<1>5. PICK t \in Patch : t = [cred |-> k, row |-> row, unbinds |-> Unbinds(k, row, credentials),
                              overtaken |-> FALSE]
  BY <1>1, <1>3, <1>4 DEF Patch
<1>6. patching' = [patching EXCEPT ![p] = t]
      /\ UNCHANGED <<cred, binding, account, clients, holding, keyring, rotation, discovery, sync>>
  BY <1>3, <1>5 DEF StartPatch
<1>7. /\ patching' \in [Patches -> Patch \cup {Idle}] /\ patching'[p] = t
      /\ \A q \in Patches \ {p} : patching'[q] = patching[q]
  BY <1>5, <1>6 DEF Typed
<1>8. Typed' /\ Writes({})
  BY <1>2, <1>6, <1>7 DEF Typed, Writes
<1> QED
  BY <1>2, <1>3, <1>5, <1>6, <1>7, <1>8

LEMMA FinishWrites ==
    ASSUME Values, Typed, NEW p \in Patches, FinishPatch(p)
    PROVE  /\ Typed' /\ UNCHANGED <<issued, keyring, rotation>>
           /\ patching[p] \in Patch /\ patching[p] # Idle /\ patching'[p] = Idle
           /\ \/ /\ UNCHANGED <<cred, binding>> /\ Writes({})
                 /\ \A q \in Patches : Overtakes({}, q)
              \/ /\ patching[p].cred \in Stored /\ Writes({patching[p].cred})
                 /\ \A q \in Patches : Overtakes({patching[p].cred}, q)
                 /\ cred'[patching[p].cred] =
                        [patching[p].row EXCEPT !.late = patching[p].row.late \/ patching[p].overtaken]
                 /\ binding' = IF patching[p].unbinds THEN Unbound(patching[p].cred) ELSE binding
<1>1. PICK t \in Patch : t = patching[p]
  BY DEF FinishPatch, Typed
<1>2. t # Idle /\ t.cred \in Rows /\ t.row \in Row /\ t.overtaken \in BOOLEAN
      /\ UNCHANGED <<issued, account, clients, holding, keyring, rotation, discovery, sync>>
  BY <1>1 DEF FinishPatch, Patch
<1>3. issued' >= issued
  BY <1>2 DEF Typed, Values
<1>4. CASE patching' = [patching EXCEPT ![p] = Idle] /\ UNCHANGED <<cred, binding>>
  <2>1. patching' \in [Patches -> Patch \cup {Idle}] /\ patching'[p] = Idle
        /\ \A q \in Patches \ {p} : patching'[q] = patching[q]
    BY <1>4 DEF Typed
  <2>2. Typed' /\ Writes({}) /\ \A q \in Patches : Overtakes({}, q)
    BY <1>2, <1>3, <1>4, <2>1 DEF Typed, Writes, Overtakes
  <2> QED
    BY <1>1, <1>2, <1>4, <2>1, <2>2
<1>5. CASE /\ t.cred \in Stored
           /\ cred' = [cred EXCEPT ![t.cred] = [t.row EXCEPT !.late = @ \/ t.overtaken]]
           /\ binding' = IF t.unbinds THEN Unbound(t.cred) ELSE binding
           /\ patching' = [Overtaken({t.cred}) EXCEPT ![p] = Idle]
  <2>1. PICK row \in Row : row = [t.row EXCEPT !.late = t.row.late \/ t.overtaken]
    <3> DEFINE l == t.row.late \/ t.overtaken
    <3>1. l \in BOOLEAN
      OBVIOUS
    <3> HIDE DEF l
    <3>2. [t.row EXCEPT !.late = l] \in Row
      BY <1>2, <3>1 DEF Row
    <3> QED
      BY <3>2 DEF l
  <2>2. cred' = [cred EXCEPT ![t.cred] = row]
    BY <1>5, <2>1
  <2>3. /\ cred' \in [Rows -> Row \cup {NoRow}] /\ cred'[t.cred] = row
        /\ \A o \in Rows \ {t.cred} : cred'[o] = cred[o]
    BY <1>2, <2>2 DEF Typed
  <2>4. /\ patching' \in [Patches -> Patch \cup {Idle}] /\ patching'[p] = Idle
        /\ \A q \in Patches \ {p} : patching'[q] = Overtaken({t.cred})[q]
    BY <1>5, OvertakenIs
  <2>5. \A q \in Patches : Overtakes({t.cred}, q)
    BY <2>4, OvertakenIs DEF Overtakes
  <2>6. Typed' /\ Writes({t.cred})
    BY <1>2, <1>3, <1>5, <2>3, <2>4, UnboundIs DEF Typed, Writes
  <2> QED
    BY <1>1, <1>2, <1>5, <2>1, <2>3, <2>4, <2>5, <2>6
<1> QED
  BY <1>1, <1>4, <1>5 DEF FinishPatch

LEMMA ArchiveWrites ==
    ASSUME Values, Typed, NEW k \in Stored, ArchiveCredential(k)
    PROVE  /\ Typed' /\ Writes({k}) /\ issued' = issued
           /\ \A p \in Patches : Overtakes({k}, p)
           /\ cred'[k] = [cred[k] EXCEPT !.active = FALSE]
           /\ binding' = Unbound(k)
<1>1. k \in Rows /\ cred[k] \in Row /\ cred' = [cred EXCEPT ![k].active = FALSE]
      /\ binding' = Unbound(k) /\ patching' = Overtaken({k})
      /\ UNCHANGED <<issued, account, clients, holding, keyring, rotation, discovery, sync>>
  BY Fields DEF ArchiveCredential
<1>2. [cred[k] EXCEPT !.active = FALSE] \in Row
  BY <1>1 DEF Row
<1>3. /\ cred' \in [Rows -> Row \cup {NoRow}] /\ cred'[k] = [cred[k] EXCEPT !.active = FALSE]
      /\ \A o \in Rows \ {k} : cred'[o] = cred[o]
  BY <1>1, <1>2 DEF Typed
<1>4. issued' >= issued
  BY <1>1 DEF Typed, Values
<1>5. \A p \in Patches : Overtakes({k}, p)
  BY <1>1, OvertakenIs DEF Overtakes
<1>6. Typed' /\ Writes({k})
  BY <1>1, <1>3, <1>4, UnboundIs, OvertakenIs DEF Typed, Writes
<1> QED
  BY <1>1, <1>3, <1>5, <1>6

LEMMA DeleteWrites ==
    ASSUME Values, Typed, NEW g \in Agencies, DeleteAgency(g)
    PROVE  /\ Typed' /\ issued' = issued
           /\ \E ks \in SUBSET Stored :
                /\ Writes(ks) /\ \A p \in Patches : Overtakes(ks, p)
                /\ \A k \in ks : cred'[k] = NoRow
                /\ \A a \in Accounts : binding'[a] # NoBinding =>
                       binding'[a] = binding[a] /\ binding[a].cred \notin ks
<1>1. PICK own \in SUBSET Stored : own = {k \in Stored : cred[k].scope = g}
  OBVIOUS
<1>2. /\ cred' = [k \in Rows |-> IF k \in own THEN NoRow ELSE cred[k]]
      /\ binding' = [a \in Accounts |->
               IF binding[a] # NoBinding /\ binding[a].cred \in own THEN NoBinding ELSE binding[a]]
      /\ patching' = Overtaken(own)
      /\ holding' = {h \in holding : h[1] # g}
      /\ UNCHANGED <<issued, account, clients, keyring, rotation, discovery, sync>>
  BY <1>1 DEF DeleteAgency
<1>3. /\ cred' \in [Rows -> Row \cup {NoRow}]
      /\ \A k \in Rows \ own : cred'[k] = cred[k]
      /\ \A k \in own : cred'[k] = NoRow
  <2>1. \A k \in Rows : (IF k \in own THEN NoRow ELSE cred[k]) \in Row \cup {NoRow}
    BY DEF Typed
  <2>2. cred' \in [Rows -> Row \cup {NoRow}]
    BY <1>2, <2>1, Zenon
  <2> QED
    BY <1>2, <2>2 DEF Stored
<1>4. /\ binding' \in [Accounts -> Binding \cup {NoBinding}]
      /\ \A a \in Accounts : binding'[a] # NoBinding =>
             binding'[a] = binding[a] /\ binding[a].cred \notin own
  <2>1. \A a \in Accounts :
            (IF binding[a] # NoBinding /\ binding[a].cred \in own THEN NoBinding ELSE binding[a])
                \in Binding \cup {NoBinding}
    BY DEF Typed
  <2>2. binding' \in [Accounts -> Binding \cup {NoBinding}]
    BY <1>2, <2>1, Zenon
  <2> QED
    BY <1>2, <2>2
<1>5. issued' >= issued
  BY <1>2 DEF Typed, Values
<1>6. \A p \in Patches : Overtakes(own, p)
  BY <1>2, OvertakenIs DEF Overtakes
<1>7. holding' \subseteq Agencies \X Clients
  BY <1>2 DEF Typed
<1>8. Typed' /\ Writes(own)
  BY <1>2, <1>3, <1>4, <1>5, <1>7, OvertakenIs DEF Typed, Writes
<1> QED
  BY <1>2, <1>3, <1>4, <1>6, <1>8

\* A swap writes only rows that it finds as it has read them.
LEMMA SwapWrites ==
    ASSUME Values, Typed, SwapRows
    PROVE  /\ Typed' /\ rotation \in Rotation /\ rotation # Idle /\ rotation' = Idle
           /\ UNCHANGED <<issued, binding, keyring>>
           /\ \E ks \in SUBSET Planned :
                /\ Writes(ks) /\ \A p \in Patches : Overtakes(ks, p)
                /\ \A k \in ks :
                     /\ k \in Stored /\ Envelope(cred[k]) = Envelope(rotation.rows[k])
                     /\ cred'[k] = [cred[k] EXCEPT !.grant = rotation.rows[k].grant, !.key = rotation.key,
                                                   !.sealed = rotation.rows[k].scope]
<1>1. rotation \in Rotation /\ rotation # Idle /\ rotation' = Idle
      /\ UNCHANGED <<issued, binding, account, clients, holding, keyring, discovery, sync>>
  BY DEF SwapRows, Typed
<1>2. issued' >= issued
  BY <1>1 DEF Typed, Values
<1>3. CASE UNCHANGED <<cred, patching>>
  <2>1. Typed' /\ Writes({}) /\ \A p \in Patches : Overtakes({}, p)
    BY <1>1, <1>2, <1>3 DEF Typed, Writes, Overtakes
  <2>2. PICK ks \in SUBSET Planned : ks = {}
    OBVIOUS
  <2>3. Writes(ks) /\ (\A p \in Patches : Overtakes(ks, p)) /\ \A k \in ks : FALSE
    BY <2>1, <2>2
  <2> QED
    BY <1>1, <2>1, <2>3
<1>4. CASE /\ \A k \in Planned : Untouched(k)
           /\ cred' = [k \in Rows |->
                IF k \in Planned
                THEN [cred[k] EXCEPT !.grant = rotation.rows[k].grant, !.key = rotation.key,
                                     !.sealed = rotation.rows[k].scope]
                ELSE cred[k]]
           /\ patching' = Overtaken(Planned)
  <2>1. ASSUME NEW k \in Planned
        PROVE  /\ k \in Stored /\ Envelope(cred[k]) = Envelope(rotation.rows[k])
               /\ [cred[k] EXCEPT !.grant = rotation.rows[k].grant, !.key = rotation.key,
                                  !.sealed = rotation.rows[k].scope] \in Row
    <3>1. k \in Rows /\ rotation.rows[k] \in Row /\ rotation.key \in Plain .. LastKey
      BY <1>1 DEF Planned, Rotation, Plain, Values
    <3>2. k \in Stored /\ cred[k] \in Row /\ Envelope(cred[k]) = Envelope(rotation.rows[k])
      BY <1>4, <3>1, Fields DEF Untouched, Stored
    <3>3. [cred[k] EXCEPT !.grant = rotation.rows[k].grant, !.key = rotation.key,
                          !.sealed = rotation.rows[k].scope] \in Row
      BY <3>1, <3>2 DEF Row
    <3> QED
      BY <3>2, <3>3
  <2>2. cred' \in [Rows -> Row \cup {NoRow}]
    <3>1. ASSUME NEW k \in Rows
          PROVE  (IF k \in Planned
                  THEN [cred[k] EXCEPT !.grant = rotation.rows[k].grant, !.key = rotation.key,
                                       !.sealed = rotation.rows[k].scope]
                  ELSE cred[k]) \in Row \cup {NoRow}
      BY <2>1 DEF Typed
    <3> QED
      BY <1>4, <3>1, Zenon
  <2>3. \A k \in Rows \ Planned : cred'[k] = cred[k]
    BY <1>4
  <2>4. \A p \in Patches : Overtakes(Planned, p)
    BY <1>4, OvertakenIs DEF Overtakes
  <2>5. Typed' /\ Writes(Planned)
    BY <1>1, <1>2, <1>4, <2>2, <2>3, OvertakenIs DEF Typed, Writes
  <2>6. \A k \in Planned :
           cred'[k] = [cred[k] EXCEPT !.grant = rotation.rows[k].grant, !.key = rotation.key,
                                      !.sealed = rotation.rows[k].scope]
    BY <1>4 DEF Planned
  <2> QED
    BY <1>1, <2>1, <2>4, <2>5, <2>6
<1> QED
  BY <1>3, <1>4 DEF SwapRows

-----------------------------------------------------------------------------
(* Types *)

LEMMA InitTyped == Values /\ Init => Typed
<1> SUFFICES ASSUME Values, Init PROVE Typed
  OBVIOUS
<1>1. PICK k \in Rows, s \in Scopes, key \in {Plain, 1} :
           cred = [r \in Rows |-> IF r = k THEN NewRow(s, 1, key) ELSE NoRow]
  BY DEF Init
<1>2. NewRow(s, 1, key) \in Row
  BY DEF NewRow, Row, Values, Plain
<1>3. cred \in [Rows -> Row \cup {NoRow}]
  <2>1. ASSUME NEW r \in Rows
        PROVE  (IF r = k THEN NewRow(s, 1, key) ELSE NoRow) \in Row \cup {NoRow}
    BY <1>2
  <2> QED
    BY <1>1, <2>1, Zenon
<1>4. /\ keyring \in [active: 1 .. LastKey, keys: SUBSET (1 .. LastKey)] /\ keyring.active \in keyring.keys
      /\ issued \in 1 .. MaxGrant
  BY DEF Init, Values
<1>5. account \in [Accounts -> Account]
  <2>1. [client: Clients, active: {TRUE}, rediscover: {FALSE}, uses: {NoCred}] \subseteq Account
    BY DEF Account
  <2> QED
    BY <2>1 DEF Init
<1> QED
  BY <1>3, <1>4, <1>5 DEF Init, Typed

LEMMA DiscoveryTyped ==
    ASSUME Values, Typed, NEW d \in Discoveries,
           \/ \E actor \in Actors, a \in Accounts, k \in Rows \cup {NoCred} : AskProvider(d, actor, a, k)
           \/ StoreDiscovered(d) \/ CheckBinding(d) \/ InsertBinding(d) \/ AbandonDiscovery(d)
    PROVE  Typed'
<1> USE DEF Typed
<1>1. ASSUME NEW actor \in Actors, NEW a \in Accounts, NEW k \in Rows \cup {NoCred}, AskProvider(d, actor, a, k)
      PROVE  Typed'
  <2> DEFINE t == [stage |-> "store", account |-> a, saw |-> account[a], cred |-> k,
                   grant |-> IF k = NoCred THEN 0 ELSE cred[k].grant]
  <2>1. k # NoCred => cred[k] \in Row
    BY <1>1 DEF AskProvider, Candidates, Reaching, Active, Stored
  <2>2. t.grant \in 0 .. MaxGrant /\ (k # NoCred => t.grant # 0)
    BY <2>1 DEF Row, Values
  <2>3. t \in Discovery
    BY <2>2 DEF Discovery
  <2>4. discovery' = [discovery EXCEPT ![d] = t]
        /\ UNCHANGED <<cred, issued, patching, binding, account, clients, holding, keyring, rotation, sync>>
    BY <1>1 DEF AskProvider
  <2>5. t.cred = k /\ t.stage = "store"
    OBVIOUS
  <2> HIDE DEF t
  <2> QED
    BY <2>2, <2>3, <2>4, <2>5
<1>2. CASE StoreDiscovered(d)
  <2> DEFINE t == discovery[d]
  <2>1. t \in Discovery /\ t.account \in Accounts /\ t.saw \in Account /\ t.stage = "store"
    BY <1>2 DEF StoreDiscovered, Discovery
  <2>2. account' \in [Accounts -> Account]
    <3> DEFINE open == account[t.account].active \/ ~t.saw.active
    <3>1. open \in BOOLEAN
      OBVIOUS
    <3>2. (IF t.cred = NoCred THEN t.saw.uses ELSE t.cred) \in Rows \cup {NoCred}
      BY <2>1 DEF Account, Discovery
    <3>3. account' = [account EXCEPT
                  ![t.account].rediscover = FALSE,
                  ![t.account].uses = IF t.cred = NoCred THEN t.saw.uses ELSE t.cred,
                  ![t.account].active = open]
      BY <1>2 DEF StoreDiscovered
    <3> HIDE DEF open
    <3>4. account'[t.account] \in Account
      BY <2>1, <3>1, <3>2, <3>3 DEF Account
    <3> QED
      BY <2>1, <3>3, <3>4
  <2>3. [t EXCEPT !.stage = "bind"] \in Discovery
    BY <2>1 DEF Discovery
  <2>4. t.cred # NoCred => /\ [t EXCEPT !.stage = "bind"].cred \in Rows
                           /\ [t EXCEPT !.stage = "bind"].grant # 0
    BY <1>2, <2>1 DEF StoreDiscovered, Discovery
  <2>5. discovery' = [discovery EXCEPT ![d] = Idle]
        \/ (t.cred # NoCred /\ discovery' = [discovery EXCEPT ![d] = [t EXCEPT !.stage = "bind"]])
    BY <1>2 DEF StoreDiscovered
  <2>6. PICK next \in Discovery \cup {Idle} :
          /\ discovery' = [discovery EXCEPT ![d] = next]
          /\ next # Idle => next.cred \in Rows /\ next.grant # 0
    BY <2>3, <2>4, <2>5
  <2>7. /\ discovery' \in [Discoveries -> Discovery \cup {Idle}]
        /\ \A o \in Discoveries \ {d} : discovery'[o] = discovery[o]
        /\ discovery'[d] # Idle => discovery'[d].cred \in Rows /\ discovery'[d].grant # 0
    BY <2>6
  <2> QED
    BY <1>2, <2>2, <2>7 DEF StoreDiscovered, Values
<1>3. CASE CheckBinding(d)
  <2> DEFINE t == discovery[d]
  <2>1. t \in Discovery /\ t.account \in Accounts /\ t.cred \in Rows /\ t.grant # 0
    BY <1>3 DEF CheckBinding, Discovery, Values
  <2> DEFINE new == [t EXCEPT !.stage = "insert", !.saw = account[t.account]]
  <2>2. new \in Discovery /\ new.cred = t.cred /\ new.grant = t.grant
    BY <2>1 DEF Discovery
  <2>3. discovery' \in {[discovery EXCEPT ![d] = new], [discovery EXCEPT ![d] = Idle]}
    BY <1>3 DEF CheckBinding
  <2> HIDE DEF new
  <2>4. PICK next \in Discovery \cup {Idle} :
          /\ discovery' = [discovery EXCEPT ![d] = next]
          /\ next # Idle => next.cred \in Rows /\ next.grant # 0
    BY <2>1, <2>2, <2>3
  <2>5. /\ discovery' \in [Discoveries -> Discovery \cup {Idle}]
        /\ \A o \in Discoveries \ {d} : discovery'[o] = discovery[o]
        /\ discovery'[d] # Idle => discovery'[d].cred \in Rows /\ discovery'[d].grant # 0
    BY <2>4
  <2> QED
    BY <1>3, <2>5 DEF CheckBinding, Values
<1>4. CASE InsertBinding(d)
  <2> DEFINE t == discovery[d]
             new == [client |-> t.saw.client, cred |-> t.cred, verified |-> t.grant,
                     active |-> cred[t.cred].active]
  <2>1. t \in Discovery /\ t.account \in Accounts /\ t.cred \in Rows /\ t.grant \in 1 .. MaxGrant
        /\ t.saw \in Account
    BY <1>4 DEF InsertBinding, Discovery, Values
  <2>2. t.cred \in Stored => new \in Binding
    BY <2>1 DEF Binding, Account, Row, Stored
  <2>3. UNCHANGED binding \/ (t.cred \in Stored /\ binding' = [binding EXCEPT ![t.account] = new])
    BY <1>4 DEF InsertBinding
  <2> HIDE DEF new
  <2>4. binding' \in [Accounts -> Binding \cup {NoBinding}]
    BY <2>1, <2>2, <2>3
  <2> QED
    BY <1>4, <2>4 DEF InsertBinding
<1>5. CASE AbandonDiscovery(d)
  BY <1>5 DEF AbandonDiscovery
<1> QED
  BY <1>1, <1>2, <1>3, <1>4, <1>5

LEMMA SyncTyped ==
    ASSUME Values, Typed, NEW s \in Syncs,
           \/ \E actor \in Actors, a \in Accounts : ReadAccount(s, actor, a)
           \/ WriteMetadata(s)
    PROVE  Typed'
<1> USE DEF Typed
<1>1. ASSUME NEW actor \in Actors, NEW a \in Accounts, ReadAccount(s, actor, a)
      PROVE  Typed'
  <2>1. [actor |-> actor, account |-> a, saw |-> account[a]] \in Sync
    BY DEF Sync
  <2> QED
    BY <1>1, <2>1 DEF ReadAccount
<1>2. CASE WriteMetadata(s)
  <2> DEFINE t == sync[s]
  <2>1. t \in Sync /\ t.account \in Accounts /\ t.saw \in Account
    BY <1>2 DEF WriteMetadata, Sync
  <2>2. PICK k \in Fetching(t) \cup {NoCred} :
          account' = [account EXCEPT
                   ![t.account].rediscover = WrittenBack(t, k).rediscover,
                   ![t.account].uses = WrittenBack(t, k).uses]
    BY <1>2 DEF WriteMetadata
  <2>3. k \in Rows \cup {NoCred}
    BY <2>2 DEF Fetching, Candidates, Reaching, Active, Stored
  <2>4. WrittenBack(t, k).rediscover = t.saw.rediscover
        /\ WrittenBack(t, k).uses = IF k = NoCred THEN t.saw.uses ELSE k
    BY <2>1 DEF WrittenBack, Account
  <2> DEFINE mark == WrittenBack(t, k).rediscover
             use  == WrittenBack(t, k).uses
  <2>5. mark \in BOOLEAN /\ use \in Rows \cup {NoCred}
    BY <2>1, <2>3, <2>4 DEF Account
  <2> HIDE DEF mark, use
  <2>6. account' \in [Accounts -> Account]
    <3>1. account' = [account EXCEPT ![t.account].rediscover = mark, ![t.account].uses = use]
      BY <2>2 DEF mark, use
    <3>2. account'[t.account] \in Account
      BY <2>1, <2>5, <3>1 DEF Account
    <3> QED
      BY <2>1, <3>1, <3>2
  <2> QED
    BY <1>2, <2>6 DEF WriteMetadata
<1> QED
  BY <1>1, <1>2

LEMMA KeysTyped ==
    ASSUME Values, Typed, AddKey \/ ReadRows \/ SwapRows \/ RemoveOldKeys
    PROVE  Typed'
<1>1. CASE AddKey
  <2>1. /\ keyring.active \in 1 .. LastKey /\ keyring.active < LastKey
        /\ keyring.keys \subseteq 1 .. LastKey
        /\ keyring' = [active |-> keyring.active + 1, keys |-> keyring.keys \cup {keyring.active + 1}]
    BY <1>1 DEF AddKey, Typed
  <2>2. keyring.active + 1 \in 1 .. LastKey
    BY <2>1 DEF Values
  <2>3. keyring' \in [active: 1 .. LastKey, keys: SUBSET (1 .. LastKey)]
        /\ keyring'.active \in keyring'.keys
    BY <2>1, <2>2
  <2> QED
    BY <1>1, <2>3 DEF AddKey, Typed
<1>2. CASE ReadRows
  <2>1. [rows |-> cred, key |-> keyring.active] \in Rotation
    BY DEF Rotation, Typed
  <2> QED
    BY <1>2, <2>1 DEF ReadRows, Typed
<1>3. CASE SwapRows
  BY <1>3, SwapWrites
<1>4. CASE RemoveOldKeys
  <2>1. keyring' \in [active: 1 .. LastKey, keys: SUBSET (1 .. LastKey)]
        /\ keyring'.active \in keyring'.keys
    BY <1>4 DEF RemoveOldKeys, Typed
  <2> QED
    BY <1>4, <2>1 DEF RemoveOldKeys, Typed
<1> QED
  BY <1>1, <1>2, <1>3, <1>4

\* What the program and its administrators do to accounts, clients and agencies.
Moves ==
    \/ \E a \in Accounts, c \in Clients : MoveAccount(a, c)
    \/ \E a \in Accounts : SwitchAccount(a)
    \/ \E c \in Clients : SwitchClient(c)
    \/ \E g \in Agencies, c \in Clients : SwitchHolding(g, c)

LEMMA MovesTyped ==
    ASSUME Values, Typed, Moves
    PROVE  Typed' /\ UNCHANGED <<cred, issued, patching, binding, keyring, rotation>>
<1>1. ASSUME NEW a \in Accounts, NEW c \in Clients, MoveAccount(a, c)
      PROVE  Typed' /\ UNCHANGED <<cred, issued, patching, binding, keyring, rotation>>
  <2>1. account' = [account EXCEPT ![a].client = c, ![a].rediscover = TRUE, ![a].uses = NoCred]
    BY <1>1 DEF MoveAccount
  <2>2. account'[a] \in Account
    BY <2>1 DEF Account, Typed
  <2>3. account' \in [Accounts -> Account]
    BY <2>1, <2>2 DEF Typed
  <2> QED
    BY <1>1, <2>3 DEF MoveAccount, Typed
<1>2. ASSUME NEW a \in Accounts, SwitchAccount(a)
      PROVE  Typed' /\ UNCHANGED <<cred, issued, patching, binding, keyring, rotation>>
  <2> DEFINE active == ~account[a].active
  <2>1. account' = [account EXCEPT ![a].active = active] /\ active \in BOOLEAN
    BY <1>2 DEF SwitchAccount
  <2> HIDE DEF active
  <2>2. account'[a] \in Account
    BY <2>1 DEF Account, Typed
  <2>3. account' \in [Accounts -> Account]
    BY <2>1, <2>2 DEF Typed
  <2> QED
    BY <1>2, <2>3 DEF SwitchAccount, Typed
<1>3. ASSUME NEW c \in Clients, SwitchClient(c)
      PROVE  Typed' /\ UNCHANGED <<cred, issued, patching, binding, keyring, rotation>>
  BY <1>3 DEF SwitchClient, Typed
<1>4. ASSUME NEW g \in Agencies, NEW c \in Clients, SwitchHolding(g, c)
      PROVE  Typed' /\ UNCHANGED <<cred, issued, patching, binding, keyring, rotation>>
  BY <1>4 DEF SwitchHolding, Typed
<1> QED
  BY <1>1, <1>2, <1>3, <1>4 DEF Moves

\* What happens to rows, keys and patches, and what leaves them alone.
Elsewhere ==
    \/ \E d \in Discoveries :
        \/ \E actor \in Actors, a \in Accounts, k \in Rows \cup {NoCred} : AskProvider(d, actor, a, k)
        \/ StoreDiscovered(d) \/ CheckBinding(d) \/ InsertBinding(d) \/ AbandonDiscovery(d)
    \/ \E s \in Syncs :
        \/ \E actor \in Actors, a \in Accounts : ReadAccount(s, actor, a)
        \/ WriteMetadata(s)
    \/ Moves

LEMMA NextIs ==
    ASSUME Next
    PROVE  \/ \E s \in Scopes : UpsertCredential(s)
           \/ \E p \in Patches, k \in Stored, credentials \in BOOLEAN,
                 s \in Scopes \cup {Keep}, active \in BOOLEAN \cup {Keep} :
                    StartPatch(p, k, credentials, s, active)
           \/ \E p \in Patches : FinishPatch(p)
           \/ \E k \in Stored : ArchiveCredential(k)
           \/ \E g \in Agencies : DeleteAgency(g)
           \/ AddKey \/ ReadRows \/ SwapRows \/ RemoveOldKeys
           \/ Elsewhere
BY DEF Next, Elsewhere, Moves

LEMMA ElsewhereTyped ==
    ASSUME Values, Typed, Elsewhere
    PROVE  Typed' /\ UNCHANGED <<cred, issued, patching, keyring, rotation>>
<1>1. Typed'
  BY DiscoveryTyped, SyncTyped, MovesTyped DEF Elsewhere
<1>2. ASSUME NEW d \in Discoveries,
             \/ \E actor \in Actors, a \in Accounts, k \in Rows \cup {NoCred} : AskProvider(d, actor, a, k)
             \/ StoreDiscovered(d) \/ CheckBinding(d) \/ InsertBinding(d) \/ AbandonDiscovery(d)
      PROVE  UNCHANGED <<cred, issued, patching, keyring, rotation>>
  BY <1>2 DEF AskProvider, StoreDiscovered, CheckBinding, InsertBinding, AbandonDiscovery
<1>3. ASSUME NEW s \in Syncs,
             \/ \E actor \in Actors, a \in Accounts : ReadAccount(s, actor, a)
             \/ WriteMetadata(s)
      PROVE  UNCHANGED <<cred, issued, patching, keyring, rotation>>
  BY <1>3 DEF ReadAccount, WriteMetadata
<1> QED
  BY <1>1, <1>2, <1>3, MovesTyped DEF Elsewhere

LEMMA TypedStep == Values /\ Typed /\ [Next]_credentialVars => Typed'
<1> SUFFICES ASSUME Values, Typed, [Next]_credentialVars PROVE Typed'
  OBVIOUS
<1>1. CASE Next
  BY <1>1, NextIs, UpsertWrites, StartWrites, FinishWrites, ArchiveWrites, DeleteWrites,
     KeysTyped, ElsewhereTyped
<1>2. CASE UNCHANGED credentialVars
  BY <1>2 DEF credentialVars, Typed
<1> QED
  BY <1>1, <1>2

-----------------------------------------------------------------------------
(* Rows, keys and what is still to be written *)

LEMMA InitFits == Values /\ Init => AllFit
<1> SUFFICES ASSUME Values, Init PROVE AllFit
  OBVIOUS
<1>1. keyring.active = 1 /\ keyring.keys = {1} /\ rotation = Idle /\ issued = 1
      /\ \A p \in Patches : patching[p] = Idle
  BY DEF Init
<1>2. PICK s \in Scopes, key \in {Plain, 1} : \A k \in Stored : cred[k] = NewRow(s, 1, key)
  BY DEF Init, Stored
<1>3. Fits(NewRow(s, 1, key))
  BY <1>1 DEF Fits, NewRow, Plain
<1> QED
  BY <1>1, <1>2, <1>3 DEF AllFit, RowsFit, RotationFits, PatchesFit

\* A row under the key to encrypt with fits.
LEMMA NewFits ==
    ASSUME Values, Typed, RotationFits, NEW row \in Row,
           row.sealed = row.scope, row.key = keyring.active, row.grant <= issued
    PROVE  Fits(row)
<1>1. KeyNumbers /\ (rotation # Idle => rotation.key \in 1 .. LastKey)
  BY Fields DEF Rotation
<1>2. rotation # Idle /\ rotation.key \notin keyring.keys => row.key > rotation.key
  BY <1>1 DEF KeyNumbers, RotationFits, Values
<1> QED
  BY <1>1, <1>2 DEF Fits, KeyNumbers, Values

LEMMA UpsertFits ==
    ASSUME Values, Typed, AllFit, NEW s \in Scopes, UpsertCredential(s)
    PROVE  AllFit'
<1>1. PICK k \in Rows :
        /\ Writes({k}) /\ \A p \in Patches : Overtakes({k}, p)
        /\ cred'[k] = NewRow(s, issued + 1, keyring.active) /\ cred'[k] \in Row
        /\ issued' = issued + 1
  BY UpsertWrites
<1>2. Typed'
  BY UpsertWrites
<1>3. cred'[k].sealed = cred'[k].scope /\ cred'[k].key = keyring'.active /\ cred'[k].grant = issued'
  BY <1>1 DEF NewRow, Writes
<1>4. issued' \in Int
  BY <1>2 DEF Typed, Values
<1>5. RotationFits'
  BY <1>1 DEF AllFit, RotationFits, Writes
<1>6. Fits(cred[k])'
  <2>1. PICK row \in Row : row = cred'[k]
    BY <1>1
  <2>2. keyring'.active \in keyring'.keys /\ keyring'.active \in 1 .. LastKey
    BY <1>2 DEF Typed
  <2>3. rotation' # Idle => rotation'.key \in 1 .. LastKey /\ rotation'.key <= keyring'.active
    BY <1>2, <1>5 DEF RotationFits, Typed, Rotation
  <2> QED
    BY <1>3, <1>4, <2>2, <2>3 DEF Fits, Values
<1> QED
  BY <1>1, <1>2, <1>6, RowsWritten

LEMMA StartFits ==
    ASSUME Values, Typed, AllFit, NEW p \in Patches, NEW k \in Stored, NEW credentials \in BOOLEAN,
           NEW s \in Scopes \cup {Keep}, NEW active \in BOOLEAN \cup {Keep},
           StartPatch(p, k, credentials, s, active)
    PROVE  AllFit'
<1>1. /\ Typed' /\ Writes({})
      /\ UNCHANGED <<cred, binding, keyring, rotation>>
      /\ issued' = IF credentials THEN issued + 1 ELSE issued
      /\ \A q \in Patches \ {p} : patching'[q] = patching[q]
  BY StartWrites
<1>2. PICK row \in Row :
        /\ row = PatchedRow(k, credentials, s, active)
        /\ patching'[p] = [cred |-> k, row |-> row, unbinds |-> Unbinds(k, row, credentials),
                           overtaken |-> FALSE]
  BY StartWrites
<1>3. k \in Rows /\ cred[k] \in Row /\ Fits(cred[k]) /\ KeyNumbers /\ issued \in 1 .. MaxGrant
  BY Fields DEF AllFit, RowsFit
<1>4. /\ row.late = cred[k].late
      /\ row.grant = IF credentials THEN issued + 1 ELSE cred[k].grant
      /\ \/ row.key = keyring.active /\ row.sealed = row.scope
         \/ /\ row.key = cred[k].key /\ row.sealed = cred[k].sealed
            /\ row.scope = cred[k].scope /\ ~credentials
  BY <1>2 DEF PatchedRow, Reseals
<1>5. row.grant <= issued' /\ row.grant >= cred[k].grant
  BY <1>1, <1>3, <1>4, RowFields DEF Fits, Values
<1>6. row.key <= keyring.active /\ row.key >= cred[k].key /\ row.sealed = row.scope
  BY <1>3, <1>4, RowFields DEF Fits, KeyNumbers, Values
<1>7. Fits(row)'
  <2>1. rotation # Idle => rotation.key \in 1 .. LastKey /\ rotation.key <= keyring.active
    BY Fields DEF AllFit, RotationFits, Rotation
  <2>2. CASE row.key = keyring.active
    BY <1>1, <1>3, <1>5, <1>6, <2>1, <2>2 DEF Fits, KeyNumbers, Values
  <2>3. CASE row.key = cred[k].key
    BY <1>1, <1>3, <1>4, <1>5, <1>6, <2>3 DEF Fits
  <2> QED
    BY <1>4, <2>2, <2>3
<1>8. Unbinds(k, row, credentials) \/ row.active = cred[k].active
  BY DEF Unbinds
<1>9. PatchFits(patching[p])'
  <2>1. /\ patching'[p].cred = k /\ patching'[p].row = row
        /\ patching'[p].unbinds = Unbinds(k, row, credentials)
    BY <1>2
  <2>2. k \in Stored'
    BY <1>1 DEF Stored
  <2>3. Fits(patching[p].row)'
    BY <1>7, <2>1 DEF Fits
  <2> QED
    BY <1>1, <1>4, <1>5, <1>6, <1>8, <2>1, <2>2, <2>3 DEF PatchFits
<1>10. \A q \in Patches \ {p} : Overtakes({}, q)
  BY <1>1 DEF Overtakes
<1> QED
  BY <1>1, <1>9, <1>10, RowsWritten

LEMMA FinishFits ==
    ASSUME Values, Typed, AllFit, NEW p \in Patches, FinishPatch(p)
    PROVE  AllFit'
<1>1. PICK t \in Patch : t = patching[p] /\ t # Idle
  BY FinishWrites
<1>2. t.row \in Row /\ t.cred \in Rows /\ t.overtaken \in BOOLEAN /\ PatchFits(t)
  BY <1>1 DEF Patch, AllFit, PatchesFit
<1>3. Typed' /\ UNCHANGED <<issued, keyring, rotation>>
  BY FinishWrites
<1>4. CASE Writes({}) /\ \A q \in Patches : Overtakes({}, q)
  BY <1>3, <1>4, RowsWritten
<1>5. CASE /\ Writes({t.cred}) /\ \A q \in Patches : Overtakes({t.cred}, q)
           /\ cred'[t.cred] = [t.row EXCEPT !.late = t.row.late \/ t.overtaken]
  <2>1. /\ cred'[t.cred].key = t.row.key /\ cred'[t.cred].sealed = t.row.sealed
        /\ cred'[t.cred].scope = t.row.scope /\ cred'[t.cred].grant = t.row.grant
        /\ cred'[t.cred].late = (t.row.late \/ t.overtaken)
    BY <1>2, <1>5 DEF Row
  <2>2. Fits(cred[t.cred])'
    BY <1>2, <1>3, <2>1 DEF PatchFits, Fits
  <2> QED
    BY <1>3, <1>5, <2>2, RowsWritten
<1> QED
  BY <1>1, <1>4, <1>5, FinishWrites

LEMMA SwapFits ==
    ASSUME Values, Typed, AllFit, SwapRows
    PROVE  AllFit'
<1>1. Typed' /\ rotation \in Rotation /\ rotation # Idle /\ rotation' = Idle
      /\ UNCHANGED <<issued, keyring>>
  BY SwapWrites
<1>2. PICK ks \in SUBSET Planned :
        /\ Writes(ks) /\ \A p \in Patches : Overtakes(ks, p)
        /\ \A k \in ks :
             /\ k \in Stored /\ Envelope(cred[k]) = Envelope(rotation.rows[k])
             /\ cred'[k] = [cred[k] EXCEPT !.grant = rotation.rows[k].grant, !.key = rotation.key,
                                           !.sealed = rotation.rows[k].scope]
  BY SwapWrites
\* A row is written only under a key that is still configured, unless it is late.
<1>3. ASSUME NEW k \in ks PROVE Fits(cred[k])'
  <2>1. k \in Stored /\ cred[k] \in Row /\ Fits(cred[k]) /\ KeyNumbers
    BY <1>2, Fields DEF AllFit, RowsFit
  <2>2. rotation.rows[k] \in Row /\ rotation.rows[k] # NoRow /\ rotation.rows[k].key # rotation.key
        /\ rotation.key \in 1 .. LastKey
    BY <1>1, <1>2 DEF Planned, Rotation
  <2>3. /\ cred[k].grant = rotation.rows[k].grant /\ cred[k].sealed = rotation.rows[k].sealed
        /\ cred[k].key = rotation.rows[k].key
    BY <1>2 DEF Envelope
  <2>4. /\ cred'[k].scope = cred[k].scope /\ cred'[k].late = cred[k].late
        /\ cred'[k].grant = cred[k].grant /\ cred'[k].key = rotation.key
        /\ cred'[k].sealed = rotation.rows[k].scope
    BY <1>2, <2>1, <2>3 DEF Row
  <2>5. /\ rotation.key <= keyring.active /\ rotation.rows[k].key <= rotation.key
        /\ rotation.rows[k].sealed = rotation.rows[k].scope
    BY <1>1, <2>1, <2>2 DEF AllFit, RotationFits, Stored
  <2>6. cred[k].late \/ rotation.key \in keyring.keys
    BY <1>1, <2>1, <2>2, <2>3, <2>5, RowFields DEF Fits, Values
  <2> QED
    BY <1>1, <2>1, <2>3, <2>4, <2>5, <2>6 DEF Fits
<1> QED
  BY <1>1, <1>2, <1>3, RowsWritten

LEMMA KeysFit ==
    ASSUME Values, Typed, AllFit, AddKey \/ ReadRows \/ RemoveOldKeys
    PROVE  AllFit'
<1>1. Typed' /\ KeyNumbers /\ issued \in 1 .. MaxGrant
  BY KeysTyped, Fields
<1>2. UNCHANGED <<cred, issued, patching>> /\ Stored' = Stored
  BY DEF AddKey, ReadRows, RemoveOldKeys, Stored
<1>3. \A k \in Stored : cred[k] \in Row /\ Fits(cred[k])
  BY Fields DEF AllFit, RowsFit
<1>4. rotation # Idle => rotation \in Rotation /\ rotation.key \in 1 .. LastKey
  BY Fields DEF Rotation
<1>5. CASE AddKey
  <2>1. /\ rotation' = rotation /\ keyring'.active = keyring.active + 1
        /\ keyring'.keys = keyring.keys \cup {keyring.active + 1}
    BY <1>5 DEF AddKey
  <2>2. ASSUME NEW row \in Row, Fits(row) PROVE Fits(row)'
    BY <1>1, <1>2, <2>1, <2>2, RowFields DEF Fits, KeyNumbers, Values
  <2>3. RowsFit'
    BY <1>2, <1>3, <2>2 DEF RowsFit, Fits
  <2>4. RotationFits'
    BY <1>1, <1>4, <2>1 DEF AllFit, RotationFits, KeyNumbers, Values
  <2>5. PatchesFit'
    <3> SUFFICES ASSUME NEW p \in Patches, patching[p] # Idle PROVE PatchFits(patching[p])'
      BY <1>2 DEF PatchesFit
    <3>1. PICK t \in Patch : t = patching[p]
      BY Fields
    <3>2. PatchFits(t) /\ t.row \in Row
      BY <3>1 DEF AllFit, PatchesFit, Patch
    <3>3. t.row.key <= keyring'.active
      BY <1>1, <2>1, <3>2, RowFields DEF PatchFits, KeyNumbers, Values
    <3>4. PatchFits(t)'
      BY <1>2, <2>2, <3>2, <3>3 DEF PatchFits
    <3> QED
      BY <1>2, <3>1, <3>4 DEF PatchFits, Fits
  <2> QED
    BY <2>3, <2>4, <2>5 DEF AllFit
<1>6. CASE ReadRows
  <2>1. keyring' = keyring /\ rotation' = [rows |-> cred, key |-> keyring.active]
    BY <1>6 DEF ReadRows
  <2>2. rotation'.key = keyring.active /\ rotation'.rows = cred
    BY <2>1
  <2>3. ASSUME NEW row \in Row, Fits(row) PROVE Fits(row)'
    BY <1>1, <1>2, <2>1, <2>2, <2>3 DEF Fits, KeyNumbers
  <2>4. RowsFit'
    BY <1>2, <1>3, <2>3 DEF RowsFit, Fits
  <2>5. RotationFits'
    BY <1>1, <1>3, <2>1, <2>2 DEF RotationFits, Fits, Stored, KeyNumbers, Values
  <2>6. PatchesFit'
    <3> SUFFICES ASSUME NEW p \in Patches, patching[p] # Idle PROVE PatchFits(patching[p])'
      BY <1>2 DEF PatchesFit
    <3>1. PICK t \in Patch : t = patching[p]
      BY Fields
    <3>2. PatchFits(t) /\ t.row \in Row
      BY <3>1 DEF AllFit, PatchesFit, Patch
    <3>3. PatchFits(t)'
      BY <1>2, <2>1, <2>3, <3>2 DEF PatchFits
    <3> QED
      BY <1>2, <3>1, <3>3 DEF PatchFits, Fits
  <2> QED
    BY <2>4, <2>5, <2>6 DEF AllFit
<1>7. CASE RemoveOldKeys
  <2>1. rotation' = rotation /\ keyring'.active = keyring.active /\ keyring'.keys = {keyring.active}
    BY <1>7 DEF RemoveOldKeys, Typed
  <2>2. \A k \in Stored : cred[k].key = keyring.active
    BY <1>7 DEF RemoveOldKeys, Stale
  <2>3. ASSUME NEW row \in Row, Fits(row), row.key = keyring.active PROVE Fits(row)'
    <3>1. rotation # Idle => rotation.key <= keyring.active
      BY DEF AllFit, RotationFits
    <3> QED
      BY <1>1, <1>2, <1>4, <2>1, <2>3, <3>1 DEF Fits, KeyNumbers, Values
  <2>4. RowsFit'
    BY <1>2, <1>3, <2>2, <2>3 DEF RowsFit, Fits
  <2>5. RotationFits'
    BY <2>1 DEF AllFit, RotationFits
  <2>6. PatchesFit'
    <3> SUFFICES ASSUME NEW p \in Patches, patching[p] # Idle PROVE PatchFits(patching[p])'
      BY <1>2 DEF PatchesFit
    <3>1. PICK t \in Patch : t = patching[p]
      BY Fields
    <3>2. PatchFits(t) /\ t.row \in Row
      BY <3>1 DEF AllFit, PatchesFit, Patch
    <3>3. ~t.overtaken => t.row.key = keyring.active
      BY <1>1, <2>2, <3>2, RowFields DEF PatchFits, KeyNumbers, Values
    <3>4. PatchFits(t)'
      BY <1>2, <2>1, <2>3, <3>2, <3>3 DEF PatchFits
    <3> QED
      BY <1>2, <3>1, <3>4 DEF PatchFits, Fits
  <2> QED
    BY <2>4, <2>5, <2>6 DEF AllFit
<1> QED
  BY <1>5, <1>6, <1>7

LEMMA FitsStep == Values /\ Typed /\ AllFit /\ [Next]_credentialVars => AllFit'
<1> SUFFICES ASSUME Values, Typed, AllFit, [Next]_credentialVars PROVE AllFit'
  OBVIOUS
<1>1. ASSUME UNCHANGED <<cred, issued, patching, keyring, rotation>> PROVE AllFit'
  BY <1>1 DEF AllFit, RowsFit, RotationFits, PatchesFit, PatchFits, Fits, Stored
<1>2. ASSUME NEW k \in Stored, ArchiveCredential(k) PROVE AllFit'
  <2>1. Typed' /\ Writes({k}) /\ issued' = issued /\ (\A p \in Patches : Overtakes({k}, p))
        /\ cred'[k] = [cred[k] EXCEPT !.active = FALSE]
    BY <1>2, ArchiveWrites
  <2>2. cred[k] \in Row /\ Fits(cred[k])
    BY Fields DEF AllFit, RowsFit
  <2>3. /\ cred'[k].key = cred[k].key /\ cred'[k].sealed = cred[k].sealed
        /\ cred'[k].scope = cred[k].scope /\ cred'[k].grant = cred[k].grant
        /\ cred'[k].late = cred[k].late
    BY <2>1, <2>2 DEF Row
  <2>4. Fits(cred[k])'
    BY <2>1, <2>2, <2>3 DEF Fits, Writes
  <2> QED
    BY <2>1, <2>4, RowsWritten
<1>3. ASSUME NEW g \in Agencies, DeleteAgency(g) PROVE AllFit'
  <2>1. PICK ks \in SUBSET Stored : Writes(ks) /\ (\A p \in Patches : Overtakes(ks, p))
                                    /\ \A k \in ks : cred'[k] = NoRow
    BY <1>3, DeleteWrites
  <2>2. Typed' /\ Stored' \cap ks = {}
    BY <1>3, <2>1, DeleteWrites DEF Stored
  <2> QED
    BY <2>1, <2>2, RowsWritten
<1>4. CASE UNCHANGED credentialVars
  BY <1>1, <1>4 DEF credentialVars
<1>5. CASE Elsewhere
  BY <1>1, <1>5, ElsewhereTyped
<1> QED
  BY <1>2, <1>3, <1>4, <1>5, NextIs, UpsertFits, StartFits, FinishFits, SwapFits, KeysFit

-----------------------------------------------------------------------------
(* Bindings *)

\* A binding stays as it is while its row keeps its status, or was written late.
LEMMA BindingStays ==
    ASSUME Values, Typed, BindingsEndWithStatus, NEW a \in Accounts,
           binding'[a] = binding[a], binding'[a] # NoBinding,
           \/ cred'[binding[a].cred] = cred[binding[a].cred]
           \/ /\ cred'[binding[a].cred] # NoRow
              /\ \/ cred'[binding[a].cred].late
                 \/ /\ cred'[binding[a].cred].active = cred[binding[a].cred].active
                    /\ cred'[binding[a].cred].late = cred[binding[a].cred].late
    PROVE  /\ binding'[a].cred \in Stored'
           /\ cred'[binding'[a].cred].late \/ cred'[binding'[a].cred].active = binding'[a].active
BY DEF BindingsEndWithStatus, Stored

LEMMA BindingsStep ==
    Values /\ Typed /\ AllFit /\ BindingsEndWithStatus /\ [Next]_credentialVars => BindingsEndWithStatus'
<1> SUFFICES ASSUME Values, Typed, AllFit, BindingsEndWithStatus, [Next]_credentialVars,
                    NEW a \in Accounts, binding'[a] # NoBinding
             PROVE  /\ binding'[a].cred \in Stored'
                    /\ cred'[binding'[a].cred].late \/ cred'[binding'[a].cred].active = binding'[a].active
  BY DEF BindingsEndWithStatus
<1> DEFINE Ends == /\ binding'[a].cred \in Stored'
                   /\ cred'[binding'[a].cred].late \/ cred'[binding'[a].cred].active = binding'[a].active
<1>1. binding[a] # NoBinding => binding[a].cred \in Stored /\ binding[a].cred \in Rows
  BY DEF BindingsEndWithStatus, Stored
<1>2. ASSUME UNCHANGED <<cred, binding>> PROVE Ends
  BY <1>2, BindingStays
\* A row is written, or goes, that the binding does not name.
<1>3. ASSUME NEW ks, Writes(ks), binding'[a] = binding[a], binding[a].cred \notin ks PROVE Ends
  BY <1>1, <1>3, BindingStays DEF Writes
<1>4. ASSUME NEW s \in Scopes, UpsertCredential(s) PROVE Ends
  <2>1. PICK k \in Rows : Writes({k}) /\ (\/ k \in Stored /\ binding' = Unbound(k)
                                          \/ k \notin Stored /\ binding' = binding)
    BY <1>4, UpsertWrites
  <2>2. binding'[a] = binding[a] /\ binding[a].cred # k
    BY <1>1, <2>1, UnboundIs
  <2> QED
    BY <1>3, <2>1, <2>2
<1>5. ASSUME NEW p \in Patches, FinishPatch(p) PROVE Ends
  <2>1. PICK t \in Patch : t = patching[p] /\ t # Idle
    BY <1>5, FinishWrites
  <2>2. t.row \in Row /\ t.cred \in Rows /\ t.overtaken \in BOOLEAN /\ PatchFits(t)
    BY <2>1 DEF Patch, AllFit, PatchesFit
  <2>3. CASE /\ Writes({t.cred})
             /\ cred'[t.cred] = [t.row EXCEPT !.late = t.row.late \/ t.overtaken]
             /\ binding' = IF t.unbinds THEN Unbound(t.cred) ELSE binding
    <3>1. binding'[a] = binding[a] /\ (t.unbinds => binding[a].cred # t.cred)
      BY <2>3, UnboundIs
    <3>2. CASE binding[a].cred # t.cred
      BY <1>3, <2>3, <3>1, <3>2
    <3>3. CASE binding[a].cred = t.cred /\ ~t.unbinds
      <4>1. /\ cred'[t.cred].active = t.row.active
            /\ cred'[t.cred].late = (t.row.late \/ t.overtaken)
        BY <2>2, <2>3 DEF Row
      <4>2. cred'[t.cred] # NoRow
        <5>1. [t.row EXCEPT !.late = TRUE] \in Row /\ [t.row EXCEPT !.late = FALSE] \in Row
          BY <2>2 DEF Row
        <5>2. (t.row.late \/ t.overtaken) \in BOOLEAN
          OBVIOUS
        <5> QED
          BY <2>3, <5>1, <5>2 DEF Values
      <4>3. t.overtaken \/ (t.row.active = cred[t.cred].active /\ t.row.late = cred[t.cred].late)
        BY <2>2, <3>3 DEF PatchFits
      <4>4. /\ cred'[binding[a].cred] # NoRow
            /\ \/ cred'[binding[a].cred].late
               \/ /\ cred'[binding[a].cred].active = cred[binding[a].cred].active
                  /\ cred'[binding[a].cred].late = cred[binding[a].cred].late
        BY <2>2, <3>3, <4>1, <4>2, <4>3, RowFields
      <4> QED
        BY <3>1, <4>4, BindingStays
    <3> QED
      BY <3>1, <3>2, <3>3
  <2> QED
    BY <1>2, <1>5, <2>1, <2>3, FinishWrites
<1>6. ASSUME NEW k \in Stored, ArchiveCredential(k) PROVE Ends
  <2>1. Writes({k}) /\ binding' = Unbound(k)
    BY <1>6, ArchiveWrites
  <2>2. binding'[a] = binding[a] /\ binding[a].cred # k
    BY <2>1, UnboundIs
  <2> QED
    BY <1>3, <2>1, <2>2
<1>7. ASSUME NEW g \in Agencies, DeleteAgency(g) PROVE Ends
  <2>1. PICK ks \in SUBSET Stored :
          Writes(ks) /\ binding'[a] = binding[a] /\ binding[a].cred \notin ks
    BY <1>7, DeleteWrites
  <2> QED
    BY <1>3, <2>1
<1>8. CASE SwapRows
  <2>1. PICK ks \in SUBSET Planned :
          /\ Writes(ks)
          /\ \A k \in ks : k \in Stored /\ cred'[k] =
                [cred[k] EXCEPT !.grant = rotation.rows[k].grant, !.key = rotation.key,
                                !.sealed = rotation.rows[k].scope]
    BY <1>8, SwapWrites
  <2>2. binding'[a] = binding[a] /\ Typed'
    BY <1>8, SwapWrites
  <2>3. CASE binding[a].cred \in ks
    <3>1. PICK k \in ks : k = binding[a].cred
      BY <2>3
    <3>2. k \in Rows /\ cred[k] \in Row /\ cred'[k].active = cred[k].active /\ cred'[k].late = cred[k].late
      BY <2>1, Fields DEF Row
    <3>3. rotation.rows[k] \in Row /\ rotation.key \in Plain .. LastKey
      <4>1. rotation \in Rotation /\ k \in Planned
        BY <1>8, <2>1, SwapWrites
      <4> QED
        BY <4>1 DEF Planned, Rotation, Plain, Values
    <3>4. cred'[k] \in Row
      BY <2>1, <3>2, <3>3 DEF Row
    <3> QED
      BY <2>2, <3>1, <3>2, <3>4, BindingStays DEF Values
  <2> QED
    BY <1>3, <2>1, <2>2, <2>3
<1>9. ASSUME NEW d \in Discoveries, InsertBinding(d) PROVE Ends
  <2>1. cred' = cred
    BY <1>9 DEF InsertBinding
  <2>2. PICK t \in Discovery : t = discovery[d]
    BY <1>9 DEF InsertBinding, Typed
  <2>3. CASE binding'[a] = binding[a]
    BY <2>1, <2>3, BindingStays
  <2>4. CASE binding'[a] # binding[a]
    <3>1. t.cred \in Stored
          /\ binding' = [binding EXCEPT ![t.account] =
                [client |-> t.saw.client, cred |-> t.cred, verified |-> t.grant,
                 active |-> cred[t.cred].active]]
      BY <1>9, <2>2, <2>4 DEF InsertBinding
    <3>2. binding'[a].cred = t.cred /\ binding'[a].active = cred[t.cred].active
      BY <2>4, <3>1 DEF Typed
    <3> QED
      BY <2>1, <3>1, <3>2 DEF Stored
  <2> QED
    BY <2>3, <2>4
<1>10. CASE \E p \in Patches, k \in Stored, credentials \in BOOLEAN,
               s \in Scopes \cup {Keep}, active \in BOOLEAN \cup {Keep} :
                  StartPatch(p, k, credentials, s, active)
  BY <1>2, <1>10 DEF StartPatch
<1>11. CASE AddKey \/ ReadRows \/ RemoveOldKeys
  BY <1>2, <1>11 DEF AddKey, ReadRows, RemoveOldKeys
<1>12. CASE Elsewhere
  <2>1. ASSUME NEW d \in Discoveries,
               \/ \E actor \in Actors, b \in Accounts, k \in Rows \cup {NoCred} : AskProvider(d, actor, b, k)
               \/ StoreDiscovered(d) \/ CheckBinding(d) \/ AbandonDiscovery(d)
        PROVE  UNCHANGED <<cred, binding>>
    BY <2>1 DEF AskProvider, StoreDiscovered, CheckBinding, AbandonDiscovery
  <2>2. ASSUME NEW s \in Syncs,
               \/ \E actor \in Actors, b \in Accounts : ReadAccount(s, actor, b)
               \/ WriteMetadata(s)
        PROVE  UNCHANGED <<cred, binding>>
    BY <2>2 DEF ReadAccount, WriteMetadata
  <2> QED
    BY <1>2, <1>9, <1>12, <2>1, <2>2, MovesTyped DEF Elsewhere
<1>13. CASE UNCHANGED credentialVars
  BY <1>2, <1>13 DEF credentialVars
<1> QED
  BY <1>4, <1>5, <1>6, <1>7, <1>8, <1>10, <1>11, <1>12, <1>13, NextIs

-----------------------------------------------------------------------------
(* Grants *)

LEMMA GrantsStep == Values /\ Typed /\ AllFit /\ [Next]_credentialVars => [KeepsGrants]_credentialVars
<1> SUFFICES ASSUME Values, Typed, AllFit, Next, NEW k \in Stored, cred'[k] # NoRow
             PROVE  cred'[k].grant >= cred[k].grant \/ LateWrite(k)
  BY DEF KeepsGrants
<1>1. k \in Rows /\ cred[k] \in Row /\ cred[k].grant \in 1 .. MaxGrant /\ cred[k].grant <= issued
      /\ issued \in 1 .. MaxGrant
  BY Fields, RowFields DEF AllFit, RowsFit, Fits
<1>2. ASSUME cred'[k] = cred[k] \/ cred'[k].grant = cred[k].grant PROVE cred'[k].grant >= cred[k].grant
  BY <1>1, <1>2 DEF Values
<1>3. ASSUME NEW s \in Scopes, UpsertCredential(s) PROVE cred'[k].grant >= cred[k].grant
  <2>1. PICK o \in Rows : Writes({o}) /\ cred'[o] = NewRow(s, issued + 1, keyring.active)
    BY <1>3, UpsertWrites
  <2>2. CASE k = o
    BY <1>1, <2>1, <2>2 DEF NewRow, Values
  <2> QED
    BY <1>1, <1>2, <2>1, <2>2 DEF Writes
<1>4. ASSUME NEW p \in Patches, FinishPatch(p)
      PROVE  cred'[k].grant >= cred[k].grant \/ LateWrite(k)
  <2>1. PICK t \in Patch : t = patching[p] /\ t # Idle /\ patching'[p] = Idle
    BY <1>4, FinishWrites
  <2>2. t.row \in Row /\ t.overtaken \in BOOLEAN /\ PatchFits(t)
    BY <2>1 DEF Patch, AllFit, PatchesFit
  <2>3. CASE /\ Writes({t.cred})
             /\ cred'[t.cred] = [t.row EXCEPT !.late = t.row.late \/ t.overtaken]
    <3>1. CASE k # t.cred
      BY <1>1, <1>2, <2>3, <3>1 DEF Writes
    <3>2. CASE k = t.cred /\ t.overtaken
      BY <2>1, <3>2 DEF LateWrite
    <3>3. CASE k = t.cred /\ ~t.overtaken
      <4>1. cred'[k].grant = t.row.grant
        BY <2>2, <2>3, <3>3 DEF Row
      <4> QED
        BY <2>2, <3>3, <4>1 DEF PatchFits
    <3> QED
      BY <3>1, <3>2, <3>3
  <2> QED
    BY <1>2, <1>4, <2>1, <2>3, FinishWrites
<1>5. ASSUME NEW o \in Stored, ArchiveCredential(o) PROVE cred'[k].grant >= cred[k].grant
  <2>1. Writes({o}) /\ cred'[o] = [cred[o] EXCEPT !.active = FALSE]
    BY <1>5, ArchiveWrites
  <2>2. CASE k = o
    BY <1>1, <1>2, <2>1, <2>2 DEF Row
  <2> QED
    BY <1>1, <1>2, <2>1, <2>2 DEF Writes
<1>6. ASSUME NEW g \in Agencies, DeleteAgency(g) PROVE cred'[k].grant >= cred[k].grant
  BY <1>1, <1>2, <1>6, DeleteWrites DEF Writes
<1>7. CASE SwapRows
  <2>1. PICK ks \in SUBSET Planned :
          /\ Writes(ks)
          /\ \A o \in ks : Envelope(cred[o]) = Envelope(rotation.rows[o]) /\ cred'[o] =
                [cred[o] EXCEPT !.grant = rotation.rows[o].grant, !.key = rotation.key,
                                !.sealed = rotation.rows[o].scope]
    BY <1>7, SwapWrites
  <2>2. CASE k \in ks
    <3>1. cred'[k].grant = rotation.rows[k].grant
      BY <1>1, <2>1, <2>2 DEF Row
    <3>2. cred[k].grant = rotation.rows[k].grant
      BY <2>1, <2>2 DEF Envelope
    <3> QED
      BY <1>2, <3>1, <3>2
  <2> QED
    BY <1>1, <1>2, <2>1, <2>2 DEF Writes
<1>8. ASSUME AddKey \/ ReadRows \/ RemoveOldKeys PROVE cred' = cred
  BY <1>8 DEF AddKey, ReadRows, RemoveOldKeys
<1>9. ASSUME NEW p \in Patches, NEW o \in Stored, NEW credentials \in BOOLEAN,
             NEW s \in Scopes \cup {Keep}, NEW active \in BOOLEAN \cup {Keep},
             StartPatch(p, o, credentials, s, active)
      PROVE  cred' = cred
  BY <1>9 DEF StartPatch
<1>10. ASSUME Elsewhere PROVE cred' = cred
  BY <1>10, ElsewhereTyped
<1> QED
  BY <1>2, <1>3, <1>4, <1>5, <1>6, <1>7, <1>8, <1>9, <1>10, NextIs

-----------------------------------------------------------------------------
\* Every value is of its kind, whatever the stores, patches, discoveries and
\* synchronizations do beside each other.  (SqliteIntegrationCredentialStore,
\* AdAccountDiscoveryService, run_sync)
THEOREM CredentialsTyped ==
    ASSUME Values
    PROVE  Spec => []TypeOK
<1>1. Init => Typed
  BY InitTyped
<1>2. Typed /\ [Next]_credentialVars => Typed'
  BY TypedStep
<1>3. Typed => TypeOK
  BY DEF Typed, TypeOK
<1> QED
  BY <1>1, <1>2, <1>3, PTL DEF Spec

\* A binding ends with the status its credential had when it was written, for any
\* number of patches between their read of a row and their write of it, and of
\* binds between their check and their insert; only an overtaken patch leaves it
\* otherwise.  Deleted rows leave no binding.  (archive, patch and upsert of
\* SqliteIntegrationCredentialStore; bind_provider_account; delete_agency)
THEOREM BindingsStopWithStatus ==
    ASSUME Values
    PROVE  Spec => []BindingsEndWithStatus
<1>1. Init => Typed /\ AllFit /\ BindingsEndWithStatus
  BY InitTyped, InitFits DEF Init, BindingsEndWithStatus
<1>2. Typed /\ AllFit /\ BindingsEndWithStatus /\ [Next]_credentialVars
        => (Typed /\ AllFit /\ BindingsEndWithStatus)'
  BY TypedStep, FitsStep, BindingsStep
<1> QED
  BY <1>1, <1>2, PTL DEF Spec

\* No step puts an older grant over a newer one but that of a patch whose row was
\* written between its read and its write: not the swap of a rotation, however late,
\* and no patch that was not overtaken.  (rotate_credentials; patch)
THEOREM OnlyLatePatchesLowerGrants ==
    ASSUME Values
    PROVE  Spec => GrantsOnlyGrow
<1>1. Init => Typed /\ AllFit
  BY InitTyped, InitFits
<1>2. Typed /\ AllFit /\ [Next]_credentialVars => (Typed /\ AllFit)' /\ [KeepsGrants]_credentialVars
  BY TypedStep, FitsStep, GrantsStep
<1> QED
  BY <1>1, <1>2, PTL DEF Spec, GrantsOnlyGrow

\* Every stored row is legacy or encrypted for the owner it names, however patches,
\* upserts and rotations overlap; and under a configured key, for any number of keys
\* and however late a rotation that was started before a key was removed comes to its
\* swap, unless an overtaken patch wrote it.  (patch, rotate_credentials,
\* get_encryption_summary)
THEOREM RowsRemainReadable ==
    ASSUME Values
    PROVE  Spec => []RowsStayReadable
<1>1. Init => Typed /\ AllFit
  BY InitTyped, InitFits
<1>2. Typed /\ AllFit /\ [Next]_credentialVars => (Typed /\ AllFit)'
  BY TypedStep, FitsStep
<1>3. AllFit => RowsStayReadable
  BY DEF AllFit, RowsFit, Fits, RowsStayReadable, SealedForOwner, KeyConfigured
<1> QED
  BY <1>1, <1>2, <1>3, PTL DEF Spec
=============================================================================
