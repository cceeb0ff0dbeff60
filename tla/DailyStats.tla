----------------------------- MODULE DailyStats -----------------------------
(***************************************************************************)
(* The daily statistics of advertising accounts: what an upload stores,    *)
(* and which rows and accounts a report over them takes in.  An upload     *)
(* writes one row for every account, day and platform it names, in one     *)
(* transaction; with an Idempotency-Key it is stored once however often it *)
(* arrives.  Uploads arrive repeated, late and in any order, between those *)
(* of the synchronization, which carry no key.                             *)
(*                                                                         *)
(* How an account may change hands is the matter of AssignmentConflicts;   *)
(* here it changes freely, so that two rows of one advertising account may *)
(* be active at once, as in databases from before the assignment rules.    *)
(* Of the figures only one is kept, and an upload names no cell twice.     *)
(***************************************************************************)
EXTENDS Integers, FiniteSetsExt

CONSTANTS
    Clients, NoClient,
    Accounts, NoAccount,
    Platforms,
    Externals,      \* canonical ids of accounts at their platforms
    Days,           \* the days of rows and of reports
    StaleAfter,     \* AD_STATS_STALE_AFTER_DAYS
    Uploads,        \* the uploads that arrive: [key, rows]
    NoKey,
    NoRow,
    Patched         \* the accounts and clients that are patched

VARIABLES
    client,     \* which clients are active
    account,    \* ad_accounts
    stat,       \* ad_stats, by account, day and platform
    replay,     \* ad_stats_ingest_idempotency: the rows a key was first used with
    \* Observations of the history:
    accepted,   \* the uploads that were stored
    newest      \* per cell, what the upload said that was new to the store last

vars == <<client, account, stat, replay, accepted, newest>>

Keys    == {u.key : u \in Uploads} \ {NoKey}
Cells   == Accounts \X Days \X Platforms
Account == [client: Clients, active: BOOLEAN, platform: Platforms, external: Externals]

Init ==
    /\ client \in [Clients -> BOOLEAN]
    /\ account \in [Accounts -> Account]
    /\ stat = [e \in Cells |-> NoRow]
    /\ replay = [k \in Keys |-> NoRow]
    /\ accepted = {}
    /\ newest = stat

-----------------------------------------------------------------------------
(* An upload. *)

\* Every row names an account that exists, on that account's platform.
RowsFit(u) ==
    \A e \in DOMAIN u.rows : e[1] \in Accounts /\ account[e[1]].platform = e[3]

\* Mutant: the key is compared, the stored answer is not used.
ReplayedIfDifferent(u) ==
    u.key # NoKey /\ replay[u.key] # NoRow /\ replay[u.key] # u.rows

\* The key was used: the stored answer, or a refusal when the rows differ.
Replayed(u) == u.key # NoKey /\ replay[u.key] # NoRow

Upserted(u) == [e \in Cells |-> IF e \in DOMAIN u.rows THEN u.rows[e] ELSE stat[e]]

Ingest(u) ==
    /\ ~Replayed(u)
    /\ RowsFit(u)
    /\ stat' = Upserted(u)
    /\ replay' = IF u.key = NoKey THEN replay ELSE [replay EXCEPT ![u.key] = u.rows]
    /\ accepted' = accepted \cup {u}
    /\ newest' = IF u.key # NoKey /\ u \in accepted
                 THEN newest
                 ELSE [e \in Cells |-> IF e \in DOMAIN u.rows THEN u.rows[e] ELSE newest[e]]
    /\ UNCHANGED <<client, account>>

-----------------------------------------------------------------------------
(* What accounts and clients become meanwhile. *)

PatchAccount(a) ==
    /\ \E row \in Account : account' = [account EXCEPT ![a] = row]
    /\ UNCHANGED <<client, stat, replay, accepted, newest>>

SwitchClient(c) ==
    /\ client' = [client EXCEPT ![c] = ~@]
    /\ UNCHANGED <<account, stat, replay, accepted, newest>>

Next ==
    \/ \E u \in Uploads : Ingest(u)
    \/ \E a \in Accounts \cap Patched : PatchAccount(a)
    \/ \E c \in Clients \cap Patched : SwitchClient(c)

Spec == Init /\ [][Next]_vars

-----------------------------------------------------------------------------
(* A report on a scope: a client, or none; an account, or none; a first and  *)
(* a last day; and the day it is asked for.                                  *)

Scopes == [client: Clients \cup {NoClient}, account: Accounts \cup {NoAccount},
           from: Days, to: Days, asOf: Days]

Operative(a) == account[a].active /\ client[account[a].client]

\* Active rows of one advertising account, which no figure may come from.
Contested ==
    {a \in Accounts :
        /\ Operative(a)
        /\ \E b \in Accounts \ {a} :
              /\ Operative(b)
              /\ account[b].platform = account[a].platform
              /\ account[b].external = account[a].external}

\* Who selects an archived account, or a client that is archived, reads history.
Historical(s) ==
    IF s.account # NoAccount THEN ~Operative(s.account)
    ELSE s.client # NoClient /\ ~client[s.client]

Selects(s, a) ==
    /\ s.client = NoClient \/ account[a].client = s.client
    /\ s.account \in {NoAccount, a}

\* The rows that are totalled: by a query of their own.
Listed(s) ==
    {e \in Cells :
        /\ stat[e] # NoRow
        /\ Selects(s, e[1])
        /\ Historical(s) \/ Operative(e[1])
        /\ e[2] \in s.from .. s.to
        /\ e[1] \notin Contested}

\* The accounts whose data is judged: from the list of accounts.
AccountsInScope(s) ==
    LET listed == IF Historical(s) THEN Accounts ELSE {a \in Accounts : Operative(a)}
    IN  {a \in listed \ Contested : Selects(s, a)}

Relevant(s)  == {e \in Listed(s) : e[1] \in AccountsInScope(s)}
WithData(s)  == {e[1] : e \in Relevant(s)}
Latest(s, a) == Max({e[2] : e \in {r \in Relevant(s) : r[1] = a}})

\* Mutant: the freshest account stands for all.
StaleTogether(s) ==
    IF \A a \in WithData(s) : s.asOf - Latest(s, a) > StaleAfter THEN WithData(s) ELSE {}

Stale(s) == {a \in WithData(s) : s.asOf - Latest(s, a) > StaleAfter}

Quality(s) ==
    IF Relevant(s) = {} THEN "insufficient_data"
    ELSE IF WithData(s) # AccountsInScope(s) THEN "partial"
    ELSE IF Stale(s) # {} THEN "stale"
    ELSE "fresh"

\* The answer: the rows that are totalled, and what is said of them.
Reported(s) ==
    [rows |-> Listed(s), counted |-> Cardinality(Relevant(s)), quality |-> Quality(s)]

-----------------------------------------------------------------------------
TypeOK ==
    /\ client \in [Clients -> BOOLEAN]
    /\ account \in [Accounts -> Account]
    /\ DOMAIN stat = Cells
    /\ accepted \subseteq Uploads

\* Every cell holds what was said of it last: an upload that arrives again under its
\* key, however late, puts nothing back (SqliteAdStatsStore.ingest: "request replay
\* safety").
RetriesNeverRevert == stat = newest

\* The report's word on its data is about the very rows it totals, though the two are
\* selected by different code (list and _accounts_for_scope): the rows counted are the
\* rows totalled, and "fresh" means that every account of the scope, an idle one too, has
\* a recent row ("a fresh account must not hide a stale peer").
QualityJudgesTotals ==
    \A s \in Scopes : LET report == Reported(s) IN
        /\ report.counted = Cardinality(report.rows)
        /\ report.quality = "fresh" =>
              \A a \in Accounts :
                  Selects(s, a) /\ (Historical(s) \/ Operative(a)) /\ a \notin Contested =>
                      \E e \in report.rows : e[1] = a /\ s.asOf - e[2] <= StaleAfter

=============================================================================
