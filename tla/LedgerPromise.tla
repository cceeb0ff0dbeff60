---------------------------- MODULE LedgerPromise ----------------------------
(***************************************************************************)
(* What the ledger of Meta budget commands promises whoever confirms one,  *)
(* with no lock, lease, handler or settlement window in sight: a key and a *)
(* preview token are spent once, the change is sent at most once, what is  *)
(* recorded of it is true, an unknown outcome is resolved without sending  *)
(* again, and nothing recorded is ever rewritten.                          *)
(***************************************************************************)
EXTENDS Sequences

CONSTANTS Commands, Requests, NoRequest

VARIABLES
    req,      \* req[c]: what was confirmed
    status,
    post,     \* post[c]: what became of the change sent to Meta
    history   \* history[c]: the outcomes recorded so far

vars == <<req, status, post, history>>

Outcomes == {"applied", "conflict", "failed", "unknown"}

Init ==
    /\ req = [c \in Commands |-> NoRequest]
    /\ status = [c \in Commands |-> "none"]
    /\ post = [c \in Commands |-> "none"]
    /\ history = [c \in Commands |-> << >>]

\* No command was confirmed with this key or this preview.
Unspent(r) ==
    \A d \in Commands : status[d] # "none" =>
        req[d].key # r.key /\ req[d].preview # r.preview

Confirm(c) ==
    /\ status[c] = "none"
    /\ \E r \in Requests : Unspent(r) /\ req' = [req EXCEPT ![c] = r]
    /\ status' = [status EXCEPT ![c] = "queued"]
    /\ UNCHANGED <<post, history>>

Begin(c) ==
    /\ status[c] = "queued"
    /\ status' = [status EXCEPT ![c] = "in_progress"]
    /\ UNCHANGED <<req, post, history>>

Send(c) ==
    /\ status[c] = "in_progress"
    /\ post[c] = "none"
    /\ post' = [post EXCEPT ![c] = "flying"]
    /\ UNCHANGED <<req, status, history>>

\* Meta applies or refuses what was sent, whatever the ledger says by then.
Answer(c) ==
    /\ post[c] = "flying"
    /\ \E s \in {"landed", "dropped"} : post' = [post EXCEPT ![c] = s]
    /\ UNCHANGED <<req, status, history>>

\* One transaction records outcome o of every command of S.
Record(S, o) ==
    /\ status' = [c \in Commands |-> IF c \in S THEN o ELSE status[c]]
    /\ history' = [c \in Commands |-> IF c \in S THEN Append(history[c], o) ELSE history[c]]
    /\ UNCHANGED <<req, post>>

\* The first attempt ends: only "unknown" leaves open what became of the change.
Conclude(c) ==
    /\ status[c] = "in_progress"
    /\ \E o \in Outcomes :
        /\ o = "applied" => post[c] = "landed"
        /\ o = "failed" => post[c] \in {"none", "dropped"}
        /\ o = "conflict" => post[c] = "none"
        /\ Record({c}, o)

\* Reading Meta resolves an unknown outcome, or does not.
Reconcile(c) ==
    /\ status[c] = "unknown"
    /\ \E o \in Outcomes \ {"failed"} :
        /\ o = "conflict" => post[c] # "flying"
        /\ Record({c}, o)

\* The attempts under way are lost with the processes that made them.
Interrupt ==
    LET lost == {c \in Commands : status[c] = "in_progress"} IN
    /\ lost # {}
    /\ Record(lost, "unknown")

Next ==
    \/ \E c \in Commands :
        Confirm(c) \/ Begin(c) \/ Send(c) \/ Answer(c) \/ Conclude(c) \/ Reconcile(c)
    \/ Interrupt

Spec == Init /\ [][Next]_vars
=============================================================================
