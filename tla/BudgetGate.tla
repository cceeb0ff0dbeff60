----------------------------- MODULE BudgetGate -----------------------------
(***************************************************************************)
(* Who may change a budget at Meta, and when that is looked at again.      *)
(*                                                                         *)
(* A change is previewed, confirmed and executed.  The preview signs a     *)
(* proof of the authorization it was given under; confirming and executing *)
(* need the same one.  Right before the POST a final gate reads every      *)
(* fact once more, one after the other, each in a transaction of its own.  *)
(* Anything may be withdrawn and given back at any time.                   *)
(*                                                                         *)
(* The command itself, its locks and outcomes are in BudgetLedger, what    *)
(* makes a binding in Credentials.  One actor, one request at a time; no   *)
(* two requests share anything that is decided here.                       *)
(***************************************************************************)
EXTENDS Integers, Sequences

CONSTANTS
    Together,      \* bound: what changes within one behaviour is one of Shaky, or these
    MaxGrant,      \* bound: replacements of the bound credential
    Idle

VARIABLES
    held,          \* the facts that hold
    role,          \* users.role of the actor
    rank,          \* his role in the agency of the request
    cred,          \* the credential the account is bound to
    shaky,         \* what changes in this behaviour
    request        \* how far the request is, and what it remembers

gateVars == <<held, role, rank, cred, shaky, request>>

\* access: user_client_access, for a solo owner no other one besides.
\* assigned: the account is the client's and has the external id of the request.
\* agency: an active membership in the agency, which is active.
Facts == {"feature", "rollout", "session", "user", "access", "account", "assigned", "client",
          "uncontested", "bound", "agency", "served", "adminwrites", "spendcap"}

Shaky == Facts \cup {"role", "rank", "cred"}

Roles  == {"agency", "solo", "admin", "client"}
Ranks  == {"owner", "manager", "member"}
Fields == {"budget", "spend_cap"}

\* own: created_by is the actor.  Another credential, or a new validation of this
\* one, is another grant.
Credential == [scope: {"client", "agency", "global"}, own: BOOLEAN, grant: 1 .. MaxGrant]

TypeOK ==
    /\ held \subseteq Facts
    /\ role \in Roles /\ rank \in Ranks /\ cred \in Credential
    /\ shaky \subseteq Shaky
    /\ request # Idle => request.stage \in {"previewed", "confirmed", "gate", "posted"}

Init ==
    /\ held = Facts
    /\ role \in Roles
    /\ rank \in IF role = "agency" THEN Ranks ELSE {"owner"}
    /\ cred \in [scope: {"client", "agency", "global"}, own: BOOLEAN, grant: {1}]
    /\ shaky \in {{s} : s \in Shaky} \cup Together
    /\ request = Idle

-----------------------------------------------------------------------------
(* The policy, over the facts H that were read *)

Capability(H, r, k) ==
    "spendcap" \in H /\ ((r = "agency" /\ k = "owner") \/ (r = "admin" /\ "adminwrites" \in H))

\* authorize_budget_write: r and k are role and rank, c the credential.
MayWrite(H, r, k, c, field) ==
    /\ {"client", "account", "assigned"} \subseteq H
    /\ r # "admin" => "access" \in H
    /\ \/ r = "solo" /\ c.scope = "client" /\ c.own /\ field # "spend_cap"
       \/ /\ r = "agency" /\ k \in {"owner", "manager"}
          /\ {"agency", "served"} \subseteq H
          /\ c.scope = "agency"
          /\ field = "spend_cap" => Capability(H, r, k)
       \/ /\ r = "admin" /\ "adminwrites" \in H
          /\ c.scope = "global"
          /\ field = "spend_cap" => Capability(H, r, k)

\* Mutant: the switch that stops spend caps stops their recovery as well.
MayReconcileWhileEnabled(H, r, k, c, field) == MayWrite(H, r, k, c, field)

\* authorize_budget_reconciliation, which reads Meta and writes nothing there: the
\* switch for spend caps does not matter to agencies, nor to administrators whose
\* credential it is.
MayReconcile(H, r, k, c, field) ==
    IF r = "admin"
    THEN /\ "adminwrites" \in H /\ {"client", "account", "assigned"} \subseteq H
         /\ c.scope = "agency" => request.proof.role = "agency"
    ELSE MayWrite(H, r, k, c, IF r = "agency" THEN "budget" ELSE field)

\* _meta_budget_bound_context refuses before the policy is asked.
Bound(H) == {"uncontested", "bound"} \subseteq H

\* What the preview signs of the actor's authorization and of the credential.
Proof(H, r, k, c) ==
    [role |-> r, rank |-> IF r = "agency" THEN k ELSE "none",
     capability |-> Capability(H, r, k), grant |-> c.grant]

\* Mutant: the proof is compared without the credential.
SameActor(p, q) == [p EXCEPT !.grant = q.grant] = q

\* assert_budget_command_context_matches, and the proofs of PreviewSigner.verify.
SameProof(p, q) == p = q

-----------------------------------------------------------------------------
(* Preview, confirmation, execution *)

Switched(field) == {"feature", "rollout"} \cup IF field = "spend_cap" THEN {"spendcap"} ELSE {}

Allowed(field) ==
    /\ Switched(field) \cup {"session", "user"} \subseteq held
    /\ Bound(held) /\ MayWrite(held, role, rank, cred, field)

Preview(field) ==
    /\ request = Idle
    /\ Allowed(field)
    /\ request' = [stage |-> "previewed", field |-> field, proof |-> Proof(held, role, rank, cred)]
    /\ UNCHANGED <<held, role, rank, cred, shaky>>

Confirm ==
    /\ request # Idle /\ request.stage = "previewed"
    /\ Allowed(request.field)
    /\ SameProof(request.proof, Proof(held, role, rank, cred))
    /\ request' = [request EXCEPT !.stage = "confirmed"]
    /\ UNCHANGED <<held, role, rank, cred, shaky>>

\* A preview runs out, a confirmed command is left in the queue.
Abandon ==
    /\ request # Idle
    /\ request' = Idle
    /\ UNCHANGED <<held, role, rank, cred, shaky>>

\* Mutant: whether the actor is still signed in was settled when the request came.
ReadsButSession ==
    <<{"feature"}, {"rollout"}, {"user"}, {"access"}, {"account", "assigned"}, {"client"},
      {"uncontested"}, {"bound"}, {"adminwrites"}, {"agency"}, {"served"}, {"spendcap"}>>

\* The reads of _meta_budget_final_execution_authorization, in their order.
Reads ==
    <<{"feature"}, {"rollout"}, {"session"}, {"user"}, {"access"}, {"account", "assigned"}, {"client"},
      {"uncontested"}, {"bound"}, {"adminwrites"}, {"agency"}, {"served"}, {"spendcap"}>>

\* Those that end the attempt where they are read; the policy judges the others.
Refusing == {"feature", "rollout", "session", "user", "account", "client", "uncontested", "bound"}

\* What the request cannot do without.
Needed ==
    {"session", "user", "client", "account", "assigned", "uncontested", "bound"}
        \cup Switched(request.field)
        \cup CASE request.proof.role = "admin"  -> {"adminwrites"}
               [] request.proof.role = "agency" -> {"access", "agency", "served", "rank"}
               [] OTHER                         -> {"access"}
        \cup {"role", "cred"}

Lacking(H, r, k, c) ==
    {f \in Needed :
        CASE f = "role" -> r # request.proof.role
          [] f = "rank" -> k # request.proof.rank
          [] f = "cred" -> c.grant # request.proof.grant
          [] OTHER      -> f \notin H}

\* execute is called with role and access as of the start of the request, unless the
\* actor is a solo owner; all else is read again.  The adapter gets the credential
\* of this read.
Execute ==
    /\ request # Idle /\ request.stage = "confirmed"
    /\ LET r == request.proof.role
           H == held \cup IF r = "solo" THEN {} ELSE {"access"}
       IN  /\ r = "solo" => role = "solo" /\ "user" \in held
           /\ Bound(H) /\ MayWrite(H, r, rank, cred, request.field)
           /\ SameProof(request.proof, Proof(H, r, rank, cred))
    /\ request' = [stage |-> "gate", field |-> request.field, proof |-> request.proof,
                   token |-> cred.grant, todo |-> Reads, saw |-> {}, rank |-> rank, cred |-> cred,
                   gone |-> Lacking(held, role, rank, cred)]
    /\ UNCHANGED <<held, role, rank, cred, shaky>>

\* A missing fact, or another role, ends the attempt or is remembered.
ReadNext ==
    /\ request # Idle /\ request.stage = "gate" /\ request.todo # <<>>
    /\ LET row == Head(request.todo)
       IN  request' =
               IF row \cap Refusing \subseteq held /\ ("user" \in row => role = request.proof.role)
               THEN [request EXCEPT
                        !.todo = Tail(@),
                        !.saw  = @ \cup (row \cap held),
                        !.rank = IF "agency" \in row THEN rank ELSE @,
                        !.cred = IF "bound" \in row THEN cred ELSE @]
               ELSE Idle
    /\ UNCHANGED <<held, role, rank, cred, shaky>>

\* The checks of execute after the gate; nothing is read any more.
Post ==
    /\ request # Idle /\ request.stage = "gate" /\ request.todo = <<>>
    /\ LET t == request
           r == t.proof.role
       IN  request' =
               IF /\ t.field = "spend_cap" => "spendcap" \in t.saw
                  /\ MayWrite(t.saw, r, t.rank, t.cred, t.field)
                  /\ SameProof(t.proof, Proof(t.saw, r, t.rank, t.cred))
               THEN [t EXCEPT !.stage = "posted"]
               ELSE Idle
    /\ UNCHANGED <<held, role, rank, cred, shaky>>

-----------------------------------------------------------------------------
(* What others do meanwhile *)

\* History: what has been lacking ever since the gate began.
Watching(H, r, k, c) ==
    IF request # Idle /\ request.stage = "gate"
    THEN request' = [request EXCEPT !.gone = @ \cap Lacking(H, r, k, c)]
    ELSE UNCHANGED request

Switch(f) ==
    /\ f \in shaky
    /\ held' = IF f \in held THEN held \ {f} ELSE held \cup {f}
    /\ Watching(held', role, rank, cred)
    /\ UNCHANGED <<role, rank, cred, shaky>>

ChangeRole(r) ==
    /\ "role" \in shaky /\ r # role
    /\ role' = r
    /\ Watching(held, r, rank, cred)
    /\ UNCHANGED <<held, rank, cred, shaky>>

ChangeRank(k) ==
    /\ "rank" \in shaky /\ k # rank
    /\ rank' = k
    /\ Watching(held, role, k, cred)
    /\ UNCHANGED <<held, role, cred, shaky>>

\* The account is bound to another credential or to a new grant, or to the same
\* one after it got another owner.
Rebind(c) ==
    /\ "cred" \in shaky /\ c # cred /\ c.grant >= cred.grant
    /\ cred' = c
    /\ Watching(held, role, rank, c)
    /\ UNCHANGED <<held, role, rank, shaky>>

-----------------------------------------------------------------------------
Next ==
    \/ \E field \in Fields : Preview(field)
    \/ Confirm \/ Abandon \/ Execute \/ ReadNext \/ Post
    \/ \E f \in Facts : Switch(f)
    \/ \E r \in Roles : ChangeRole(r)
    \/ \E k \in Ranks : ChangeRank(k)
    \/ \E c \in Credential : Rebind(c)

Spec == Init /\ [][Next]_gateVars

-----------------------------------------------------------------------------
Posted == request # Idle /\ request.stage = "posted"

\* A POST goes out only if nothing it needs was missing from before the final gate
\* to the end of it: a right, a switch, a binding or an assignment that was taken
\* away in time stops it, however late in the request.
\* (_meta_budget_final_execution_authorization; execute)
WithdrawnInTimeStops == Posted => request.gone = {}

\* A POST is made under the role, the rank and the credential of the preview the
\* user confirmed, and carries that credential's token, whatever was changed and
\* changed back on the way.  (PreviewSigner.verify; assert_budget_command_context_matches)
PostedAsPreviewed ==
    Posted => request.token = request.proof.grant
              /\ (request.proof.role = "agency" => request.rank = request.proof.rank)

\* While a command may be unresolved, whoever could send it can reconcile it, also
\* after spend caps were switched off.  (authorize_budget_reconciliation)
RecoveryOutlivesSwitch ==
    Posted /\ MayWrite(held \cup {"spendcap"}, role, rank, cred, request.field)
        => MayReconcile(held, role, rank, cred, request.field)
=============================================================================
