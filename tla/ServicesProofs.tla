--------------------------- MODULE ServicesProofs ---------------------------
(***************************************************************************)
(* The properties of MCServices, each from the theorems of the components  *)
(* that it speaks of.                                                      *)
(*                                                                         *)
(* A behaviour of MCServices keeps to the component that its initial state *)
(* chose: it is a behaviour of that component's specification, and the     *)
(* others stand still.  The theorems about the component then hold of it,  *)
(* for the values that the instance gives to their constants.              *)
(***************************************************************************)
EXTENDS MCServices, TLAPS

-----------------------------------------------------------------------------
(* Which component runs *)

LEMMA FocusStays == [Next]_vars => focus' = focus
BY DEF Next, vars

LEMMA AssignmentsRun ==
    Spec => \/ [](~(focus = "assignments"))
            \/ Racing!Conflicts!Spec /\ [](focus = "assignments")
<1>1. Init /\ focus = "assignments" => Racing!Conflicts!Init
  BY DEF Init
<1>2. focus = "assignments" /\ [Next]_vars => [Racing!Conflicts!Next]_(Racing!Conflicts!acVars)
  BY DEF Next, vars, conflictVars, Racing!Conflicts!acVars, Racing!Conflicts!acRows
<1>3. [Next]_vars => ((focus = "assignments")' <=> focus = "assignments")
  BY FocusStays
<1> QED
  BY <1>1, <1>2, <1>3, PTL DEF Spec, Racing!Conflicts!Spec

LEMMA ConflictsRun ==
    Spec => \/ [](~(focus = "conflicts"))
            \/ Reviewing!Conflicts!Spec /\ [](focus = "conflicts")
<1>1. Init /\ focus = "conflicts" => Reviewing!Conflicts!Init
  BY DEF Init
<1>2. focus = "conflicts" /\ [Next]_vars => [Reviewing!Conflicts!Next]_(Reviewing!Conflicts!acVars)
  BY DEF Next, vars, conflictVars, Reviewing!Conflicts!acVars, Reviewing!Conflicts!acRows
<1>3. [Next]_vars => ((focus = "conflicts")' <=> focus = "conflicts")
  BY FocusStays
<1> QED
  BY <1>1, <1>2, <1>3, PTL DEF Spec, Reviewing!Conflicts!Spec

LEMMA LeasesRun ==
    Spec => \/ [](~(focus = "leases"))
            \/ Leasing!Sync!Spec /\ [](focus = "leases")
<1>1. Init /\ focus = "leases" => Leasing!Sync!Init
  BY DEF Init
<1>2. focus = "leases" /\ [Next]_vars => [Leasing!Sync!Next]_(Leasing!Sync!syncVars)
  BY DEF Next, vars, syncVars, Leasing!Sync!syncVars
<1>3. [Next]_vars => ((focus = "leases")' <=> focus = "leases")
  BY FocusStays
<1> QED
  BY <1>1, <1>2, <1>3, PTL DEF Spec, Leasing!Sync!Spec

LEMMA DataRun ==
    Spec => \/ [](~(focus = "data"))
            \/ Storing!Sync!Spec /\ [](focus = "data")
<1>1. Init /\ focus = "data" => Storing!Sync!Init
  BY DEF Init, Leasing!Sync!Init, Storing!Sync!Init
<1>2. focus = "data" /\ [Next]_vars => [Storing!Sync!Next]_(Storing!Sync!syncVars)
  BY DEF Next, vars, syncVars, Storing!Sync!syncVars
<1>3. [Next]_vars => ((focus = "data")' <=> focus = "data")
  BY FocusStays
<1> QED
  BY <1>1, <1>2, <1>3, PTL DEF Spec, Storing!Sync!Spec

LEMMA KeysRun ==
    Spec => \/ [](~(focus = "keys"))
            \/ Keys!Spec /\ [](focus = "keys")
<1>1. Init /\ focus = "keys" => Keys!Init
  BY DEF Init
<1>2. focus = "keys" /\ [Next]_vars => [Keys!Next]_(Keys!credentialVars)
  BY DEF Next, vars, credVars, Keys!credentialVars
<1>3. [Next]_vars => ((focus = "keys")' <=> focus = "keys")
  BY FocusStays
<1> QED
  BY <1>1, <1>2, <1>3, PTL DEF Spec, Keys!Spec

LEMMA OwnersRun ==
    Spec => \/ [](~(focus = "owners"))
            \/ Owners!Spec /\ [](focus = "owners")
<1>1. Init /\ focus = "owners" => Owners!Init
  BY DEF Init
<1>2. focus = "owners" /\ [Next]_vars => [Owners!Next]_(Owners!credentialVars)
  BY DEF Next, vars, credVars, Owners!credentialVars
<1>3. [Next]_vars => ((focus = "owners")' <=> focus = "owners")
  BY FocusStays
<1> QED
  BY <1>1, <1>2, <1>3, PTL DEF Spec, Owners!Spec

LEMMA SwitchedRuns ==
    Spec => \/ [](~(focus = "switched"))
            \/ Switched!Spec /\ [](focus = "switched")
<1>1. Init /\ focus = "switched" => Switched!Init
  BY DEF Init
<1>2. focus = "switched" /\ [Next]_vars => [Switched!Next]_(Switched!credentialVars)
  BY DEF Next, vars, credVars, Switched!credentialVars
<1>3. [Next]_vars => ((focus = "switched")' <=> focus = "switched")
  BY FocusStays
<1> QED
  BY <1>1, <1>2, <1>3, PTL DEF Spec, Switched!Spec

LEMMA AgencyRuns ==
    Spec => \/ [](~(focus = "agency"))
            \/ AgencyBindings!Spec /\ [](focus = "agency")
<1>1. Init /\ focus = "agency" => AgencyBindings!Init
  BY DEF Init
<1>2. focus = "agency" /\ [Next]_vars => [AgencyBindings!Next]_(AgencyBindings!credentialVars)
  BY DEF Next, vars, credVars, AgencyBindings!credentialVars
<1>3. [Next]_vars => ((focus = "agency")' <=> focus = "agency")
  BY FocusStays
<1> QED
  BY <1>1, <1>2, <1>3, PTL DEF Spec, AgencyBindings!Spec

LEMMA BindingsRun ==
    Spec => \/ [](~(focus = "bindings"))
            \/ Bindings!Spec /\ [](focus = "bindings")
<1>1. Init /\ focus = "bindings" => Bindings!Init
  BY DEF Init
<1>2. focus = "bindings" /\ [Next]_vars => [Bindings!Next]_(Bindings!credentialVars)
  BY DEF Next, vars, credVars, Bindings!credentialVars
<1>3. [Next]_vars => ((focus = "bindings")' <=> focus = "bindings")
  BY FocusStays
<1> QED
  BY <1>1, <1>2, <1>3, PTL DEF Spec, Bindings!Spec

LEMMA WriteBacksRun ==
    Spec => \/ [](~(focus = "writebacks"))
            \/ WriteBacks!Spec /\ [](focus = "writebacks")
<1>1. Init /\ focus = "writebacks" => WriteBacks!Init
  BY DEF Init
<1>2. focus = "writebacks" /\ [Next]_vars => [WriteBacks!Next]_(WriteBacks!credentialVars)
  BY DEF Next, vars, credVars, WriteBacks!credentialVars
<1>3. [Next]_vars => ((focus = "writebacks")' <=> focus = "writebacks")
  BY FocusStays
<1> QED
  BY <1>1, <1>2, <1>3, PTL DEF Spec, WriteBacks!Spec

LEMMA SignInRuns ==
    Spec => \/ [](~(focus = "signin"))
            \/ FirstSignIns!Spec /\ [](focus = "signin")
<1>1. Init /\ focus = "signin" => FirstSignIns!Init
  BY DEF Init
<1>2. focus = "signin" /\ [Next]_vars => [FirstSignIns!Next]_(FirstSignIns!signInVars)
  BY DEF Next, vars, signInVars, FirstSignIns!signInVars
<1>3. [Next]_vars => ((focus = "signin")' <=> focus = "signin")
  BY FocusStays
<1> QED
  BY <1>1, <1>2, <1>3, PTL DEF Spec, FirstSignIns!Spec

LEMMA MigrationRuns ==
    Spec => \/ [](~(focus = "migration"))
            \/ Migrations!Spec /\ [](focus = "migration")
<1>1. Init /\ focus = "migration" => Migrations!Init
  BY DEF Init
<1>2. focus = "migration" /\ [Next]_vars => [Migrations!Next]_(Migrations!signInVars)
  BY DEF Next, vars, signInVars, Migrations!signInVars
<1>3. [Next]_vars => ((focus = "migration")' <=> focus = "migration")
  BY FocusStays
<1> QED
  BY <1>1, <1>2, <1>3, PTL DEF Spec, Migrations!Spec

LEMMA InvitesRun ==
    Spec => \/ [](~(focus = "invites"))
            \/ Invitations!Spec /\ [](focus = "invites")
<1>1. Init /\ focus = "invites" => Invitations!Init
  BY DEF Init
<1>2. focus = "invites" /\ [Next]_vars => [Invitations!Next]_(Invitations!inviteVars)
  BY DEF Next, vars, inviteVars, Invitations!inviteVars
<1>3. [Next]_vars => ((focus = "invites")' <=> focus = "invites")
  BY FocusStays
<1> QED
  BY <1>1, <1>2, <1>3, PTL DEF Spec, Invitations!Spec

LEMMA GateRuns ==
    Spec => \/ [](~(focus = "gate"))
            \/ Changing!Gate!Spec /\ [](focus = "gate")
<1>1. Init /\ focus = "gate" => Changing!Gate!Init
  BY DEF Init
<1>2. focus = "gate" /\ [Next]_vars => [Changing!Gate!Next]_(Changing!Gate!gateVars)
  BY DEF Next, vars, gateVars, Changing!Gate!gateVars
<1>3. [Next]_vars => ((focus = "gate")' <=> focus = "gate")
  BY FocusStays
<1> QED
  BY <1>1, <1>2, <1>3, PTL DEF Spec, Changing!Gate!Spec

LEMMA UploadsRun ==
    Spec => \/ [](~(focus = "uploads"))
            \/ Uploading!Stats!Spec /\ [](focus = "uploads")
<1>1. Init /\ focus = "uploads" => Uploading!Stats!Init
  BY DEF Init
<1>2. focus = "uploads" /\ [Next]_vars => [Uploading!Stats!Next]_(Uploading!Stats!vars)
  BY DEF Next, vars, statVars, Uploading!Stats!vars
<1>3. [Next]_vars => ((focus = "uploads")' <=> focus = "uploads")
  BY FocusStays
<1> QED
  BY <1>1, <1>2, <1>3, PTL DEF Spec, Uploading!Stats!Spec

LEMMA ReportsRun ==
    Spec => \/ [](~(focus = "reports"))
            \/ Reporting!Stats!Spec /\ [](focus = "reports")
<1>1. Init /\ focus = "reports" => Reporting!Stats!Init
  BY DEF Init
<1>2. focus = "reports" /\ [Next]_vars => [Reporting!Stats!Next]_(Reporting!Stats!vars)
  BY DEF Next, vars, statVars, Reporting!Stats!vars
<1>3. [Next]_vars => ((focus = "reports")' <=> focus = "reports")
  BY FocusStays
<1> QED
  BY <1>1, <1>2, <1>3, PTL DEF Spec, Reporting!Stats!Spec

-----------------------------------------------------------------------------
(* Advertising accounts *)

\* However writers race, and a reviewer beside them, no call makes two active rows of two
\* clients that a trigger reads as one advertising account, whatever the spelling of the
\* rows; for rows only Python reads as one there is no such theorem.
\* (ad_accounts.py create and patch, clients.py patch, db.py)
THEOREM NoContestArises == Spec => NoNewContest
<1>1. Racing!Conflicts!Spec => Racing!Conflicts!NoNewContest
  BY ValueAssumption, Racing!NoContestIsMade
<1>2. Reviewing!Conflicts!Spec => Reviewing!Conflicts!NoNewContest
  BY ValueAssumption, Reviewing!NoContestIsMade
<1>3. /\ focus = "assignments" => [Racing!Conflicts!MakesNoContest]_(Racing!Conflicts!acVars)
      /\ focus = "conflicts" => [Reviewing!Conflicts!MakesNoContest]_(Reviewing!Conflicts!acVars)
      => [/\ focus = "assignments" => Racing!Conflicts!MakesNoContest
          /\ focus = "conflicts" => Reviewing!Conflicts!MakesNoContest]_conflictVars
  BY DEF conflictVars, Racing!Conflicts!acVars, Racing!Conflicts!acRows,
         Reviewing!Conflicts!acVars, Reviewing!Conflicts!acRows
<1> QED
  BY <1>1, <1>2, <1>3, AssignmentsRun, ConflictsRun, PTL
  DEF NoNewContest, Racing!Conflicts!NoNewContest, Reviewing!Conflicts!NoNewContest

\* Budgets that were added after a reviewer read the conflict outlive its resolution.
\* (assignment_conflicts.py)
THEOREM OnlyShownIsArchived == Spec => OnlyShownBudgetsArchived
<1>1. Reviewing!Conflicts!Spec => Reviewing!Conflicts!OnlyShownBudgetsArchived
  BY ValueAssumption, Reviewing!OnlyShownArchived
<1>2. /\ focus = "conflicts" => [Reviewing!Conflicts!ArchivesOnlyShown]_(Reviewing!Conflicts!acVars)
      => [/\ focus = "conflicts" => Reviewing!Conflicts!ArchivesOnlyShown]_conflictVars
  BY DEF conflictVars, Reviewing!Conflicts!acVars, Reviewing!Conflicts!acRows
<1> QED
  BY <1>1, <1>2, ConflictsRun, PTL
  DEF OnlyShownBudgetsArchived, Reviewing!Conflicts!OnlyShownBudgetsArchived

\* Two runs of which neither was overtaken are never inside the exclusive sync.
\* (ad_account_sync.py, run_sync_exclusive and run_due_sync)
THEOREM AloneUnlessLeaseRanOut == Spec => []AloneUnlessOvertaken
<1>1. Leasing!Sync!Spec => []Leasing!Sync!AloneUnlessOvertaken
  BY ValueAssumption, Leasing!RunsAlone
<1>2. Storing!Sync!Spec => []Storing!Sync!AloneUnlessOvertaken
  BY ValueAssumption, Storing!RunsAlone
<1>3. /\ focus = "leases" => Leasing!Sync!AloneUnlessOvertaken
      /\ focus = "data" => Storing!Sync!AloneUnlessOvertaken
      => AloneUnlessOvertaken
  BY DEF AloneUnlessOvertaken
<1> QED
  BY <1>1, <1>2, <1>3, LeasesRun, DataRun, PTL

\* A retry waits for its time, whoever runs it.  (ad_account_sync.py, run_sync)
THEOREM RetriesWait == Spec => BackoffHonoured
<1>1. Leasing!Sync!Spec => Leasing!Sync!BackoffHonoured
  BY ValueAssumption, Leasing!BackoffIsHonoured
<1>2. Storing!Sync!Spec => Storing!Sync!BackoffHonoured
  BY ValueAssumption, Storing!BackoffIsHonoured
<1>3. /\ focus = "leases" => [Leasing!Sync!KeepsBackoff]_(Leasing!Sync!syncVars)
      /\ focus = "data" => [Storing!Sync!KeepsBackoff]_(Storing!Sync!syncVars)
      => [/\ focus = "leases" => Leasing!Sync!KeepsBackoff
          /\ focus = "data" => Storing!Sync!KeepsBackoff]_syncVars
  BY DEF syncVars, Leasing!Sync!syncVars, Storing!Sync!syncVars
<1> QED
  BY <1>1, <1>2, <1>3, LeasesRun, DataRun, PTL
  DEF BackoffHonoured, Leasing!Sync!BackoffHonoured, Storing!Sync!BackoffHonoured

\* The newest day an account claims was stored, also when runs overtake each other.
\* (ad_account_sync.py, run_sync: next_meta)
THEOREM ClaimedDaysAreStored == Spec => []FreshnessIsIngested
<1>1. Leasing!Sync!Spec => []Leasing!Sync!FreshnessIsIngested
  BY ValueAssumption, Leasing!ClaimsWhatIsThere
<1>2. Storing!Sync!Spec => []Storing!Sync!FreshnessIsIngested
  BY ValueAssumption, Storing!ClaimsWhatIsThere
<1>3. /\ focus = "leases" => Leasing!Sync!FreshnessIsIngested
      /\ focus = "data" => Storing!Sync!FreshnessIsIngested
      => FreshnessIsIngested
  BY DEF FreshnessIsIngested
<1> QED
  BY <1>1, <1>2, <1>3, LeasesRun, DataRun, PTL

\* An upload that arrives again, however late, leaves later rows as they are.
\* (ad_stats.py, ingest)
THEOREM RepeatedUploadsRevertNothing == Spec => []RetriesNeverRevert
<1>1. Uploading!Stats!Spec => []Uploading!Stats!RetriesNeverRevert
  BY ValueAssumption, Uploading!NothingReverts
<1>2. Reporting!Stats!Spec => []Reporting!Stats!RetriesNeverRevert
  BY ValueAssumption, Reporting!NothingReverts
<1>3. /\ focus = "uploads" => Uploading!Stats!RetriesNeverRevert
      /\ focus = "reports" => Reporting!Stats!RetriesNeverRevert
      => RetriesNeverRevert
  BY DEF RetriesNeverRevert
<1> QED
  BY <1>1, <1>2, <1>3, UploadsRun, ReportsRun, PTL

\* A report says of the data it totals how fresh they are, whichever accounts it selects.
\* (ad_stats.py, aggregate)
THEOREM QualityIsOfWhatIsTotalled == Spec => []QualityJudgesTotals
<1>1. Reporting!Stats!Spec => []Reporting!Stats!QualityJudgesTotals
  <2>1. Days \subseteq Int /\ StatsStaleAfter \in Int
    BY DEF Days, StatsStaleAfter
  <2> QED
    BY <2>1, Reporting!QualityIsOfTotals
<1>2. /\ focus = "reports" => Reporting!Stats!QualityJudgesTotals
      => QualityJudgesTotals
  BY DEF QualityJudgesTotals
<1> QED
  BY <1>1, <1>2, ReportsRun, PTL

-----------------------------------------------------------------------------
(* Budget changes *)

\* What was withdrawn before the last look at it, and not given back, stops the POST.
\* (main.py, _meta_budget_final_execution_authorization)
THEOREM WithdrawnStops == Spec => []WithdrawnInTimeStops
<1>1. Changing!Gate!Spec => []Changing!Gate!WithdrawnInTimeStops
  <2>1. MaxGrant \in Nat \ {0}
    BY DEF MaxGrant
  <2> QED
    BY <2>1, Changing!WithdrawalStops
<1>2. /\ focus = "gate" => Changing!Gate!WithdrawnInTimeStops
      => WithdrawnInTimeStops
  BY DEF WithdrawnInTimeStops
<1> QED
  BY <1>1, <1>2, GateRuns, PTL

\* Who posts is who previewed, in the same role and tenant, with the same grant.
\* (provider_budget_commands.py, assert_budget_command_context_matches)
THEOREM PostedIsAsPreviewed == Spec => []PostedAsPreviewed
<1>1. Changing!Gate!Spec => []Changing!Gate!PostedAsPreviewed
  <2>1. MaxGrant \in Nat \ {0}
    BY DEF MaxGrant
  <2> QED
    BY <2>1, Changing!PostsAsPreviewed
<1>2. /\ focus = "gate" => Changing!Gate!PostedAsPreviewed
      => PostedAsPreviewed
  BY DEF PostedAsPreviewed
<1> QED
  BY <1>1, <1>2, GateRuns, PTL

\* The switch that stops budget changes does not stop their reconciliation.
\* (provider_budget_commands.py, authorize_budget_reconciliation)
THEOREM RecoveryOutlivesTheSwitch == Spec => []RecoveryOutlivesSwitch
<1>1. Changing!Gate!Spec => []Changing!Gate!RecoveryOutlivesSwitch
  BY Changing!RecoveryOutlives
<1>2. /\ focus = "gate" => Changing!Gate!RecoveryOutlivesSwitch
      => RecoveryOutlivesSwitch
  BY DEF RecoveryOutlivesSwitch
<1> QED
  BY <1>1, <1>2, GateRuns, PTL

-----------------------------------------------------------------------------
(* Credentials *)

\* A binding ends with the status of its row, whatever a discovery checked before its
\* insert or a patch read before its write; an overtaken patch alone leaves it otherwise.
\* (integration_credentials.py)
THEOREM BindingsEndWithTheirStatus == Spec => []BindingsEndWithStatus
<1>1. Switched!Spec => []Switched!BindingsEndWithStatus
  BY ValueAssumption, Switched!BindingsStopWithStatus
<1>2. AgencyBindings!Spec => []AgencyBindings!BindingsEndWithStatus
  BY ValueAssumption, AgencyBindings!BindingsStopWithStatus
<1>3. Bindings!Spec => []Bindings!BindingsEndWithStatus
  BY ValueAssumption, Bindings!BindingsStopWithStatus
<1>4. WriteBacks!Spec => []WriteBacks!BindingsEndWithStatus
  BY ValueAssumption, WriteBacks!BindingsStopWithStatus
<1>5. /\ focus = "switched" => Switched!BindingsEndWithStatus
      /\ focus = "agency" => AgencyBindings!BindingsEndWithStatus
      /\ focus = "bindings" => Bindings!BindingsEndWithStatus
      /\ focus = "writebacks" => WriteBacks!BindingsEndWithStatus
      => BindingsEndWithStatus
  BY DEF BindingsEndWithStatus
<1> QED
  BY <1>1, <1>2, <1>3, <1>4, <1>5, SwitchedRuns, AgencyRuns, BindingsRun, WriteBacksRun, PTL

\* A rotation that read a row before it was connected anew leaves the newer grant, and
\* so does a patch that no other write of its row overtook.
\* (integration_credentials.py, rotate_credentials and patch)
THEOREM OlderGrantsComeBackLate == Spec => GrantsOnlyGrow
<1>1. Keys!Spec => Keys!GrantsOnlyGrow
  BY ValueAssumption, Keys!OnlyLatePatchesLowerGrants
<1>2. Owners!Spec => Owners!GrantsOnlyGrow
  BY ValueAssumption, Owners!OnlyLatePatchesLowerGrants
<1>3. /\ focus = "keys" => [Keys!KeepsGrants]_(Keys!credentialVars)
      /\ focus = "owners" => [Owners!KeepsGrants]_(Owners!credentialVars)
      => [/\ focus = "keys" => Keys!KeepsGrants
          /\ focus = "owners" => Owners!KeepsGrants]_credVars
  BY DEF credVars, Keys!credentialVars, Owners!credentialVars
<1> QED
  BY <1>1, <1>2, <1>3, KeysRun, OwnersRun, PTL
  DEF GrantsOnlyGrow, Keys!GrantsOnlyGrow, Owners!GrantsOnlyGrow

\* Overlapping patches leave a row encrypted for the owner it names; and once the report
\* counts no row of an old key, that key can go, but for what an overtaken patch writes.
\* (integration_credentials.py, patch and get_encryption_summary)
THEOREM KeptRowsAreReadable == Spec => []RowsStayReadable
<1>1. Keys!Spec => []Keys!RowsStayReadable
  BY ValueAssumption, Keys!RowsRemainReadable
<1>2. Owners!Spec => []Owners!RowsStayReadable
  BY ValueAssumption, Owners!RowsRemainReadable
<1>3. /\ focus = "keys" => Keys!RowsStayReadable
      /\ focus = "owners" => Owners!RowsStayReadable
      => RowsStayReadable
  BY DEF RowsStayReadable
<1> QED
  BY <1>1, <1>2, <1>3, KeysRun, OwnersRun, PTL

-----------------------------------------------------------------------------
(* Sign-in and invites *)

\* One state serves one callback, with every provider.  (oauth.py, consume_state)
THEOREM StateIsUsedOnce == Spec => []StateServesOnce
<1>1. FirstSignIns!Spec => []FirstSignIns!StateServesOnce
  BY ValueAssumption, FirstSignIns!ServesOnce
<1>2. Migrations!Spec => []Migrations!StateServesOnce
  BY ValueAssumption, Migrations!ServesOnce
<1>3. /\ focus = "signin" => FirstSignIns!StateServesOnce
      /\ focus = "migration" => Migrations!StateServesOnce
      => StateServesOnce
  BY DEF StateServesOnce
<1> QED
  BY <1>1, <1>2, <1>3, SignInRuns, MigrationRuns, PTL

\* A session is of the user of the identity that was proven, when first sign-ins race and when
\* identities are migrated.  (main.py, auth_oauth_callback)
THEOREM SessionIsOfTheIdentity == Spec => []SessionOfTheIdentity
<1>1. FirstSignIns!Spec => []FirstSignIns!SessionOfTheIdentity
  BY ValueAssumption, FirstSignIns!SessionsFollowUnreviewed
<1>2. Migrations!Spec => []Migrations!SessionOfTheIdentity
  BY ValueAssumption, Migrations!SessionsFollowUnreviewed
<1>3. /\ focus = "signin" => FirstSignIns!SessionOfTheIdentity
      /\ focus = "migration" => Migrations!SessionOfTheIdentity
      => SessionOfTheIdentity
  BY DEF SessionOfTheIdentity
<1> QED
  BY <1>1, <1>2, <1>3, SignInRuns, MigrationRuns, PTL

\* An owner gets one workspace, however sign-ins race.
\* (main.py, _ensure_solo_client_workspace and _auto_provision_facebook_client)
THEOREM WorkspaceIsOne == Spec => []OneWorkspaceEach
<1>1. FirstSignIns!Spec => []FirstSignIns!OneWorkspaceEach
  BY FirstSignIns!OneEach
<1>2. Migrations!Spec => []Migrations!OneWorkspaceEach
  BY Migrations!OneEach
<1>3. /\ focus = "signin" => FirstSignIns!OneWorkspaceEach
      /\ focus = "migration" => Migrations!OneWorkspaceEach
      => OneWorkspaceEach
  BY DEF OneWorkspaceEach
<1> QED
  BY <1>1, <1>2, <1>3, SignInRuns, MigrationRuns, PTL

\* Of two calls that accept an invite one lets its user in.  (main.py, _accept_client_invite)
THEOREM InvitesWelcomeOnce == Spec => []InviteWelcomesOnce
<1>1. Invitations!Spec => []Invitations!InviteWelcomesOnce
  BY ValueAssumption, Invitations!WelcomesOnce
<1>2. /\ focus = "invites" => Invitations!InviteWelcomesOnce
      => InviteWelcomesOnce
  BY DEF InviteWelcomesOnce
<1> QED
  BY <1>1, <1>2, InvitesRun, PTL

\* A roll-back of a failed acceptance does not open what was revoked or has expired.
\* (main.py, _accept_client_invite)
THEOREM ClosedNeverOpens == Spec => ClosedStaysClosed
<1>1. Invitations!Spec => Invitations!ClosedStaysClosed
  BY ValueAssumption, Invitations!StaysClosed
<1>2. /\ focus = "invites" => [Invitations!KeepsClosed]_(Invitations!inviteVars)
      => [/\ focus = "invites" => Invitations!KeepsClosed]_inviteVars
  BY DEF inviteVars, Invitations!inviteVars
<1> QED
  BY <1>1, <1>2, InvitesRun, PTL
  DEF ClosedStaysClosed, Invitations!ClosedStaysClosed
=============================================================================
