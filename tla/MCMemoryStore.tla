--------------------------- MODULE MCMemoryStore ---------------------------
(* Six families of calls, each about tables that hang together.              *)
EXTENDS MemoryStore

\* Bytes: "a", "a/x", "a0/x", "a/b/x".
A == <<97>>
AX == <<97, 47, 120>>
A0X == <<97, 48, 47, 120>>
ABX == <<97, 47, 98, 47, 120>>

RepoRow(forge, slug, token, visibility) ==
  [forge |-> forge, slug |-> slug, token |-> token, branch |-> "main",
   settings |-> "s1", visibility |-> visibility, disabled |-> FALSE]
CreateRepoCall(row) == [op |-> "CreateRepo", row |-> row]
WorkspaceRow(forge, token, settings, installation, broken) ==
  [forge |-> forge, prefix |-> A, token |-> token, settings |-> settings,
   installation |-> installation, appBroken |-> broken]
Grant(account, refresh) == [account |-> account, refresh |-> refresh, broken |-> FALSE]
UserRow(uuid, profile) == [forge |-> "github", uuid |-> uuid, profile |-> profile]
UploadCall(repo, commit, branch, pr, failed, part, files) ==
  [op |-> "CreateUpload", files |-> files,
   row |-> [repo |-> repo, commit |-> commit, branch |-> branch, pr |-> pr,
            failed |-> failed, part |-> part]]
ReportCall(repo, commit, branch, pr, failed, upload) ==
  [op |-> "UpsertCommitReport",
   row |-> [repo |-> repo, commit |-> commit, branch |-> branch, pr |-> pr,
            failed |-> failed, upload |-> upload]]
File(path, report) == [path |-> path, report |-> report]
Key(repo, part) == [repo |-> repo, run |-> 1, attempt |-> 1, part |-> part]

\* Repos under a workspace, and what hangs off them.
RepoCalls ==
  {CreateRepoCall(r) : r \in {RepoRow("github", AX, "t1", "public"),
                              RepoRow("github", A0X, "t2", "private"),
                              RepoRow("gitlab", ABX, "t1", "public"),
                              RepoRow("github", ABX, "t3", "public")}}
    \cup {[op |-> "UpdateRepo", id |-> 1,
           row |-> [RepoRow("github", AX, "t4", "public") EXCEPT !.settings = "s2", !.disabled = TRUE]]}
    \cup {[op |-> "SetRepoVisibility", id |-> 1, visibility |-> v[1], at |-> v[2]] :
            v \in {<<"private", 1>>, <<"public", 2>>}}
    \cup {[op |-> "DeleteRepo", id |-> i] : i \in {1, 2}}
    \cup {[op |-> "CreateWorkspace", grant |-> EmptyGrant,
           row |-> WorkspaceRow("github", "w1", "s1", 0, FALSE)],
          [op |-> "DeleteWorkspace", id |-> 1],
          UploadCall(1, "c1", "main", "", FALSE, "p", {File("f", 1)}),
          ReportCall(1, "c1", "main", "", FALSE, 1)}

\* Accounts, their seats and the workspaces they register.
SeatCalls ==
  {[op |-> "UpsertUser", row |-> UserRow(u[1], u[2])] : u \in {<<"u1", 1>>, <<"u1", 2>>, <<"u2", 1>>}}
    \cup {[op |-> "RegisterWorkspace", user |-> 1, grant |-> EmptyGrant,
           row |-> WorkspaceRow(f, "w" , "s1", 0, FALSE)] : f \in {"github", "gitlab"}}
    \cup {[op |-> "CreateWorkspace", grant |-> Grant("acc", <<"r1">>),
           row |-> WorkspaceRow("bitbucket", "w2", "s1", 0, FALSE)]}
    \cup {[op |-> "SetUserMemberships", user |-> u, seats |-> s] :
            u \in {1, 2},
            s \in {{}, {[workspace |-> 1, role |-> "member"]},
                   {[workspace |-> 1, role |-> "owner"], [workspace |-> 2, role |-> "member"]},
                   {[workspace |-> 1, role |-> "admin"]}}}
    \cup {[op |-> "DeleteUser", id |-> 1], [op |-> "DeleteWorkspace", id |-> 1]}

\* Sessions, codes and tokens of two users, against the clock.
TokenCalls ==
  {[op |-> "UpsertUser", row |-> UserRow(u, 1)] : u \in {"u1", "u2"}}
    \cup {[op |-> op, hash |-> "h", row |-> [user |-> u, expires |-> 2]] :
            op \in {"CreateSession", "CreateOAuthCode", "CreateMCPToken"}, u \in {1, 2}}
    \cup {[op |-> op, hash |-> "h"] :
            op \in {"UserBySession", "DeleteSession", "ConsumeOAuthCode", "UserByMCPToken"}}
    \cup {[op |-> "DeleteUser", id |-> 1]}

\* The row of a workspace: full-row saves against the narrow writes.
GrantCalls ==
  {[op |-> "CreateWorkspace", grant |-> EmptyGrant, row |-> WorkspaceRow(f, f, "s1", 7, FALSE)] :
     f \in {"bitbucket", "github"}}
    \cup {[op |-> "UpdateWorkspace", id |-> i,
           row |-> WorkspaceRow(f, f, "s2", n, TRUE)] :
            i \in {1}, f \in {"bitbucket", "github"}, n \in {0, 8}}
    \cup {[op |-> "SetWorkspaceGrant", id |-> i, forge |-> f, grant |-> g] :
            i \in {1, 2}, f \in {"bitbucket", "github"}, g \in {EmptyGrant, Grant("acc", <<"r2">>)}}
    \cup {[op |-> "MarkWorkspaceGrantBroken", id |-> i, forge |-> f, account |-> a] :
            i \in {1, 2}, f \in {"bitbucket", "github"}, a \in {"acc", "old"}}
    \cup {[op |-> "SetGitHubAppBroken", id |-> i, installation |-> n, broken |-> b] :
            i \in {1, 2}, n \in {0, 7}, b \in BOOLEAN}

\* Uploads of two commits, their reports and the push lease.
ReportCalls ==
  {CreateRepoCall(RepoRow("github", AX, "t1", "public")), [op |-> "DeleteRepo", id |-> 1],
   UploadCall(1, "c1", "main", "", FALSE, "p", {File("f", 1), File("g", 1)}),
   UploadCall(1, "c1", "main", "9", FALSE, "q", {File("f", 2)}),
   UploadCall(1, "c2", "work", "", TRUE, "p", {}),
   ReportCall(1, "c1", "main", "9", FALSE, 1), ReportCall(1, "c2", "main", "", FALSE, 2),
   ReportCall(1, "c2", "main", "", TRUE, 3)}
    \cup {[op |-> "ClaimTokenlessUpload", key |-> Key(1, "p")],
          [op |-> "ReleaseTokenlessUpload", key |-> Key(1, "p")]}

PushCalls ==
  {CreateRepoCall(RepoRow("github", AX, "t1", "public")), [op |-> "DeleteRepo", id |-> 1],
   UploadCall(1, "c1", "main", "", FALSE, "p", {}), ReportCall(1, "c1", "main", "", FALSE, 1)}
    \cup {[op |-> "ClaimPush", repo |-> 1, commit |-> "c1", version |-> v, lease |-> 1] : v \in 1 .. 3}
    \cup {[op |-> "FinishPush", repo |-> 1, commit |-> "c1", version |-> v, lease |-> l, pushed |-> b] :
            v \in 1 .. 2, l \in 2 .. 3, b \in BOOLEAN}

\* The last call and its answer constrain no later one.
Contents == <<mem, now, family>>

MCFamilies == {RepoCalls, SeatCalls, TokenCalls, GrantCalls, ReportCalls, PushCalls}
=============================================================================
