------------------------ MODULE ReportAccess_proofs ------------------------
(* Theorems about ReportAccess, for any slots, users, workspaces, prefixes of *)
(* the slug, clients, calls and bounds.                                       *)
EXTENDS ReportAccess, FiniteSetTheorems, TLAPS

-----------------------------------------------------------------------------
(* The inductive invariant, in parts. *)

\* The kinds of request that take a step.
Stage ==
  [session |-> {"page", "dashboard", "settings", "workspace", "approve"}, token |-> {"tool"},
   repo |-> {"page", "tool", "api", "settings"}, access |-> {"page", "tool"},
   grant |-> {"api"}, read |-> {"page", "tool", "api"},
   spaces |-> {"dashboard", "settings"}, list |-> {"dashboard"}, seat |-> {"settings"},
   workspace |-> {"workspace"}, member |-> {"workspace"}, write |-> {"settings", "workspace"},
   credential |-> {"upload"}, target |-> {"upload"}, owner |-> {"upload"},
   identify |-> {"upload"}, register |-> {"upload"},
   client |-> {"register"}, code |-> {"approve"}, consume |-> {"exchange"},
   issue |-> {"exchange"}, served |-> DOMAIN FirstStep, refused |-> DOMAIN FirstStep]

Field == {"call", "pc", "user", "row", "spaces", "at"}

\* A request in flight is at a step of its kind.
StageInv ==
  /\ DOMAIN req = Slot
  /\ \A q \in Slot : req[q] # Idle =>
       LET c == req[q].call
       IN  /\ DOMAIN req[q] = Field
           /\ req[q].pc \in DOMAIN Stage
           /\ c.kind \in DOMAIN FirstStep
           /\ c.kind \in Stage[req[q].pc]
           /\ c.kind \in {"api", "upload"} => c.oidc \in {"none", "slug", "id", "other"}

\* A seat is a user's, as owner or member; an MCP token is of the user it was
\* issued for.
WorldInv ==
  /\ instance \in Instances
  /\ \A s \in seats : s.user \in User /\ s.role \in {"owner", "member"}
  /\ DOMAIN tokens \subseteq DOMAIN issued
  /\ \A t \in DOMAIN tokens : tokens[t].user = issued[t].user

\* Who asks is known from the first step on, and held a live credential.
Unknown == {"session", "token", "refused"}
Signed(q) ==
  LET c == req[q].call
  IN  /\ Truths(c) \subseteq chance[q]
      /\ c.kind \in {"dashboard", "settings", "workspace", "tool"} /\ req[q].pc \notin Unknown =>
           req[q].user = Who(c) /\ "live" \in chance[q]
      /\ c.kind = "tool" /\ req[q].pc \notin Unknown => c.cred \in DOMAIN issued
      /\ c.kind = "page" =>
           \/ req[q].user = Nobody
           \/ req[q].user = Who(c) /\ "live" \in chance[q]
SignedInv == \A q \in Slot : req[q] # Idle => Signed(q)

\* What a request has been let past, or served, was true when it was checked.
Entitled(q) ==
  LET c == req[q].call
      was(t) == t \subseteq chance[q]
  IN  /\ c.kind \in {"page", "tool"} => was({"live", "seat"}) \/ was({"public"})
      /\ c.kind = "api" => was({"key"}) \/ was({"public"})
      /\ c.kind = "upload" => was({"key"})
      /\ c.kind = "dashboard" => was({"live", "seat"})
      /\ c.kind \in {"settings", "workspace"} =>
            was({"live", IF c.asks = "view" THEN "seat" ELSE "owner"})
LetPast(q) ==
  LET c == req[q].call
  IN  /\ req[q].pc \in {"access", "grant"} /\ servesPublicly(req[q].row) => "public" \in chance[q]
      /\ At(q, "list") /\ allows(req[q].spaces) => "seat" \in chance[q]
      /\ At(q, "seat") => "seat" \in chance[q] /\ req[q].spaces \subseteq Range(Owning)
      /\ At(q, "write") => "owner" \in chance[q]
      /\ At(q, "target") => c.oidc # "other" /\ (c.oidc # "id" => "key" \in chance[q])
      /\ At(q, "owner") => c.oidc \in {"slug", "id"}
      /\ At(q, "identify") => c.oidc = "id"
      /\ At(q, "register") => "key" \in chance[q]
      /\ req[q].pc \in {"read", "served"} => Entitled(q)
LetPastInv == \A q \in Slot : req[q] # Idle => LetPast(q)

\* A code is at one place at a time: stored, with the exchange that took it, or
\* answered.
Fits(x, row) ==
  /\ x.user = row.user /\ x.at < row.expires
  /\ x.call.client \in {"", row.client} /\ x.call.redirect \in {"", row.redirect}
  /\ x.call.verifier = row.challenge
Takers == {q \in Slot : req[q] # Idle /\ At(q, "issue")}
Held == {req[q].call.code : q \in Takers}
Answered == {issued[t].call.code : t \in DOMAIN issued}
FreshInv ==
  /\ fresh \in Nat
  /\ \A k \in DOMAIN approved \cup DOMAIN issued : k \in Nat /\ k < fresh
PlaceInv ==
  /\ DOMAIN codes \cup Held \cup Answered \cup refused \subseteq DOMAIN approved
  /\ DOMAIN codes \cap (Held \cup Answered \cup refused) = {}
  /\ Held \cap (Answered \cup refused) = {}
  /\ Answered \cap refused = {}
  /\ \A p, q \in Takers : req[p].call.code = req[q].call.code => p = q
  /\ \A s, t \in DOMAIN issued : issued[s].call.code = issued[t].call.code => s = t
FitInv ==
  /\ \A k \in DOMAIN codes : codes[k] = approved[k]
  /\ \A q \in Takers : Fits(req[q], approved[req[q].call.code])
  /\ \A t \in DOMAIN issued : Fits(issued[t], approved[issued[t].call.code])
CodeInv == FreshInv /\ PlaceInv /\ FitInv

IndInv ==
  StageInv /\ WorldInv /\ SignedInv /\ LetPastInv /\ CodeInv

-----------------------------------------------------------------------------
(* The steps. *)

\* A request goes on to a step of its kind.
LEMMA StageStep == IndInv /\ [Next]_vars => StageInv'
<1> SUFFICES ASSUME IndInv, [Next]_vars PROVE StageInv'
  OBVIOUS
<1> USE DEF IndInv
<1>1. ASSUME NEW q \in Slot, Arrive(q) PROVE StageInv'
  <2>1. PICK c \in instance.calls :
           req' = [req EXCEPT ![q] =
                     [call |-> c, pc |-> FirstStep[c.kind], user |-> Nobody,
                      row |-> NoRepo, spaces |-> {}, at |-> 0]]
    BY <1>1 DEF Arrive
  <2>2. /\ c.kind \in DOMAIN FirstStep
        /\ c.kind \in {"api", "upload"} =>
              c.oidc \in {"none", "slug", "id", "other"}
    BY CallAssumption DEF WorldInv
  <2>3. FirstStep[c.kind] \in DOMAIN Stage /\ c.kind \in Stage[FirstStep[c.kind]]
    BY <2>2 DEF FirstStep, Stage
  <2> QED BY <2>1, <2>2, <2>3 DEF StageInv, Field
<1>2. ASSUME NEW q \in Slot, RequireAuth(q) PROVE StageInv'
  BY <1>2 DEF RequireAuth, At, Goes, Ends, With, StageInv, Stage, Field, Idle
<1>3. ASSUME NEW q \in Slot, HandleMCP(q) PROVE StageInv'
  BY <1>3 DEF HandleMCP, At, Goes, Ends, With, StageInv, Stage, Field, Idle
<1>4. ASSUME NEW q \in Slot, LoadRepo(q) PROVE StageInv'
  BY <1>4 DEF LoadRepo, At, Goes, Ends, With, StageInv, Stage, Field, Idle
<1>5. ASSUME NEW q \in Slot, AuthorizeReport(q) PROVE StageInv'
  BY <1>5 DEF AuthorizeReport, At, Goes, Ends, With, StageInv, Stage, Field,
     Idle
<1>6. ASSUME NEW q \in Slot, CredentialGrants(q) PROVE StageInv'
  BY <1>6 DEF CredentialGrants, At, Goes, Ends, With, StageInv, Stage, Field,
     Idle
<1>7. ASSUME NEW q \in Slot, OIDCGrantsRead(q) PROVE StageInv'
  BY <1>7 DEF OIDCGrantsRead, At, Goes, Ends, With, StageInv, Stage, Field,
     Idle
<1>8. ASSUME NEW q \in Slot, LoadReport(q) PROVE StageInv'
  BY <1>8 DEF LoadReport, At, Goes, Ends, With, StageInv, Stage, Field, Idle
<1>9. ASSUME NEW q \in Slot, ListWorkspaces(q) PROVE StageInv'
  BY <1>9 DEF ListWorkspaces, At, Goes, Ends, With, StageInv, Stage, Field,
     Idle
<1>10. ASSUME NEW q \in Slot, VisibleRepos(q) PROVE StageInv'
  BY <1>10 DEF VisibleRepos, At, Goes, Ends, With, StageInv, Stage, Field,
     Idle
<1>11. ASSUME NEW q \in Slot, OwnerRepo(q) PROVE StageInv'
  BY <1>11 DEF OwnerRepo, At, Goes, Ends, With, StageInv, Stage, Field, Idle
<1>12. ASSUME NEW q \in Slot, SaveSettings(q) PROVE StageInv'
  BY <1>12 DEF SaveSettings, Saved, At, Goes, Ends, With, StageInv, Stage,
     Field, Idle
<1>13. ASSUME NEW q \in Slot, RotateToken(q) PROVE StageInv'
  BY <1>13 DEF RotateToken, Saved, At, Goes, Ends, With, StageInv, Stage,
     Field, Idle
<1>14. ASSUME NEW q \in Slot, RevealToken(q) PROVE StageInv'
  BY <1>14 DEF RevealToken, At, Goes, Ends, With, StageInv, Stage, Field, Idle
<1>15. ASSUME NEW q \in Slot, DeleteRepo(q) PROVE StageInv'
  BY <1>15 DEF DeleteRepo, At, Goes, Ends, With, StageInv, Stage, Field, Idle
<1>16. ASSUME NEW q \in Slot, LoadWorkspace(q) PROVE StageInv'
  BY <1>16 DEF LoadWorkspace, At, Goes, Ends, With, StageInv, Stage, Field,
     Idle
<1>17. ASSUME NEW q \in Slot, OwnerWorkspace(q) PROVE StageInv'
  BY <1>17 DEF OwnerWorkspace, At, Goes, Ends, With, StageInv, Stage, Field,
     Idle
<1>18. ASSUME NEW q \in Slot, SaveWorkspace(q) PROVE StageInv'
  BY <1>18 DEF SaveWorkspace, SavedWorkspace, At, Goes, Ends, With, StageInv,
     Stage, Field, Idle
<1>19. ASSUME NEW q \in Slot, RotateWorkspace(q) PROVE StageInv'
  BY <1>19 DEF RotateWorkspace, SavedWorkspace, At, Goes, Ends, With,
     StageInv, Stage, Field, Idle
<1>20. ASSUME NEW q \in Slot, DropWorkspace(q) PROVE StageInv'
  BY <1>20 DEF DropWorkspace, At, Goes, Ends, With, StageInv, Stage, Field,
     Idle
<1>21. ASSUME NEW q \in Slot, LookupUploadToken(q) PROVE StageInv'
  BY <1>21 DEF LookupUploadToken, At, Goes, Ends, With, StageInv, Stage,
     Field, Idle
<1>22. ASSUME NEW q \in Slot, AuthOIDC(q) PROVE StageInv'
  BY <1>22 DEF AuthOIDC, At, Goes, Ends, With, StageInv, Stage, Field, Idle
<1>23. ASSUME NEW q \in Slot, ResolveUploadRepo(q) PROVE StageInv'
  BY <1>23 DEF ResolveUploadRepo, At, Goes, Ends, With, StageInv, Stage,
     Field, Idle
<1>24. ASSUME NEW q \in Slot, OIDCLookup(q) PROVE StageInv'
  BY <1>24 DEF OIDCLookup, Resolved, At, Goes, Ends, With, StageInv, Stage,
     Field, Idle
<1>25. ASSUME NEW q \in Slot, GetRepoID(q) PROVE StageInv'
  BY <1>25 DEF GetRepoID, Resolved, At, Goes, Ends, With, StageInv, Stage,
     Field, Idle
<1>26. ASSUME NEW q \in Slot, RegisterRepo(q) PROVE StageInv'
  BY <1>26 DEF RegisterRepo, At, Goes, Ends, With, StageInv, Stage, Field,
     Idle
<1>27. ASSUME NEW q \in Slot, HandleMCPRegister(q) PROVE StageInv'
  BY <1>27 DEF HandleMCPRegister, At, Goes, Ends, With, StageInv, Stage,
     Field, Idle
<1>28. ASSUME NEW q \in Slot, Approve(q) PROVE StageInv'
  BY <1>28 DEF Approve, At, Goes, Ends, With, StageInv, Stage, Field, Idle
<1>29. ASSUME NEW q \in Slot, ConsumeCode(q) PROVE StageInv'
  BY <1>29 DEF ConsumeCode, At, Goes, Ends, With, StageInv, Stage, Field, Idle
<1>30. ASSUME NEW q \in Slot, IssueToken(q) PROVE StageInv'
  BY <1>30 DEF IssueToken, At, Goes, Ends, With, StageInv, Stage, Field, Idle
<1>31. ASSUME NEW q \in Slot, RequestFails(q) PROVE StageInv'
  BY <1>31 DEF RequestFails, Goes, Ends, With, StageInv, Stage, Field, Idle
<1>32. ASSUME NEW q \in Slot, RequestEnds(q) PROVE StageInv'
  BY <1>32 DEF RequestEnds, StageInv
<1>33. CASE SetRepoVisibility
  BY <1>33 DEF SetRepoVisibility, Leaves, StageInv
<1>34. CASE CreateRepo
  BY <1>34 DEF CreateRepo, Leaves, StageInv
<1>35. CASE SlugMoves
  BY <1>35 DEF SlugMoves, Leaves, StageInv
<1>36. CASE Tick
  BY <1>36 DEF Tick, Leaves, StageInv
<1>37. ASSUME NEW u \in User, SignIn(u) PROVE StageInv'
  BY <1>37 DEF SignIn, Leaves, StageInv
<1>38. ASSUME NEW u \in User, SignOut(u) PROVE StageInv'
  BY <1>38 DEF SignOut, Leaves, StageInv
<1>39. ASSUME NEW w \in Workspace, DeleteWorkspace(w) PROVE StageInv'
  BY <1>39 DEF DeleteWorkspace, Leaves, StageInv
<1>40. ASSUME NEW w \in Workspace, RotateWorkspaceToken(w) PROVE StageInv'
  BY <1>40 DEF RotateWorkspaceToken, Leaves, StageInv
<1>41. CASE UNCHANGED vars
  BY <1>41 DEF vars, StageInv
<1> QED
  BY <1>1, <1>2, <1>3, <1>4, <1>5, <1>6, <1>7, <1>8, <1>9, <1>10, <1>11,
     <1>12, <1>13, <1>14, <1>15, <1>16, <1>17, <1>18, <1>19, <1>20, <1>21,
     <1>22, <1>23, <1>24, <1>25, <1>26, <1>27, <1>28, <1>29, <1>30, <1>31,
     <1>32, <1>33, <1>34, <1>35, <1>36, <1>37, <1>38, <1>39, <1>40, <1>41 DEF
     Next, Serve

\* Seats are users', and a token's user is the one it was issued for.
LEMMA WorldStep == IndInv /\ [Next]_vars => WorldInv'
<1> SUFFICES ASSUME IndInv, [Next]_vars PROVE WorldInv'
  OBVIOUS
<1> USE DEF IndInv
<1>1. ASSUME NEW q \in Slot, Arrive(q) PROVE WorldInv'
  BY <1>1 DEF Arrive, Leaves, WorldInv, world, past
<1>2. ASSUME NEW q \in Slot, RequireAuth(q) PROVE WorldInv'
  BY <1>2 DEF RequireAuth, Leaves, WorldInv, past
<1>3. ASSUME NEW q \in Slot, HandleMCP(q) PROVE WorldInv'
  BY <1>3 DEF HandleMCP, Restrict, Leaves, WorldInv, past
<1>4. ASSUME NEW q \in Slot, LoadRepo(q) PROVE WorldInv'
  BY <1>4 DEF LoadRepo, Leaves, WorldInv, world, past
<1>5. ASSUME NEW q \in Slot, AuthorizeReport(q) PROVE WorldInv'
  BY <1>5 DEF AuthorizeReport, Leaves, WorldInv, world, past
<1>6. ASSUME NEW q \in Slot, CredentialGrants(q) PROVE WorldInv'
  BY <1>6 DEF CredentialGrants, Leaves, WorldInv, world, past
<1>7. ASSUME NEW q \in Slot, OIDCGrantsRead(q) PROVE WorldInv'
  BY <1>7 DEF OIDCGrantsRead, Leaves, WorldInv, world, past
<1>8. ASSUME NEW q \in Slot, LoadReport(q) PROVE WorldInv'
  BY <1>8 DEF LoadReport, Leaves, WorldInv, world, past
<1>9. ASSUME NEW q \in Slot, ListWorkspaces(q) PROVE WorldInv'
  BY <1>9 DEF ListWorkspaces, Leaves, WorldInv, world, past
<1>10. ASSUME NEW q \in Slot, VisibleRepos(q) PROVE WorldInv'
  BY <1>10 DEF VisibleRepos, Leaves, WorldInv, world, past
<1>11. ASSUME NEW q \in Slot, OwnerRepo(q) PROVE WorldInv'
  BY <1>11 DEF OwnerRepo, Leaves, WorldInv, world, past
<1>12. ASSUME NEW q \in Slot, SaveSettings(q) PROVE WorldInv'
  BY <1>12 DEF SaveSettings, Leaves, WorldInv, past
<1>13. ASSUME NEW q \in Slot, RotateToken(q) PROVE WorldInv'
  BY <1>13 DEF RotateToken, Leaves, WorldInv
<1>14. ASSUME NEW q \in Slot, RevealToken(q) PROVE WorldInv'
  BY <1>14 DEF RevealToken, Leaves, WorldInv, world, past
<1>15. ASSUME NEW q \in Slot, DeleteRepo(q) PROVE WorldInv'
  BY <1>15 DEF DeleteRepo, Leaves, WorldInv, past
<1>16. ASSUME NEW q \in Slot, LoadWorkspace(q) PROVE WorldInv'
  BY <1>16 DEF LoadWorkspace, Leaves, WorldInv, world, past
<1>17. ASSUME NEW q \in Slot, OwnerWorkspace(q) PROVE WorldInv'
  BY <1>17 DEF OwnerWorkspace, Leaves, WorldInv, world, past
<1>18. ASSUME NEW q \in Slot, SaveWorkspace(q) PROVE WorldInv'
  BY <1>18 DEF SaveWorkspace, Leaves, WorldInv, past
<1>19. ASSUME NEW q \in Slot, RotateWorkspace(q) PROVE WorldInv'
  BY <1>19 DEF RotateWorkspace, Leaves, WorldInv
<1>20. ASSUME NEW q \in Slot, DropWorkspace(q) PROVE WorldInv'
  BY <1>20 DEF DropWorkspace, Drops, Leaves, WorldInv, past
<1>21. ASSUME NEW q \in Slot, LookupUploadToken(q) PROVE WorldInv'
  BY <1>21 DEF LookupUploadToken, Leaves, WorldInv, world, past
<1>22. ASSUME NEW q \in Slot, AuthOIDC(q) PROVE WorldInv'
  BY <1>22 DEF AuthOIDC, Leaves, WorldInv, world, past
<1>23. ASSUME NEW q \in Slot, ResolveUploadRepo(q) PROVE WorldInv'
  BY <1>23 DEF ResolveUploadRepo, Leaves, WorldInv, world, past
<1>24. ASSUME NEW q \in Slot, OIDCLookup(q) PROVE WorldInv'
  BY <1>24 DEF OIDCLookup, Leaves, WorldInv, world, past
<1>25. ASSUME NEW q \in Slot, GetRepoID(q) PROVE WorldInv'
  BY <1>25 DEF GetRepoID, Leaves, WorldInv, world, past
<1>26. ASSUME NEW q \in Slot, RegisterRepo(q) PROVE WorldInv'
  BY <1>26 DEF RegisterRepo, Leaves, WorldInv, past
<1>27. ASSUME NEW q \in Slot, HandleMCPRegister(q) PROVE WorldInv'
  BY <1>27 DEF HandleMCPRegister, Leaves, WorldInv, world, past
<1>28. ASSUME NEW q \in Slot, Approve(q) PROVE WorldInv'
  BY <1>28 DEF Approve, Leaves, WorldInv
<1>29. ASSUME NEW q \in Slot, ConsumeCode(q) PROVE WorldInv'
  BY <1>29 DEF ConsumeCode, Leaves, WorldInv
<1>30. ASSUME NEW q \in Slot, IssueToken(q) PROVE WorldInv'
  BY <1>30 DEF IssueToken, With, Leaves, WorldInv
<1>31. ASSUME NEW q \in Slot, RequestFails(q) PROVE WorldInv'
  BY <1>31 DEF RequestFails, Leaves, WorldInv, world, past
<1>32. ASSUME NEW q \in Slot, RequestEnds(q) PROVE WorldInv'
  BY <1>32 DEF RequestEnds, Leaves, WorldInv, world, past
<1>33. CASE SetRepoVisibility
  BY <1>33 DEF SetRepoVisibility, Leaves, WorldInv, past
<1>34. CASE CreateRepo
  BY <1>34 DEF CreateRepo, Leaves, WorldInv, past
<1>35. CASE SlugMoves
  BY <1>35 DEF SlugMoves, Leaves, WorldInv, past
<1>36. CASE Tick
  BY <1>36 DEF Tick, Leaves, WorldInv, past
<1>37. ASSUME NEW u \in User, SignIn(u) PROVE WorldInv'
  BY <1>37 DEF SignIn, Leaves, WorldInv, past
<1>38. ASSUME NEW u \in User, SignOut(u) PROVE WorldInv'
  BY <1>38 DEF SignOut, Leaves, WorldInv, past
<1>39. ASSUME NEW w \in Workspace, DeleteWorkspace(w) PROVE WorldInv'
  BY <1>39 DEF DeleteWorkspace, Drops, Leaves, WorldInv, past
<1>40. ASSUME NEW w \in Workspace, RotateWorkspaceToken(w) PROVE WorldInv'
  BY <1>40 DEF RotateWorkspaceToken, Leaves, WorldInv, past
<1>41. CASE UNCHANGED vars
  BY <1>41 DEF vars, WorldInv, world, past
<1> QED
  BY <1>1, <1>2, <1>3, <1>4, <1>5, <1>6, <1>7, <1>8, <1>9, <1>10, <1>11,
     <1>12, <1>13, <1>14, <1>15, <1>16, <1>17, <1>18, <1>19, <1>20, <1>21,
     <1>22, <1>23, <1>24, <1>25, <1>26, <1>27, <1>28, <1>29, <1>30, <1>31,
     <1>32, <1>33, <1>34, <1>35, <1>36, <1>37, <1>38, <1>39, <1>40, <1>41 DEF
     Next, Serve

\* Every request in flight sees the outcome of a step.
Grows ==
  \A q \in Slot : req'[q] # Idle =>
     chance[q] \subseteq chance'[q] /\ Truths(req[q].call)' \subseteq chance'[q]

\* A token is issued once, and the instance stays as it was set up.
IssuedGrows ==
  /\ instance' = instance
  /\ \A t \in DOMAIN issued : t \in DOMAIN issued' /\ issued'[t] = issued[t]

\* No step issues a token again, or changes the instance.
LEMMA IssuedStep == IndInv /\ [Next]_vars => IssuedGrows
<1> SUFFICES ASSUME IndInv, [Next]_vars PROVE IssuedGrows
  OBVIOUS
<1> USE DEF IndInv
<1>1. ASSUME NEW q \in Slot, Arrive(q) PROVE IssuedGrows
  BY <1>1 DEF Arrive, Leaves, IssuedGrows, world, past
<1>2. ASSUME NEW q \in Slot, RequireAuth(q) PROVE IssuedGrows
  BY <1>2 DEF RequireAuth, Leaves, IssuedGrows, past
<1>3. ASSUME NEW q \in Slot, HandleMCP(q) PROVE IssuedGrows
  BY <1>3 DEF HandleMCP, Leaves, IssuedGrows, past
<1>4. ASSUME NEW q \in Slot, LoadRepo(q) PROVE IssuedGrows
  BY <1>4 DEF LoadRepo, Leaves, IssuedGrows, world, past
<1>5. ASSUME NEW q \in Slot, AuthorizeReport(q) PROVE IssuedGrows
  BY <1>5 DEF AuthorizeReport, Leaves, IssuedGrows, world, past
<1>6. ASSUME NEW q \in Slot, CredentialGrants(q) PROVE IssuedGrows
  BY <1>6 DEF CredentialGrants, Leaves, IssuedGrows, world, past
<1>7. ASSUME NEW q \in Slot, OIDCGrantsRead(q) PROVE IssuedGrows
  BY <1>7 DEF OIDCGrantsRead, Leaves, IssuedGrows, world, past
<1>8. ASSUME NEW q \in Slot, LoadReport(q) PROVE IssuedGrows
  BY <1>8 DEF LoadReport, Leaves, IssuedGrows, world, past
<1>9. ASSUME NEW q \in Slot, ListWorkspaces(q) PROVE IssuedGrows
  BY <1>9 DEF ListWorkspaces, Leaves, IssuedGrows, world, past
<1>10. ASSUME NEW q \in Slot, VisibleRepos(q) PROVE IssuedGrows
  BY <1>10 DEF VisibleRepos, Leaves, IssuedGrows, world, past
<1>11. ASSUME NEW q \in Slot, OwnerRepo(q) PROVE IssuedGrows
  BY <1>11 DEF OwnerRepo, Leaves, IssuedGrows, world, past
<1>12. ASSUME NEW q \in Slot, SaveSettings(q) PROVE IssuedGrows
  BY <1>12 DEF SaveSettings, Leaves, IssuedGrows, past
<1>13. ASSUME NEW q \in Slot, RotateToken(q) PROVE IssuedGrows
  BY <1>13 DEF RotateToken, Leaves, IssuedGrows
<1>14. ASSUME NEW q \in Slot, RevealToken(q) PROVE IssuedGrows
  BY <1>14 DEF RevealToken, Leaves, IssuedGrows, world, past
<1>15. ASSUME NEW q \in Slot, DeleteRepo(q) PROVE IssuedGrows
  BY <1>15 DEF DeleteRepo, Leaves, IssuedGrows, past
<1>16. ASSUME NEW q \in Slot, LoadWorkspace(q) PROVE IssuedGrows
  BY <1>16 DEF LoadWorkspace, Leaves, IssuedGrows, world, past
<1>17. ASSUME NEW q \in Slot, OwnerWorkspace(q) PROVE IssuedGrows
  BY <1>17 DEF OwnerWorkspace, Leaves, IssuedGrows, world, past
<1>18. ASSUME NEW q \in Slot, SaveWorkspace(q) PROVE IssuedGrows
  BY <1>18 DEF SaveWorkspace, Leaves, IssuedGrows, past
<1>19. ASSUME NEW q \in Slot, RotateWorkspace(q) PROVE IssuedGrows
  BY <1>19 DEF RotateWorkspace, Leaves, IssuedGrows
<1>20. ASSUME NEW q \in Slot, DropWorkspace(q) PROVE IssuedGrows
  BY <1>20 DEF DropWorkspace, Leaves, IssuedGrows, past
<1>21. ASSUME NEW q \in Slot, LookupUploadToken(q) PROVE IssuedGrows
  BY <1>21 DEF LookupUploadToken, Leaves, IssuedGrows, world, past
<1>22. ASSUME NEW q \in Slot, AuthOIDC(q) PROVE IssuedGrows
  BY <1>22 DEF AuthOIDC, Leaves, IssuedGrows, world, past
<1>23. ASSUME NEW q \in Slot, ResolveUploadRepo(q) PROVE IssuedGrows
  BY <1>23 DEF ResolveUploadRepo, Leaves, IssuedGrows, world, past
<1>24. ASSUME NEW q \in Slot, OIDCLookup(q) PROVE IssuedGrows
  BY <1>24 DEF OIDCLookup, Leaves, IssuedGrows, world, past
<1>25. ASSUME NEW q \in Slot, GetRepoID(q) PROVE IssuedGrows
  BY <1>25 DEF GetRepoID, Leaves, IssuedGrows, world, past
<1>26. ASSUME NEW q \in Slot, RegisterRepo(q) PROVE IssuedGrows
  BY <1>26 DEF RegisterRepo, Leaves, IssuedGrows, past
<1>27. ASSUME NEW q \in Slot, HandleMCPRegister(q) PROVE IssuedGrows
  BY <1>27 DEF HandleMCPRegister, Leaves, IssuedGrows, world, past
<1>28. ASSUME NEW q \in Slot, Approve(q) PROVE IssuedGrows
  BY <1>28 DEF Approve, Leaves, IssuedGrows
<1>29. ASSUME NEW q \in Slot, ConsumeCode(q) PROVE IssuedGrows
  BY <1>29 DEF ConsumeCode, Leaves, IssuedGrows
<1>30. ASSUME NEW q \in Slot, IssueToken(q) PROVE IssuedGrows
  <2>1. \A t \in DOMAIN issued : t # fresh
    BY DEF CodeInv, FreshInv
  <2> QED BY <1>30, <2>1 DEF IssueToken, With, Leaves, IssuedGrows
<1>31. ASSUME NEW q \in Slot, RequestFails(q) PROVE IssuedGrows
  BY <1>31 DEF RequestFails, Leaves, IssuedGrows, world, past
<1>32. ASSUME NEW q \in Slot, RequestEnds(q) PROVE IssuedGrows
  BY <1>32 DEF RequestEnds, Leaves, IssuedGrows, world, past
<1>33. CASE SetRepoVisibility
  BY <1>33 DEF SetRepoVisibility, Leaves, IssuedGrows, past
<1>34. CASE CreateRepo
  BY <1>34 DEF CreateRepo, Leaves, IssuedGrows, past
<1>35. CASE SlugMoves
  BY <1>35 DEF SlugMoves, Leaves, IssuedGrows, past
<1>36. CASE Tick
  BY <1>36 DEF Tick, Leaves, IssuedGrows, past
<1>37. ASSUME NEW u \in User, SignIn(u) PROVE IssuedGrows
  BY <1>37 DEF SignIn, Leaves, IssuedGrows, past
<1>38. ASSUME NEW u \in User, SignOut(u) PROVE IssuedGrows
  BY <1>38 DEF SignOut, Leaves, IssuedGrows, past
<1>39. ASSUME NEW w \in Workspace, DeleteWorkspace(w) PROVE IssuedGrows
  BY <1>39 DEF DeleteWorkspace, Leaves, IssuedGrows, past
<1>40. ASSUME NEW w \in Workspace, RotateWorkspaceToken(w) PROVE IssuedGrows
  BY <1>40 DEF RotateWorkspaceToken, Leaves, IssuedGrows, past
<1>41. CASE UNCHANGED vars
  BY <1>41 DEF vars, IssuedGrows, world, past
<1> QED
  BY <1>1, <1>2, <1>3, <1>4, <1>5, <1>6, <1>7, <1>8, <1>9, <1>10, <1>11,
     <1>12, <1>13, <1>14, <1>15, <1>16, <1>17, <1>18, <1>19, <1>20, <1>21,
     <1>22, <1>23, <1>24, <1>25, <1>26, <1>27, <1>28, <1>29, <1>30, <1>31,
     <1>32, <1>33, <1>34, <1>35, <1>36, <1>37, <1>38, <1>39, <1>40, <1>41 DEF
     Next, Serve

\* Whoever asks stays who asks.
LEMMA WhoStays ==
  ASSUME IndInv, [Next]_vars, NEW p \in Slot, req'[p].call = req[p].call,
         req[p].call.kind = "tool" => req[p].call.cred \in DOMAIN issued
  PROVE  Who(req[p].call)' = Who(req[p].call)
BY IssuedStep DEF IssuedGrows, Who

\* What was true at some moment of a request, it has seen.
LEMMA ChanceGrows == IndInv /\ [Next]_vars => Grows
<1> SUFFICES ASSUME IndInv, [Next]_vars PROVE Grows
  OBVIOUS
<1> USE DEF IndInv
<1>1. ASSUME NEW q \in Slot, Arrive(q) PROVE Grows
  BY <1>1 DEF Arrive, Leaves, Grows
<1>2. ASSUME NEW q \in Slot, RequireAuth(q) PROVE Grows
  BY <1>2 DEF RequireAuth, Leaves, Grows
<1>3. ASSUME NEW q \in Slot, HandleMCP(q) PROVE Grows
  BY <1>3 DEF HandleMCP, Leaves, Grows
<1>4. ASSUME NEW q \in Slot, LoadRepo(q) PROVE Grows
  BY <1>4 DEF LoadRepo, Leaves, Grows
<1>5. ASSUME NEW q \in Slot, AuthorizeReport(q) PROVE Grows
  BY <1>5 DEF AuthorizeReport, Leaves, Grows
<1>6. ASSUME NEW q \in Slot, CredentialGrants(q) PROVE Grows
  BY <1>6 DEF CredentialGrants, Leaves, Grows
<1>7. ASSUME NEW q \in Slot, OIDCGrantsRead(q) PROVE Grows
  BY <1>7 DEF OIDCGrantsRead, Leaves, Grows
<1>8. ASSUME NEW q \in Slot, LoadReport(q) PROVE Grows
  BY <1>8 DEF LoadReport, Leaves, Grows
<1>9. ASSUME NEW q \in Slot, ListWorkspaces(q) PROVE Grows
  BY <1>9 DEF ListWorkspaces, Leaves, Grows
<1>10. ASSUME NEW q \in Slot, VisibleRepos(q) PROVE Grows
  BY <1>10 DEF VisibleRepos, Leaves, Grows
<1>11. ASSUME NEW q \in Slot, OwnerRepo(q) PROVE Grows
  BY <1>11 DEF OwnerRepo, Leaves, Grows
<1>12. ASSUME NEW q \in Slot, SaveSettings(q) PROVE Grows
  BY <1>12 DEF SaveSettings, Leaves, Grows
<1>13. ASSUME NEW q \in Slot, RotateToken(q) PROVE Grows
  BY <1>13 DEF RotateToken, Leaves, Grows
<1>14. ASSUME NEW q \in Slot, RevealToken(q) PROVE Grows
  BY <1>14 DEF RevealToken, Leaves, Grows
<1>15. ASSUME NEW q \in Slot, DeleteRepo(q) PROVE Grows
  BY <1>15 DEF DeleteRepo, Leaves, Grows
<1>16. ASSUME NEW q \in Slot, LoadWorkspace(q) PROVE Grows
  BY <1>16 DEF LoadWorkspace, Leaves, Grows
<1>17. ASSUME NEW q \in Slot, OwnerWorkspace(q) PROVE Grows
  BY <1>17 DEF OwnerWorkspace, Leaves, Grows
<1>18. ASSUME NEW q \in Slot, SaveWorkspace(q) PROVE Grows
  BY <1>18 DEF SaveWorkspace, Leaves, Grows
<1>19. ASSUME NEW q \in Slot, RotateWorkspace(q) PROVE Grows
  BY <1>19 DEF RotateWorkspace, Leaves, Grows
<1>20. ASSUME NEW q \in Slot, DropWorkspace(q) PROVE Grows
  BY <1>20 DEF DropWorkspace, Leaves, Grows
<1>21. ASSUME NEW q \in Slot, LookupUploadToken(q) PROVE Grows
  BY <1>21 DEF LookupUploadToken, Leaves, Grows
<1>22. ASSUME NEW q \in Slot, AuthOIDC(q) PROVE Grows
  BY <1>22 DEF AuthOIDC, Leaves, Grows
<1>23. ASSUME NEW q \in Slot, ResolveUploadRepo(q) PROVE Grows
  BY <1>23 DEF ResolveUploadRepo, Leaves, Grows
<1>24. ASSUME NEW q \in Slot, OIDCLookup(q) PROVE Grows
  BY <1>24 DEF OIDCLookup, Leaves, Grows
<1>25. ASSUME NEW q \in Slot, GetRepoID(q) PROVE Grows
  BY <1>25 DEF GetRepoID, Leaves, Grows
<1>26. ASSUME NEW q \in Slot, RegisterRepo(q) PROVE Grows
  BY <1>26 DEF RegisterRepo, Leaves, Grows
<1>27. ASSUME NEW q \in Slot, HandleMCPRegister(q) PROVE Grows
  BY <1>27 DEF HandleMCPRegister, Leaves, Grows
<1>28. ASSUME NEW q \in Slot, Approve(q) PROVE Grows
  BY <1>28 DEF Approve, Leaves, Grows
<1>29. ASSUME NEW q \in Slot, ConsumeCode(q) PROVE Grows
  BY <1>29 DEF ConsumeCode, Leaves, Grows
<1>30. ASSUME NEW q \in Slot, IssueToken(q) PROVE Grows
  BY <1>30 DEF IssueToken, Leaves, Grows
<1>31. ASSUME NEW q \in Slot, RequestFails(q) PROVE Grows
  BY <1>31 DEF RequestFails, Leaves, Grows
<1>32. ASSUME NEW q \in Slot, RequestEnds(q) PROVE Grows
  BY <1>32 DEF RequestEnds, Leaves, Grows
<1>33. CASE SetRepoVisibility
  BY <1>33 DEF SetRepoVisibility, Leaves, Grows
<1>34. CASE CreateRepo
  BY <1>34 DEF CreateRepo, Leaves, Grows
<1>35. CASE SlugMoves
  BY <1>35 DEF SlugMoves, Leaves, Grows
<1>36. CASE Tick
  BY <1>36 DEF Tick, Leaves, Grows
<1>37. ASSUME NEW u \in User, SignIn(u) PROVE Grows
  BY <1>37 DEF SignIn, Leaves, Grows
<1>38. ASSUME NEW u \in User, SignOut(u) PROVE Grows
  BY <1>38 DEF SignOut, Leaves, Grows
<1>39. ASSUME NEW w \in Workspace, DeleteWorkspace(w) PROVE Grows
  BY <1>39 DEF DeleteWorkspace, Leaves, Grows
<1>40. ASSUME NEW w \in Workspace, RotateWorkspaceToken(w) PROVE Grows
  BY <1>40 DEF RotateWorkspaceToken, Leaves, Grows
<1>41. CASE UNCHANGED vars
  <2>1. \A q \in Slot : Truths(req[q].call)' = Truths(req[q].call)
    BY <1>41 DEF vars, world, past, Truths, Who, servesPublicly
  <2> QED BY <1>41, <2>1 DEF vars, Grows, SignedInv, Signed
<1> QED
  BY <1>1, <1>2, <1>3, <1>4, <1>5, <1>6, <1>7, <1>8, <1>9, <1>10, <1>11,
     <1>12, <1>13, <1>14, <1>15, <1>16, <1>17, <1>18, <1>19, <1>20, <1>21,
     <1>22, <1>23, <1>24, <1>25, <1>26, <1>27, <1>28, <1>29, <1>30, <1>31,
     <1>32, <1>33, <1>34, <1>35, <1>36, <1>37, <1>38, <1>39, <1>40, <1>41 DEF
     Next, Serve

-----------------------------------------------------------------------------
(* What is true of a call, truth by truth. *)

Live(c) ==
  IF c.kind = "tool" THEN c.cred \in DOMAIN tokens /\ tokens[c.cred].expires > now
  ELSE Who(c) # Nobody /\ session[Who(c)] > now
Above(c) == IF c.kind = "workspace" THEN {c.workspace} ELSE Range(Owning)
Seated(c, role) ==
  \E s \in seats : s.user = Who(c) /\ s.role \in role /\ s.workspace \in Above(c)
IsKey(c) ==
  /\ c.kind \in {"api", "upload"}
  /\ \/ c.oidc = "slug"
     \/ c.oidc = "id" /\ c.forgeId = slugIs
     \/ repo.id # 0 /\ c.cred = repo.token
     \/ \E w \in Range(Owning) \cap DOMAIN wsToken : c.cred = wsToken[w]

LEMMA TruthsAre ==
  ASSUME NEW c
  PROVE  /\ Live(c) => "live" \in Truths(c)
         /\ Seated(c, {"owner", "member"}) => "seat" \in Truths(c)
         /\ Seated(c, {"owner"}) => "owner" \in Truths(c)
         /\ servesPublicly(repo) => "public" \in Truths(c)
         /\ IsKey(c) => "key" \in Truths(c)
<1> DEFINE truth ==
      [live |-> Live(c), seat |-> Seated(c, {"owner", "member"}),
       owner |-> Seated(c, {"owner"}), public |-> servesPublicly(repo), key |-> IsKey(c)]
<1>1. Truths(c) = {t \in DOMAIN truth : truth[t]}
  BY DEF Truths, Live, Above, Seated, IsKey
<1> QED BY <1>1

-----------------------------------------------------------------------------
(* Who asks. *)

\* A request goes on as whom it was, or is refused.
KeepsWho(p) ==
  /\ req[p] # Idle /\ req'[p].call = req[p].call /\ req'[p].user = req[p].user
  /\ \/ req[p].call.kind = "page"
     \/ req'[p].pc \notin Unknown => req[p].pc \notin Unknown

LEMMA KeepsSigned ==
  ASSUME IndInv, [Next]_vars, NEW p \in Slot, req'[p] # Idle, KeepsWho(p)
  PROVE  Signed(p)'
<1> DEFINE c == req[p].call
<1>1. Signed(p)
  BY DEF IndInv, SignedInv, KeepsWho
<1>2. chance[p] \subseteq chance'[p] /\ Truths(req[p].call)' \subseteq chance'[p]
  BY ChanceGrows DEF Grows
<1>3. c.kind = "tool" => c.cred \in DOMAIN issued \/ req'[p].pc \in Unknown
  BY <1>1 DEF Signed, KeepsWho
<1>4. c.kind # "tool" \/ c.cred \in DOMAIN issued => Who(c)' = Who(c)
  BY WhoStays DEF KeepsWho
<1>5. DOMAIN issued \subseteq DOMAIN issued'
  BY IssuedStep DEF IssuedGrows
<1> QED BY <1>1, <1>2, <1>3, <1>4, <1>5 DEF Signed, KeepsWho

\* Every step keeps who asks.
LEMMA SignedStep == IndInv /\ [Next]_vars => SignedInv'
<1> SUFFICES ASSUME IndInv, [Next]_vars PROVE SignedInv'
  OBVIOUS
<1> USE DEF IndInv
<1>1. ASSUME NEW q \in Slot, Arrive(q) PROVE SignedInv'
  <2>1. \A p \in Slot \ {q} : req'[p] # Idle => KeepsWho(p)
    BY <1>1 DEF Arrive, KeepsWho
  <2>2. req'[q] # Idle => chance[q] \subseteq chance'[q] /\ Truths(req[q].call)' \subseteq chance'[q]
    BY ChanceGrows DEF Grows
  <2>3. PICK c \in instance.calls :
           req' = [req EXCEPT ![q] =
                     [call |-> c, pc |-> FirstStep[c.kind], user |-> Nobody,
                      row |-> NoRepo, spaces |-> {}, at |-> 0]]
    BY <1>1 DEF Arrive
  <2>4. c.kind \in DOMAIN FirstStep
    BY CallAssumption DEF WorldInv
  <2>5. c.kind \in {"dashboard", "settings", "workspace", "tool"} =>
           FirstStep[c.kind] \in Unknown
    BY <2>4 DEF FirstStep, Unknown
  <2>6. /\ req'[q].call = c /\ req'[q].pc = FirstStep[c.kind]
        /\ req'[q].user = Nobody
    BY <2>3 DEF StageInv
  <2>9. req'[q] # Idle => Signed(q)'
    BY <2>2, <2>5, <2>6 DEF Signed
  <2> QED BY <2>1, <2>9, KeepsSigned DEF SignedInv
<1>2. ASSUME NEW q \in Slot, RequireAuth(q) PROVE SignedInv'
  <2>1. \A p \in Slot \ {q} : req'[p] # Idle => KeepsWho(p)
    BY <1>2 DEF RequireAuth, Goes, Ends, KeepsWho, StageInv
  <2>2. req'[q] # Idle => chance[q] \subseteq chance'[q] /\ Truths(req[q].call)' \subseteq chance'[q]
    BY ChanceGrows DEF Grows
  <2> DEFINE c == req[q].call
             live == c.cred # Nobody /\ session[c.cred] > now
  <2>3. /\ req[q] # Idle /\ req[q].pc = "session" /\ Signed(q)
        /\ c.kind \in {"page", "dashboard", "settings", "workspace", "approve"}
    BY <1>2 DEF RequireAuth, At, Idle, SignedInv, StageInv, Stage
  <2>4. CASE ~ live
    <3>1. KeepsWho(q)
      <4>1. \/ Goes(q, [pc |-> "repo"]) /\ c.kind = "page"
            \/ Goes(q, [pc |-> "refused"])
        BY <1>2, <2>3, <2>4 DEF RequireAuth, Ends
      <4> QED
        BY <2>3, <4>1 DEF Goes, With, KeepsWho, StageInv, Field, Unknown
    <3> QED BY <2>1, <3>1, KeepsSigned DEF SignedInv
  <2>5. CASE live
    <3>1. req'[q].call = c /\ req'[q].user = c.cred
      BY <1>2, <2>3, <2>5 DEF RequireAuth, Goes, With, StageInv, Field
    <3>2. Who(c) = c.cred /\ Who(c)' = c.cred
      BY <2>3, <3>1 DEF Who
    <3>3. "live" \in chance[q]
      BY <2>3, <2>5, <3>2, TruthsAre DEF Live, Signed
    <3>9. req'[q] # Idle => Signed(q)'
      BY <2>2, <2>3, <3>1, <3>2, <3>3 DEF Signed
    <3> QED BY <2>1, <3>9, KeepsSigned DEF SignedInv
  <2> QED BY <2>4, <2>5
<1>3. ASSUME NEW q \in Slot, HandleMCP(q) PROVE SignedInv'
  <2>1. \A p \in Slot \ {q} : req'[p] # Idle => KeepsWho(p)
    BY <1>3 DEF HandleMCP, Goes, Ends, KeepsWho, StageInv
  <2>2. req'[q] # Idle => chance[q] \subseteq chance'[q] /\ Truths(req[q].call)' \subseteq chance'[q]
    BY ChanceGrows DEF Grows
  <2> DEFINE c == req[q].call
             t == c.cred
             live == t \in DOMAIN tokens /\ tokens[t].expires > now
  <2>3. /\ req[q] # Idle /\ req[q].pc = "token" /\ Signed(q)
        /\ c.kind = "tool"
    BY <1>3 DEF HandleMCP, At, Idle, SignedInv, StageInv, Stage
  <2>4. CASE ~ live
    <3>1. KeepsWho(q)
      BY <1>3, <2>3, <2>4 DEF HandleMCP, Goes, Ends, With, KeepsWho, StageInv,
         Field, Unknown
    <3> QED BY <2>1, <3>1, KeepsSigned DEF SignedInv
  <2>5. CASE live
    <3>1. req'[q].call = c /\ req'[q].user = tokens[t].user
      BY <1>3, <2>3, <2>5 DEF HandleMCP, Goes, With, StageInv, Field
    <3>2. t \in DOMAIN issued /\ tokens[t].user = issued[t].user
      BY <2>5 DEF WorldInv
    <3>3. t \in DOMAIN issued' /\ Who(c)' = tokens[t].user
      BY <2>3, <3>1, <3>2, IssuedStep DEF Who, IssuedGrows
    <3>4. "live" \in chance[q]
      BY <2>3, <2>5, TruthsAre DEF Live, Signed
    <3>9. req'[q] # Idle => Signed(q)'
      BY <2>2, <2>3, <3>1, <3>3, <3>4 DEF Signed
    <3> QED BY <2>1, <3>9, KeepsSigned DEF SignedInv
  <2> QED BY <2>4, <2>5
<1>4. ASSUME NEW q \in Slot, LoadRepo(q) PROVE SignedInv'
  <2>1. \A p \in Slot : req'[p] # Idle => KeepsWho(p)
    BY <1>4 DEF LoadRepo, At, Goes, Ends, With, KeepsWho, StageInv, Field,
       Unknown, Idle
  <2> QED BY <2>1, KeepsSigned DEF SignedInv
<1>5. ASSUME NEW q \in Slot, AuthorizeReport(q) PROVE SignedInv'
  <2>1. \A p \in Slot : req'[p] # Idle => KeepsWho(p)
    BY <1>5 DEF AuthorizeReport, At, Goes, Ends, With, KeepsWho, StageInv,
       Field, Unknown, Idle
  <2> QED BY <2>1, KeepsSigned DEF SignedInv
<1>6. ASSUME NEW q \in Slot, CredentialGrants(q) PROVE SignedInv'
  <2>1. \A p \in Slot : req'[p] # Idle => KeepsWho(p)
    BY <1>6 DEF CredentialGrants, At, Goes, Ends, With, KeepsWho, StageInv,
       Field, Unknown, Idle
  <2> QED BY <2>1, KeepsSigned DEF SignedInv
<1>7. ASSUME NEW q \in Slot, OIDCGrantsRead(q) PROVE SignedInv'
  <2>1. \A p \in Slot : req'[p] # Idle => KeepsWho(p)
    BY <1>7 DEF OIDCGrantsRead, At, Goes, Ends, With, KeepsWho, StageInv,
       Field, Unknown, Idle
  <2> QED BY <2>1, KeepsSigned DEF SignedInv
<1>8. ASSUME NEW q \in Slot, LoadReport(q) PROVE SignedInv'
  <2>1. \A p \in Slot : req'[p] # Idle => KeepsWho(p)
    BY <1>8 DEF LoadReport, At, Goes, Ends, With, KeepsWho, StageInv, Field,
       Unknown, Idle
  <2> QED BY <2>1, KeepsSigned DEF SignedInv
<1>9. ASSUME NEW q \in Slot, ListWorkspaces(q) PROVE SignedInv'
  <2>1. \A p \in Slot : req'[p] # Idle => KeepsWho(p)
    BY <1>9 DEF ListWorkspaces, At, Goes, Ends, With, KeepsWho, StageInv,
       Field, Unknown, Idle
  <2> QED BY <2>1, KeepsSigned DEF SignedInv
<1>10. ASSUME NEW q \in Slot, VisibleRepos(q) PROVE SignedInv'
  <2>1. \A p \in Slot : req'[p] # Idle => KeepsWho(p)
    BY <1>10 DEF VisibleRepos, At, Goes, Ends, With, KeepsWho, StageInv,
       Field, Unknown, Idle
  <2> QED BY <2>1, KeepsSigned DEF SignedInv
<1>11. ASSUME NEW q \in Slot, OwnerRepo(q) PROVE SignedInv'
  <2>1. \A p \in Slot : req'[p] # Idle => KeepsWho(p)
    BY <1>11 DEF OwnerRepo, At, Goes, Ends, With, KeepsWho, StageInv, Field,
       Unknown, Idle
  <2> QED BY <2>1, KeepsSigned DEF SignedInv
<1>12. ASSUME NEW q \in Slot, SaveSettings(q) PROVE SignedInv'
  <2>1. \A p \in Slot : req'[p] # Idle => KeepsWho(p)
    BY <1>12 DEF SaveSettings, Saved, At, Goes, Ends, With, KeepsWho,
       StageInv, Field, Unknown, Idle
  <2> QED BY <2>1, KeepsSigned DEF SignedInv
<1>13. ASSUME NEW q \in Slot, RotateToken(q) PROVE SignedInv'
  <2>1. \A p \in Slot : req'[p] # Idle => KeepsWho(p)
    BY <1>13 DEF RotateToken, Saved, At, Goes, Ends, With, KeepsWho, StageInv,
       Field, Unknown, Idle
  <2> QED BY <2>1, KeepsSigned DEF SignedInv
<1>14. ASSUME NEW q \in Slot, RevealToken(q) PROVE SignedInv'
  <2>1. \A p \in Slot : req'[p] # Idle => KeepsWho(p)
    BY <1>14 DEF RevealToken, At, Goes, Ends, With, KeepsWho, StageInv, Field,
       Unknown, Idle
  <2> QED BY <2>1, KeepsSigned DEF SignedInv
<1>15. ASSUME NEW q \in Slot, DeleteRepo(q) PROVE SignedInv'
  <2>1. \A p \in Slot : req'[p] # Idle => KeepsWho(p)
    BY <1>15 DEF DeleteRepo, At, Goes, Ends, With, KeepsWho, StageInv, Field,
       Unknown, Idle
  <2> QED BY <2>1, KeepsSigned DEF SignedInv
<1>16. ASSUME NEW q \in Slot, LoadWorkspace(q) PROVE SignedInv'
  <2>1. \A p \in Slot : req'[p] # Idle => KeepsWho(p)
    BY <1>16 DEF LoadWorkspace, At, Goes, Ends, With, KeepsWho, StageInv,
       Field, Unknown, Idle
  <2> QED BY <2>1, KeepsSigned DEF SignedInv
<1>17. ASSUME NEW q \in Slot, OwnerWorkspace(q) PROVE SignedInv'
  <2>1. \A p \in Slot : req'[p] # Idle => KeepsWho(p)
    BY <1>17 DEF OwnerWorkspace, At, Goes, Ends, With, KeepsWho, StageInv,
       Field, Unknown, Idle
  <2> QED BY <2>1, KeepsSigned DEF SignedInv
<1>18. ASSUME NEW q \in Slot, SaveWorkspace(q) PROVE SignedInv'
  <2>1. \A p \in Slot : req'[p] # Idle => KeepsWho(p)
    BY <1>18 DEF SaveWorkspace, SavedWorkspace, At, Goes, Ends, With,
       KeepsWho, StageInv, Field, Unknown, Idle
  <2> QED BY <2>1, KeepsSigned DEF SignedInv
<1>19. ASSUME NEW q \in Slot, RotateWorkspace(q) PROVE SignedInv'
  <2>1. \A p \in Slot : req'[p] # Idle => KeepsWho(p)
    BY <1>19 DEF RotateWorkspace, SavedWorkspace, At, Goes, Ends, With,
       KeepsWho, StageInv, Field, Unknown, Idle
  <2> QED BY <2>1, KeepsSigned DEF SignedInv
<1>20. ASSUME NEW q \in Slot, DropWorkspace(q) PROVE SignedInv'
  <2>1. \A p \in Slot : req'[p] # Idle => KeepsWho(p)
    BY <1>20 DEF DropWorkspace, At, Goes, Ends, With, KeepsWho, StageInv,
       Field, Unknown, Idle
  <2> QED BY <2>1, KeepsSigned DEF SignedInv
<1>21. ASSUME NEW q \in Slot, LookupUploadToken(q) PROVE SignedInv'
  <2>1. \A p \in Slot : req'[p] # Idle => KeepsWho(p)
    BY <1>21 DEF LookupUploadToken, At, Goes, Ends, With, KeepsWho, StageInv,
       Field, Unknown, Idle
  <2> QED BY <2>1, KeepsSigned DEF SignedInv
<1>22. ASSUME NEW q \in Slot, AuthOIDC(q) PROVE SignedInv'
  <2>1. \A p \in Slot : req'[p] # Idle => KeepsWho(p)
    BY <1>22 DEF AuthOIDC, At, Goes, Ends, With, KeepsWho, StageInv, Field,
       Unknown, Idle
  <2> QED BY <2>1, KeepsSigned DEF SignedInv
<1>23. ASSUME NEW q \in Slot, ResolveUploadRepo(q) PROVE SignedInv'
  <2>1. \A p \in Slot : req'[p] # Idle => KeepsWho(p)
    BY <1>23 DEF ResolveUploadRepo, At, Goes, Ends, With, KeepsWho, StageInv,
       Field, Unknown, Idle
  <2> QED BY <2>1, KeepsSigned DEF SignedInv
<1>24. ASSUME NEW q \in Slot, OIDCLookup(q) PROVE SignedInv'
  <2>1. \A p \in Slot : req'[p] # Idle => KeepsWho(p)
    BY <1>24 DEF OIDCLookup, Resolved, At, Goes, Ends, With, KeepsWho,
       StageInv, Field, Unknown, Idle
  <2> QED BY <2>1, KeepsSigned DEF SignedInv
<1>25. ASSUME NEW q \in Slot, GetRepoID(q) PROVE SignedInv'
  <2>1. \A p \in Slot : req'[p] # Idle => KeepsWho(p)
    BY <1>25 DEF GetRepoID, Resolved, At, Goes, Ends, With, KeepsWho,
       StageInv, Field, Unknown, Idle
  <2> QED BY <2>1, KeepsSigned DEF SignedInv
<1>26. ASSUME NEW q \in Slot, RegisterRepo(q) PROVE SignedInv'
  <2>1. \A p \in Slot : req'[p] # Idle => KeepsWho(p)
    BY <1>26 DEF RegisterRepo, At, Goes, Ends, With, KeepsWho, StageInv,
       Field, Unknown, Idle
  <2> QED BY <2>1, KeepsSigned DEF SignedInv
<1>27. ASSUME NEW q \in Slot, HandleMCPRegister(q) PROVE SignedInv'
  <2>1. \A p \in Slot : req'[p] # Idle => KeepsWho(p)
    BY <1>27 DEF HandleMCPRegister, At, Goes, Ends, With, KeepsWho, StageInv,
       Field, Unknown, Idle
  <2> QED BY <2>1, KeepsSigned DEF SignedInv
<1>28. ASSUME NEW q \in Slot, Approve(q) PROVE SignedInv'
  <2>1. \A p \in Slot : req'[p] # Idle => KeepsWho(p)
    BY <1>28 DEF Approve, At, Goes, Ends, With, KeepsWho, StageInv, Field,
       Unknown, Idle
  <2> QED BY <2>1, KeepsSigned DEF SignedInv
<1>29. ASSUME NEW q \in Slot, ConsumeCode(q) PROVE SignedInv'
  <2>1. \A p \in Slot \ {q} : req'[p] # Idle => KeepsWho(p)
    BY <1>29 DEF ConsumeCode, Goes, Ends, KeepsWho, StageInv
  <2>2. req'[q] # Idle => chance[q] \subseteq chance'[q] /\ Truths(req[q].call)' \subseteq chance'[q]
    BY ChanceGrows DEF Grows
  <2>3. req[q] # Idle /\ req[q].call.kind = "exchange"
    BY <1>29 DEF ConsumeCode, At, Idle, StageInv, Stage
  <2>4. req'[q].call = req[q].call
    BY <1>29, <2>3 DEF ConsumeCode, Goes, Ends, With, StageInv, Field
  <2>9. req'[q] # Idle => Signed(q)'
    BY <2>2, <2>3, <2>4 DEF Signed
  <2> QED BY <2>1, <2>9, KeepsSigned DEF SignedInv
<1>30. ASSUME NEW q \in Slot, IssueToken(q) PROVE SignedInv'
  <2>1. \A p \in Slot : req'[p] # Idle => KeepsWho(p)
    BY <1>30 DEF IssueToken, At, Goes, Ends, With, KeepsWho, StageInv, Field,
       Unknown, Idle
  <2> QED BY <2>1, KeepsSigned DEF SignedInv
<1>31. ASSUME NEW q \in Slot, RequestFails(q) PROVE SignedInv'
  <2>1. \A p \in Slot : req'[p] # Idle => KeepsWho(p)
    BY <1>31 DEF RequestFails, Goes, Ends, With, KeepsWho, StageInv, Field,
       Unknown, Idle
  <2> QED BY <2>1, KeepsSigned DEF SignedInv
<1>32. ASSUME NEW q \in Slot, RequestEnds(q) PROVE SignedInv'
  <2>1. \A p \in Slot : req'[p] # Idle => KeepsWho(p)
    BY <1>32 DEF RequestEnds, KeepsWho
  <2> QED BY <2>1, KeepsSigned DEF SignedInv
<1>33. CASE SetRepoVisibility
  <2>1. \A p \in Slot : req'[p] # Idle => KeepsWho(p)
    BY <1>33 DEF SetRepoVisibility, Leaves, KeepsWho
  <2> QED BY <2>1, KeepsSigned DEF SignedInv
<1>34. CASE CreateRepo
  <2>1. \A p \in Slot : req'[p] # Idle => KeepsWho(p)
    BY <1>34 DEF CreateRepo, Leaves, KeepsWho
  <2> QED BY <2>1, KeepsSigned DEF SignedInv
<1>35. CASE SlugMoves
  <2>1. \A p \in Slot : req'[p] # Idle => KeepsWho(p)
    BY <1>35 DEF SlugMoves, Leaves, KeepsWho
  <2> QED BY <2>1, KeepsSigned DEF SignedInv
<1>36. CASE Tick
  <2>1. \A p \in Slot : req'[p] # Idle => KeepsWho(p)
    BY <1>36 DEF Tick, Leaves, KeepsWho
  <2> QED BY <2>1, KeepsSigned DEF SignedInv
<1>37. ASSUME NEW u \in User, SignIn(u) PROVE SignedInv'
  <2>1. \A p \in Slot : req'[p] # Idle => KeepsWho(p)
    BY <1>37 DEF SignIn, Leaves, KeepsWho
  <2> QED BY <2>1, KeepsSigned DEF SignedInv
<1>38. ASSUME NEW u \in User, SignOut(u) PROVE SignedInv'
  <2>1. \A p \in Slot : req'[p] # Idle => KeepsWho(p)
    BY <1>38 DEF SignOut, Leaves, KeepsWho
  <2> QED BY <2>1, KeepsSigned DEF SignedInv
<1>39. ASSUME NEW w \in Workspace, DeleteWorkspace(w) PROVE SignedInv'
  <2>1. \A p \in Slot : req'[p] # Idle => KeepsWho(p)
    BY <1>39 DEF DeleteWorkspace, Leaves, KeepsWho
  <2> QED BY <2>1, KeepsSigned DEF SignedInv
<1>40. ASSUME NEW w \in Workspace, RotateWorkspaceToken(w) PROVE SignedInv'
  <2>1. \A p \in Slot : req'[p] # Idle => KeepsWho(p)
    BY <1>40 DEF RotateWorkspaceToken, Leaves, KeepsWho
  <2> QED BY <2>1, KeepsSigned DEF SignedInv
<1>41. CASE UNCHANGED vars
  <2>1. \A p \in Slot : req'[p] # Idle => KeepsWho(p)
    BY <1>41 DEF vars, KeepsWho
  <2> QED BY <2>1, KeepsSigned DEF SignedInv
<1> QED
  BY <1>1, <1>2, <1>3, <1>4, <1>5, <1>6, <1>7, <1>8, <1>9, <1>10, <1>11,
     <1>12, <1>13, <1>14, <1>15, <1>16, <1>17, <1>18, <1>19, <1>20, <1>21,
     <1>22, <1>23, <1>24, <1>25, <1>26, <1>27, <1>28, <1>29, <1>30, <1>31,
     <1>32, <1>33, <1>34, <1>35, <1>36, <1>37, <1>38, <1>39, <1>40, <1>41 DEF
     Next, Serve

-----------------------------------------------------------------------------
(* What a request has been let past. *)

\* A request has seen what is true now.
LEMMA SeesTruths ==
  ASSUME IndInv, NEW q \in Slot, req[q] # Idle
  PROVE  LET c == req[q].call
         IN  /\ Seated(c, {"owner", "member"}) => "seat" \in chance[q]
             /\ Seated(c, {"owner"}) => "owner" \in chance[q]
             /\ servesPublicly(repo) => "public" \in chance[q]
             /\ IsKey(c) => "key" \in chance[q]
BY TruthsAre DEF IndInv, SignedInv, Signed

\* A request that waits loses nothing.
LEMMA KeepsPast ==
  ASSUME IndInv, [Next]_vars, NEW p \in Slot, req'[p] # Idle, req'[p] = req[p]
  PROVE  LetPast(p)'
<1>1. LetPast(p) /\ chance[p] \subseteq chance'[p]
  BY ChanceGrows DEF IndInv, LetPastInv, Grows
<1>2. instance' = instance
  BY IssuedStep DEF IssuedGrows
<1>3. Entitled(p) => Entitled(p)'
  BY <1>1 DEF Entitled
<1> QED BY <1>1, <1>2, <1>3 DEF LetPast, At, servesPublicly

\* One that is over, or has only begun, claims nothing unless it is served.
LEMMA ClaimsNothing ==
  ASSUME NEW q \in Slot,
         req'[q].pc \in {"session", "token", "repo", "credential", "client", "consume",
                         "spaces", "workspace", "member", "code", "issue", "refused"}
  PROVE  LetPast(q)'
BY DEF LetPast, At

\* Nor does one of a kind that is not checked.
LEMMA ClaimsNothingServed ==
  ASSUME NEW q \in Slot, req'[q].pc = "served",
         req'[q].call.kind \in {"approve", "register", "exchange"}
  PROVE  LetPast(q)'
BY DEF LetPast, At, Entitled

\* An owner's change is an owner's when it is made.
LEMMA WriteServed ==
  ASSUME IndInv, [Next]_vars, NEW q \in Slot, At(q, "write"), req[q].call.asks # "view",
         req'[q].pc \in Done, req'[q].call = req[q].call
  PROVE  LetPast(q)'
<1>1. req[q] # Idle /\ req'[q] # Idle
  BY DEF At, Idle, Done
<1>2. chance[q] \subseteq chance'[q] /\ "owner" \in chance[q]
  BY <1>1, ChanceGrows DEF Grows, IndInv, LetPastInv, LetPast
<1>3. req[q].call.kind \in {"settings", "workspace"} /\ "live" \in chance[q]
  BY <1>1 DEF IndInv, SignedInv, Signed, StageInv, Stage, At, Unknown
<1> QED BY <1>2, <1>3 DEF LetPast, Entitled, At, Done

\* A request is let past only on what is true.
LEMMA LetPastStep == IndInv /\ [Next]_vars => LetPastInv'
<1> SUFFICES ASSUME IndInv, [Next]_vars PROVE LetPastInv'
  OBVIOUS
<1> USE DEF IndInv
<1>1. ASSUME NEW q \in Slot, Arrive(q) PROVE LetPastInv'
  <2>1. PICK c \in instance.calls :
           req' = [req EXCEPT ![q] =
                     [call |-> c, pc |-> FirstStep[c.kind], user |-> Nobody,
                      row |-> NoRepo, spaces |-> {}, at |-> 0]]
    BY <1>1 DEF Arrive
  <2>2. c.kind \in DOMAIN FirstStep
    BY CallAssumption DEF WorldInv
  <2>3. req'[q].pc = FirstStep[c.kind] /\ \A p \in Slot \ {q} : req'[p] = req[p]
    BY <2>1 DEF StageInv
  <2>4. FirstStep[c.kind] \in {"session", "token", "repo", "credential", "client", "consume"}
    BY <2>2 DEF FirstStep
  <2>5. LetPast(q)'
    BY <2>3, <2>4, ClaimsNothing
  <2> QED BY <2>3, <2>5, KeepsPast DEF LetPastInv
<1>2. ASSUME NEW q \in Slot, RequireAuth(q) PROVE LetPastInv'
  <2>1. /\ \A p \in Slot \ {q} : req'[p] = req[p]
        /\ req'[q].call = req[q].call
    BY <1>2 DEF RequireAuth, At, Goes, Ends, With, StageInv, Field, Idle
  <2>2. req'[q].pc \in {"repo", "spaces", "workspace", "code", "refused"}
    BY <1>2 DEF RequireAuth, At, Goes, Ends, With, StageInv, Idle, Stage
  <2>9. LetPast(q)'
    BY <2>2, ClaimsNothing
  <2> QED BY <2>1, <2>9, KeepsPast DEF LetPastInv
<1>3. ASSUME NEW q \in Slot, HandleMCP(q) PROVE LetPastInv'
  <2>1. /\ \A p \in Slot \ {q} : req'[p] = req[p]
        /\ req'[q].call = req[q].call
    BY <1>3 DEF HandleMCP, At, Goes, Ends, With, StageInv, Field, Idle
  <2>2. req'[q].pc \in {"repo", "refused"}
    BY <1>3 DEF HandleMCP, Goes, Ends, With, StageInv
  <2>9. LetPast(q)'
    BY <2>2, ClaimsNothing
  <2> QED BY <2>1, <2>9, KeepsPast DEF LetPastInv
<1>4. ASSUME NEW q \in Slot, LoadRepo(q) PROVE LetPastInv'
  <2>1. /\ \A p \in Slot \ {q} : req'[p] = req[p]
        /\ req'[q].call = req[q].call
    BY <1>4 DEF LoadRepo, At, Goes, Ends, With, StageInv, Field, Idle
  <2>2. /\ req[q] # Idle /\ At(q, "repo") /\ LetPast(q) /\ Signed(q)
        /\ req[q].call.kind \in {"page", "tool", "api", "settings"}
        /\ chance[q] \subseteq chance'[q]
    <3>1. req[q] # Idle /\ At(q, "repo")
      BY <1>4 DEF LoadRepo, At, Idle
    <3>2. req'[q] # Idle
      BY <1>4, <3>1 DEF LoadRepo, Goes, Ends, With, StageInv, Idle
    <3> QED
      BY <3>1, <3>2, ChanceGrows DEF Grows, LetPastInv, SignedInv, StageInv,
         Stage, At
  <2>3. \/ req'[q].pc \in {"refused", "spaces"}
        \/ req'[q].pc \in {"access", "grant"} /\ req'[q].row = repo
    BY <1>4, <2>2 DEF LoadRepo, Ends, Goes, With, StageInv
  <2>4. instance' = instance
    BY IssuedStep DEF IssuedGrows
  <2>5. servesPublicly(repo) => "public" \in chance'[q]
    BY <2>2, SeesTruths
  <2>9. LetPast(q)'
    BY <2>3, <2>4, <2>5, ClaimsNothing DEF LetPast, At, servesPublicly
  <2> QED BY <2>1, <2>9, KeepsPast DEF LetPastInv
<1>5. ASSUME NEW q \in Slot, AuthorizeReport(q) PROVE LetPastInv'
  <2>1. /\ \A p \in Slot \ {q} : req'[p] = req[p]
        /\ req'[q].call = req[q].call
    BY <1>5 DEF AuthorizeReport, At, Goes, Ends, With, StageInv, Field, Idle
  <2>2. /\ req[q] # Idle /\ At(q, "access") /\ LetPast(q) /\ Signed(q)
        /\ req[q].call.kind \in {"page", "tool"}
        /\ chance[q] \subseteq chance'[q]
    <3>1. req[q] # Idle /\ At(q, "access")
      BY <1>5 DEF AuthorizeReport, At, Idle
    <3>2. req'[q] # Idle
      BY <1>5, <3>1 DEF AuthorizeReport, Goes, Ends, With, StageInv, Idle
    <3> QED
      BY <3>1, <3>2, ChanceGrows DEF Grows, LetPastInv, SignedInv, StageInv,
         Stage, At
  <2>3. \/ req'[q].pc = "refused"
        \/ /\ req'[q].pc = "read"
           /\ allows(viewerWorkspaces(req[q].user)) \/ servesPublicly(req[q].row)
    BY <1>5, <2>2 DEF AuthorizeReport, Ends, Goes, With, StageInv
  <2>4. ASSUME allows(viewerWorkspaces(req[q].user))
        PROVE  {"live", "seat"} \subseteq chance[q]
    <3>1. PICK s \in seats : s.user = req[q].user /\ s.workspace \in Range(Owning)
      BY <2>4 DEF allows, viewerWorkspaces, Range
    <3>2. req[q].user = Who(req[q].call) /\ "live" \in chance[q]
      BY <2>2, <3>1, NobodyAssumption DEF Signed, WorldInv, At, Unknown
    <3>3. Seated(req[q].call, {"owner", "member"})
      BY <2>2, <3>1, <3>2 DEF Seated, Above, WorldInv
    <3> QED BY <2>2, <3>2, <3>3, SeesTruths
  <2>5. servesPublicly(req[q].row) => "public" \in chance[q]
    BY <2>2 DEF LetPast, At
  <2>9. LetPast(q)'
    BY <2>1, <2>2, <2>3, <2>4, <2>5, ClaimsNothing DEF LetPast, Entitled, At
  <2> QED BY <2>1, <2>9, KeepsPast DEF LetPastInv
<1>6. ASSUME NEW q \in Slot, CredentialGrants(q) PROVE LetPastInv'
  <2>1. /\ \A p \in Slot \ {q} : req'[p] = req[p]
        /\ req'[q].call = req[q].call
    BY <1>6 DEF CredentialGrants, At, Goes, Ends, With, StageInv, Field, Idle
  <2>2. /\ req[q] # Idle /\ At(q, "grant") /\ LetPast(q) /\ Signed(q)
        /\ req[q].call.kind \in {"api"}
        /\ chance[q] \subseteq chance'[q]
    <3>1. req[q] # Idle /\ At(q, "grant")
      BY <1>6 DEF CredentialGrants, At, Idle
    <3>2. req'[q] # Idle
      BY <1>6, <3>1 DEF CredentialGrants, Goes, Ends, With, StageInv, Idle
    <3> QED
      BY <3>1, <3>2, ChanceGrows DEF Grows, LetPastInv, SignedInv, StageInv,
         Stage, At
  <2>3. \/ req'[q].pc = "refused"
        \/ /\ req'[q].pc = "read"
           /\ servesPublicly(req[q].row) \/ IsKey(req[q].call)
    <3> DEFINE c == req[q].call
               granted == IF repo.id # 0 /\ repo.token = c.cred THEN repo.id = req[q].row.id
                          ELSE allows({w \in DOMAIN wsToken : wsToken[w] = c.cred})
    <3>1. \/ Goes(q, [pc |-> "refused"])
          \/ Goes(q, [pc |-> "read"]) /\ (granted \/ servesPublicly(req[q].row))
      BY <1>6 DEF CredentialGrants, Ends
    <3>2. granted => IsKey(c)
      BY <2>2 DEF IsKey, allows, Range
    <3> QED BY <2>2, <3>1, <3>2 DEF Goes, With, StageInv
  <2>4. servesPublicly(req[q].row) => "public" \in chance[q]
    BY <2>2 DEF LetPast, At
  <2>5. IsKey(req[q].call) => "key" \in chance[q]
    BY <2>2, SeesTruths
  <2>9. LetPast(q)'
    BY <2>1, <2>2, <2>3, <2>4, <2>5, ClaimsNothing DEF LetPast, Entitled, At
  <2> QED BY <2>1, <2>9, KeepsPast DEF LetPastInv
<1>7. ASSUME NEW q \in Slot, OIDCGrantsRead(q) PROVE LetPastInv'
  <2>1. /\ \A p \in Slot \ {q} : req'[p] = req[p]
        /\ req'[q].call = req[q].call
    BY <1>7 DEF OIDCGrantsRead, At, Goes, Ends, With, StageInv, Field, Idle
  <2>2. /\ req[q] # Idle /\ At(q, "grant") /\ LetPast(q) /\ Signed(q)
        /\ req[q].call.kind \in {"api"}
        /\ chance[q] \subseteq chance'[q]
    <3>1. req[q] # Idle /\ At(q, "grant")
      BY <1>7 DEF OIDCGrantsRead, At, Idle
    <3>2. req'[q] # Idle
      BY <1>7, <3>1 DEF OIDCGrantsRead, Goes, Ends, With, StageInv, Idle
    <3> QED
      BY <3>1, <3>2, ChanceGrows DEF Grows, LetPastInv, SignedInv, StageInv,
         Stage, At
  <2>3. \/ req'[q].pc = "refused"
        \/ /\ req'[q].pc = "read"
           /\ servesPublicly(req[q].row) \/ IsKey(req[q].call)
    BY <1>7, <2>2 DEF OIDCGrantsRead, IsKey, Ends, Goes, With, StageInv
  <2>4. servesPublicly(req[q].row) => "public" \in chance[q]
    BY <2>2 DEF LetPast, At
  <2>5. IsKey(req[q].call) => "key" \in chance[q]
    BY <2>2, SeesTruths
  <2>9. LetPast(q)'
    BY <2>1, <2>2, <2>3, <2>4, <2>5, ClaimsNothing DEF LetPast, Entitled, At
  <2> QED BY <2>1, <2>9, KeepsPast DEF LetPastInv
<1>8. ASSUME NEW q \in Slot, LoadReport(q) PROVE LetPastInv'
  <2>1. /\ \A p \in Slot \ {q} : req'[p] = req[p]
        /\ req'[q].call = req[q].call
    BY <1>8 DEF LoadReport, At, Goes, Ends, With, StageInv, Field, Idle
  <2>2. /\ req[q] # Idle /\ At(q, "read") /\ LetPast(q) /\ Signed(q)
        /\ req[q].call.kind \in {"page", "tool", "api"}
        /\ chance[q] \subseteq chance'[q]
    <3>1. req[q] # Idle /\ At(q, "read")
      BY <1>8 DEF LoadReport, At, Idle
    <3>2. req'[q] # Idle
      BY <1>8, <3>1 DEF LoadReport, Goes, Ends, With, Idle
    <3> QED
      BY <3>1, <3>2, ChanceGrows DEF Grows, LetPastInv, SignedInv, StageInv,
         Stage, At
  <2>3. req'[q].pc \in {"served", "refused"}
    BY <1>8, <2>2 DEF LoadReport, Ends, Goes, With, StageInv
  <2>4. Entitled(q)'
    BY <2>1, <2>2 DEF LetPast, At, Entitled
  <2>9. LetPast(q)'
    BY <2>3, <2>4, ClaimsNothing DEF LetPast, At
  <2> QED BY <2>1, <2>9, KeepsPast DEF LetPastInv
<1>9. ASSUME NEW q \in Slot, ListWorkspaces(q) PROVE LetPastInv'
  <2>1. /\ \A p \in Slot \ {q} : req'[p] = req[p]
        /\ req'[q].call = req[q].call
    BY <1>9 DEF ListWorkspaces, At, Goes, Ends, With, StageInv, Field, Idle
  <2>2. /\ req[q] # Idle /\ At(q, "spaces") /\ LetPast(q) /\ Signed(q)
        /\ req[q].call.kind \in {"dashboard", "settings"}
        /\ chance[q] \subseteq chance'[q]
    <3>1. req[q] # Idle /\ At(q, "spaces")
      BY <1>9 DEF ListWorkspaces, At, Idle
    <3>2. req'[q] # Idle
      BY <1>9, <3>1 DEF ListWorkspaces, Goes, Ends, With, StageInv, Idle
    <3> QED
      BY <3>1, <3>2, ChanceGrows DEF Grows, LetPastInv, SignedInv, StageInv,
         Stage, At
  <2> DEFINE mine == viewerWorkspaces(req[q].user)
  <2>3. \/ req'[q].pc = "refused"
        \/ req'[q].pc = "list" /\ req'[q].spaces = mine
        \/ /\ req'[q].pc = "seat" /\ allows(mine)
           /\ req'[q].spaces \subseteq Range(Owning)
    <3>1. owningWorkspace(mine) \subseteq Range(Owning)
      BY DEF owningWorkspace, Range
    <3>2. \/ Goes(q, [pc |-> "refused"])
          \/ Goes(q, [spaces |-> mine, pc |-> "list"])
          \/ allows(mine) /\ Goes(q, [spaces |-> owningWorkspace(mine), pc |-> "seat"])
      BY <1>9 DEF ListWorkspaces, Ends
    <3> QED BY <2>2, <3>1, <3>2 DEF Goes, With, StageInv
  <2>4. allows(mine) => "seat" \in chance[q]
    <3> SUFFICES ASSUME allows(mine) PROVE "seat" \in chance[q]
      OBVIOUS
    <3>1. PICK s \in seats : s.user = req[q].user /\ s.workspace \in Range(Owning)
      BY DEF allows, viewerWorkspaces, Range
    <3>2. req[q].user = Who(req[q].call)
      BY <2>2 DEF Signed, At, Unknown
    <3>3. Seated(req[q].call, {"owner", "member"})
      BY <2>2, <3>1, <3>2 DEF Seated, Above, WorldInv
    <3> QED BY <2>2, <3>3, SeesTruths
  <2>9. LetPast(q)'
    <3> HIDE DEF mine
    <3> QED BY <2>2, <2>3, <2>4, ClaimsNothing DEF LetPast, At, allows
  <2> QED BY <2>1, <2>9, KeepsPast DEF LetPastInv
<1>10. ASSUME NEW q \in Slot, VisibleRepos(q) PROVE LetPastInv'
  <2>1. /\ \A p \in Slot \ {q} : req'[p] = req[p]
        /\ req'[q].call = req[q].call
    BY <1>10 DEF VisibleRepos, At, Goes, Ends, With, StageInv, Field, Idle
  <2>2. /\ req[q] # Idle /\ At(q, "list") /\ LetPast(q) /\ Signed(q)
        /\ req[q].call.kind \in {"dashboard"}
        /\ chance[q] \subseteq chance'[q]
    <3>1. req[q] # Idle /\ At(q, "list")
      BY <1>10 DEF VisibleRepos, At, Idle
    <3>2. req'[q] # Idle
      BY <1>10, <3>1 DEF VisibleRepos, Goes, Ends, With, Idle
    <3> QED
      BY <3>1, <3>2, ChanceGrows DEF Grows, LetPastInv, SignedInv, StageInv,
         Stage, At
  <2>3. \/ req'[q].pc = "refused"
        \/ req'[q].pc = "served" /\ allows(req[q].spaces)
    BY <1>10, <2>2 DEF VisibleRepos, Ends, Goes, With, StageInv
  <2>4. "live" \in chance[q]
    BY <2>2 DEF Signed, At, Unknown
  <2>5. allows(req[q].spaces) => "seat" \in chance[q]
    BY <2>2 DEF LetPast
  <2>9. LetPast(q)'
    BY <2>1, <2>2, <2>3, <2>4, <2>5, ClaimsNothing DEF LetPast, Entitled, At
  <2> QED BY <2>1, <2>9, KeepsPast DEF LetPastInv
<1>11. ASSUME NEW q \in Slot, OwnerRepo(q) PROVE LetPastInv'
  <2>1. /\ \A p \in Slot \ {q} : req'[p] = req[p]
        /\ req'[q].call = req[q].call
    BY <1>11 DEF OwnerRepo, At, Goes, Ends, With, StageInv, Field, Idle
  <2>2. /\ req[q] # Idle /\ At(q, "seat") /\ LetPast(q) /\ Signed(q)
        /\ req[q].call.kind \in {"settings"}
        /\ chance[q] \subseteq chance'[q]
    <3>1. req[q] # Idle /\ At(q, "seat")
      BY <1>11 DEF OwnerRepo, At, Idle
    <3>2. req'[q] # Idle
      BY <1>11, <3>1 DEF OwnerRepo, Goes, Ends, With, StageInv, Idle
    <3> QED
      BY <3>1, <3>2, ChanceGrows DEF Grows, LetPastInv, SignedInv, StageInv,
         Stage, At
  <2>3. PICK w \in req[q].spaces :
          \/ req'[q].pc = "refused"
          \/ req'[q].pc = "served" /\ req[q].call.asks = "view"
          \/ req'[q].pc = "write" /\ "owner" \in roleIn(req[q].user, w)
    BY <1>11, <2>2 DEF OwnerRepo, Ends, Goes, With, StageInv
  <2>4. req[q].user = Who(req[q].call) /\ {"live", "seat"} \subseteq chance[q]
    BY <2>2 DEF Signed, LetPast, At, Unknown
  <2>5. ASSUME "owner" \in roleIn(req[q].user, w) PROVE "owner" \in chance[q]
    <3>1. w \in Range(Owning)
      BY <2>2 DEF LetPast
    <3>2. Seated(req[q].call, {"owner"})
      BY <2>2, <2>4, <2>5, <3>1 DEF Seated, Above, roleIn
    <3> QED BY <2>2, <3>2, SeesTruths
  <2>9. LetPast(q)'
    BY <2>1, <2>2, <2>3, <2>4, <2>5, ClaimsNothing DEF LetPast, Entitled, At
  <2> QED BY <2>1, <2>9, KeepsPast DEF LetPastInv
<1>12. ASSUME NEW q \in Slot, SaveSettings(q) PROVE LetPastInv'
  <2>1. /\ \A p \in Slot \ {q} : req'[p] = req[p]
        /\ req'[q].call = req[q].call
    BY <1>12 DEF SaveSettings, Saved, At, Goes, Ends, With, StageInv, Field,
       Idle
  <2>2. req'[q].pc \in {"served", "refused"}
    BY <1>12 DEF SaveSettings, Saved, Goes, Ends, With, StageInv
  <2>3. At(q, "write") /\ req[q].call.asks # "view"
    BY <1>12 DEF SaveSettings
  <2>9. LetPast(q)'
    BY <2>1, <2>2, <2>3, WriteServed DEF Done
  <2> QED BY <2>1, <2>9, KeepsPast DEF LetPastInv
<1>13. ASSUME NEW q \in Slot, RotateToken(q) PROVE LetPastInv'
  <2>1. /\ \A p \in Slot \ {q} : req'[p] = req[p]
        /\ req'[q].call = req[q].call
    BY <1>13 DEF RotateToken, Saved, At, Goes, Ends, With, StageInv, Field,
       Idle
  <2>2. req'[q].pc \in {"served", "refused"}
    BY <1>13 DEF RotateToken, Saved, Goes, Ends, With, StageInv
  <2>3. At(q, "write") /\ req[q].call.asks # "view"
    BY <1>13 DEF RotateToken
  <2>9. LetPast(q)'
    BY <2>1, <2>2, <2>3, WriteServed DEF Done
  <2> QED BY <2>1, <2>9, KeepsPast DEF LetPastInv
<1>14. ASSUME NEW q \in Slot, RevealToken(q) PROVE LetPastInv'
  <2>1. /\ \A p \in Slot \ {q} : req'[p] = req[p]
        /\ req'[q].call = req[q].call
    BY <1>14 DEF RevealToken, At, Goes, Ends, With, StageInv, Field, Idle
  <2>2. req'[q].pc \in {"served", "refused"}
    BY <1>14 DEF RevealToken, Goes, Ends, With, StageInv
  <2>3. At(q, "write") /\ req[q].call.asks # "view"
    BY <1>14 DEF RevealToken
  <2>9. LetPast(q)'
    BY <2>1, <2>2, <2>3, WriteServed DEF Done
  <2> QED BY <2>1, <2>9, KeepsPast DEF LetPastInv
<1>15. ASSUME NEW q \in Slot, DeleteRepo(q) PROVE LetPastInv'
  <2>1. /\ \A p \in Slot \ {q} : req'[p] = req[p]
        /\ req'[q].call = req[q].call
    BY <1>15 DEF DeleteRepo, At, Goes, Ends, With, StageInv, Field, Idle
  <2>2. req'[q].pc \in {"served", "refused"}
    BY <1>15 DEF DeleteRepo, Goes, Ends, With, StageInv
  <2>3. At(q, "write") /\ req[q].call.asks # "view"
    BY <1>15 DEF DeleteRepo
  <2>9. LetPast(q)'
    BY <2>1, <2>2, <2>3, WriteServed DEF Done
  <2> QED BY <2>1, <2>9, KeepsPast DEF LetPastInv
<1>16. ASSUME NEW q \in Slot, LoadWorkspace(q) PROVE LetPastInv'
  <2>1. /\ \A p \in Slot \ {q} : req'[p] = req[p]
        /\ req'[q].call = req[q].call
    BY <1>16 DEF LoadWorkspace, At, Goes, Ends, With, StageInv, Field, Idle
  <2>2. req'[q].pc \in {"member", "refused"}
    BY <1>16 DEF LoadWorkspace, Goes, Ends, With, StageInv
  <2>9. LetPast(q)'
    BY <2>2, ClaimsNothing
  <2> QED BY <2>1, <2>9, KeepsPast DEF LetPastInv
<1>17. ASSUME NEW q \in Slot, OwnerWorkspace(q) PROVE LetPastInv'
  <2>1. /\ \A p \in Slot \ {q} : req'[p] = req[p]
        /\ req'[q].call = req[q].call
    BY <1>17 DEF OwnerWorkspace, At, Goes, Ends, With, StageInv, Field, Idle
  <2>2. /\ req[q] # Idle /\ At(q, "member") /\ LetPast(q) /\ Signed(q)
        /\ req[q].call.kind \in {"workspace"}
        /\ chance[q] \subseteq chance'[q]
    <3>1. req[q] # Idle /\ At(q, "member")
      BY <1>17 DEF OwnerWorkspace, At, Idle
    <3>2. req'[q] # Idle
      BY <1>17, <3>1 DEF OwnerWorkspace, Goes, Ends, With, StageInv, Idle
    <3> QED
      BY <3>1, <3>2, ChanceGrows DEF Grows, LetPastInv, SignedInv, StageInv,
         Stage, At
  <2> DEFINE c == req[q].call
             role == roleIn(req[q].user, c.workspace)
  <2>3. \/ req'[q].pc = "refused"
        \/ req'[q].pc = "served" /\ c.asks = "view" /\ role # {}
        \/ req'[q].pc = "write" /\ "owner" \in role
    BY <1>17, <2>2 DEF OwnerWorkspace, Ends, Goes, With, StageInv
  <2>4. req[q].user = Who(c) /\ "live" \in chance[q]
    BY <2>2 DEF Signed, At, Unknown
  <2>5. role # {} => "seat" \in chance[q]
    <3>1. role # {} => Seated(c, {"owner", "member"})
      BY <2>2, <2>4 DEF Seated, Above, roleIn, WorldInv
    <3> QED BY <2>2, <3>1, SeesTruths
  <2>6. "owner" \in role => "owner" \in chance[q]
    <3>1. "owner" \in role => Seated(c, {"owner"})
      BY <2>2, <2>4 DEF Seated, Above, roleIn
    <3> QED BY <2>2, <3>1, SeesTruths
  <2>9. LetPast(q)'
    <3> HIDE DEF role
    <3> QED
      BY <2>1, <2>2, <2>3, <2>4, <2>5, <2>6, ClaimsNothing DEF LetPast,
         Entitled, At
  <2> QED BY <2>1, <2>9, KeepsPast DEF LetPastInv
<1>18. ASSUME NEW q \in Slot, SaveWorkspace(q) PROVE LetPastInv'
  <2>1. /\ \A p \in Slot \ {q} : req'[p] = req[p]
        /\ req'[q].call = req[q].call
    BY <1>18 DEF SaveWorkspace, SavedWorkspace, At, Goes, Ends, With,
       StageInv, Field, Idle
  <2>2. req'[q].pc \in {"served", "refused"}
    BY <1>18 DEF SaveWorkspace, SavedWorkspace, Goes, Ends, With, StageInv
  <2>3. At(q, "write") /\ req[q].call.asks # "view"
    BY <1>18 DEF SaveWorkspace
  <2>9. LetPast(q)'
    BY <2>1, <2>2, <2>3, WriteServed DEF Done
  <2> QED BY <2>1, <2>9, KeepsPast DEF LetPastInv
<1>19. ASSUME NEW q \in Slot, RotateWorkspace(q) PROVE LetPastInv'
  <2>1. /\ \A p \in Slot \ {q} : req'[p] = req[p]
        /\ req'[q].call = req[q].call
    BY <1>19 DEF RotateWorkspace, SavedWorkspace, At, Goes, Ends, With,
       StageInv, Field, Idle
  <2>2. req'[q].pc \in {"served", "refused"}
    BY <1>19 DEF RotateWorkspace, SavedWorkspace, Goes, Ends, With, StageInv
  <2>3. At(q, "write") /\ req[q].call.asks # "view"
    BY <1>19 DEF RotateWorkspace
  <2>9. LetPast(q)'
    BY <2>1, <2>2, <2>3, WriteServed DEF Done
  <2> QED BY <2>1, <2>9, KeepsPast DEF LetPastInv
<1>20. ASSUME NEW q \in Slot, DropWorkspace(q) PROVE LetPastInv'
  <2>1. /\ \A p \in Slot \ {q} : req'[p] = req[p]
        /\ req'[q].call = req[q].call
    BY <1>20 DEF DropWorkspace, At, Goes, Ends, With, StageInv, Field, Idle
  <2>2. req'[q].pc \in {"served", "refused"}
    BY <1>20 DEF DropWorkspace, Goes, Ends, With, StageInv
  <2>3. At(q, "write") /\ req[q].call.asks # "view"
    BY <1>20 DEF DropWorkspace
  <2>9. LetPast(q)'
    BY <2>1, <2>2, <2>3, WriteServed DEF Done
  <2> QED BY <2>1, <2>9, KeepsPast DEF LetPastInv
<1>21. ASSUME NEW q \in Slot, LookupUploadToken(q) PROVE LetPastInv'
  <2>1. /\ \A p \in Slot \ {q} : req'[p] = req[p]
        /\ req'[q].call = req[q].call
    BY <1>21 DEF LookupUploadToken, At, Goes, Ends, With, StageInv, Field,
       Idle
  <2>2. /\ req[q] # Idle /\ At(q, "credential") /\ LetPast(q) /\ Signed(q)
        /\ req[q].call.kind \in {"upload"}
        /\ chance[q] \subseteq chance'[q]
    <3>1. req[q] # Idle /\ At(q, "credential")
      BY <1>21 DEF LookupUploadToken, At, Idle
    <3>2. req'[q] # Idle
      BY <1>21, <3>1 DEF LookupUploadToken, Goes, Ends, With, StageInv, Idle
    <3> QED
      BY <3>1, <3>2, ChanceGrows DEF Grows, LetPastInv, SignedInv, StageInv,
         Stage, At
  <2> DEFINE c == req[q].call
  <2>3. \/ req'[q].pc = "refused"
        \/ req'[q].pc \in {"served", "target"} /\ IsKey(c) /\ c.oidc = "none"
    <3>1. /\ c.oidc = "none"
          /\ \/ Goes(q, [pc |-> "refused"])
             \/ Goes(q, [pc |-> "served"]) /\ repo.id # 0 /\ repo.token = c.cred
             \/ /\ Goes(q, [pc |-> "target"])
                /\ allows({w \in DOMAIN wsToken : wsToken[w] = c.cred})
      BY <1>21 DEF LookupUploadToken, Ends
    <3>2. allows({w \in DOMAIN wsToken : wsToken[w] = c.cred}) => IsKey(c)
      BY <2>2 DEF IsKey, allows, Range
    <3> QED BY <2>2, <3>1, <3>2 DEF Goes, With, StageInv, IsKey
  <2>4. IsKey(c) => "key" \in chance[q]
    BY <2>2, SeesTruths
  <2>9. LetPast(q)'
    BY <2>1, <2>2, <2>3, <2>4, ClaimsNothing DEF LetPast, Entitled, At
  <2> QED BY <2>1, <2>9, KeepsPast DEF LetPastInv
<1>22. ASSUME NEW q \in Slot, AuthOIDC(q) PROVE LetPastInv'
  <2>1. /\ \A p \in Slot \ {q} : req'[p] = req[p]
        /\ req'[q].call = req[q].call
    BY <1>22 DEF AuthOIDC, At, Goes, Ends, With, StageInv, Field, Idle
  <2>2. /\ req[q] # Idle /\ At(q, "credential") /\ LetPast(q) /\ Signed(q)
        /\ req[q].call.kind \in {"upload"}
        /\ chance[q] \subseteq chance'[q]
    <3>1. req[q] # Idle /\ At(q, "credential")
      BY <1>22 DEF AuthOIDC, At, Idle
    <3>2. req'[q] # Idle
      BY <1>22, <3>1 DEF AuthOIDC, Goes, Ends, With, StageInv, Idle
    <3> QED
      BY <3>1, <3>2, ChanceGrows DEF Grows, LetPastInv, SignedInv, StageInv,
         Stage, At
  <2>3. \/ req'[q].pc = "refused"
        \/ req'[q].pc = "target" /\ req[q].call.oidc \in {"slug", "id"}
    BY <1>22, <2>2 DEF AuthOIDC, Ends, Goes, With, StageInv
  <2>4. req[q].call.oidc = "slug" => "key" \in chance[q]
    BY <2>2, SeesTruths DEF IsKey
  <2>9. LetPast(q)'
    BY <2>1, <2>2, <2>3, <2>4, ClaimsNothing DEF LetPast, At
  <2> QED BY <2>1, <2>9, KeepsPast DEF LetPastInv
<1>23. ASSUME NEW q \in Slot, ResolveUploadRepo(q) PROVE LetPastInv'
  <2>1. /\ \A p \in Slot \ {q} : req'[p] = req[p]
        /\ req'[q].call = req[q].call
    BY <1>23 DEF ResolveUploadRepo, At, Goes, Ends, With, StageInv, Field,
       Idle
  <2>2. /\ req[q] # Idle /\ At(q, "target") /\ LetPast(q) /\ Signed(q)
        /\ req[q].call.kind \in {"upload"}
        /\ chance[q] \subseteq chance'[q]
    <3>1. req[q] # Idle /\ At(q, "target")
      BY <1>23 DEF ResolveUploadRepo, At, Idle
    <3>2. req'[q] # Idle
      BY <1>23, <3>1 DEF ResolveUploadRepo, Goes, Ends, With, StageInv, Idle
    <3> QED
      BY <3>1, <3>2, ChanceGrows DEF Grows, LetPastInv, SignedInv, StageInv,
         Stage, At
  <2>3. \/ req'[q].pc = "owner" /\ req[q].call.oidc # "none"
        \/ req'[q].pc \in {"register", "served"} /\ req[q].call.oidc = "none"
    BY <1>23, <2>2 DEF ResolveUploadRepo, Ends, Goes, With, StageInv
  <2>4. /\ req[q].call.oidc \in {"none", "slug", "id"}
        /\ req[q].call.oidc # "id" => "key" \in chance[q]
    BY <2>2 DEF LetPast, StageInv
  <2>9. LetPast(q)'
    BY <2>1, <2>2, <2>3, <2>4 DEF LetPast, Entitled, At
  <2> QED BY <2>1, <2>9, KeepsPast DEF LetPastInv
<1>24. ASSUME NEW q \in Slot, OIDCLookup(q) PROVE LetPastInv'
  <2>1. /\ \A p \in Slot \ {q} : req'[p] = req[p]
        /\ req'[q].call = req[q].call
    BY <1>24 DEF OIDCLookup, Resolved, At, Goes, Ends, With, StageInv, Field,
       Idle
  <2>2. /\ req[q] # Idle /\ At(q, "owner") /\ LetPast(q) /\ Signed(q)
        /\ req[q].call.kind \in {"upload"}
        /\ chance[q] \subseteq chance'[q]
    <3>1. req[q] # Idle /\ At(q, "owner")
      BY <1>24 DEF OIDCLookup, At, Idle
    <3>2. req'[q] # Idle
      BY <1>24, <3>1 DEF OIDCLookup, Resolved, Goes, Ends, With, StageInv,
         Idle
    <3> QED
      BY <3>1, <3>2, ChanceGrows DEF Grows, LetPastInv, SignedInv, StageInv,
         Stage, At
  <2>3. \/ req'[q].pc = "refused"
        \/ req'[q].pc \in {"register", "served"} /\ req[q].call.oidc = "slug"
        \/ req'[q].pc = "identify" /\ req[q].call.oidc # "slug"
    BY <1>24, <2>2 DEF OIDCLookup, Resolved, Ends, Goes, With, StageInv
  <2>4. /\ req[q].call.oidc \in {"slug", "id"}
        /\ req[q].call.oidc = "slug" => "key" \in chance[q]
    BY <2>2, SeesTruths DEF LetPast, IsKey
  <2>9. LetPast(q)'
    BY <2>1, <2>2, <2>3, <2>4, ClaimsNothing DEF LetPast, Entitled, At
  <2> QED BY <2>1, <2>9, KeepsPast DEF LetPastInv
<1>25. ASSUME NEW q \in Slot, GetRepoID(q) PROVE LetPastInv'
  <2>1. /\ \A p \in Slot \ {q} : req'[p] = req[p]
        /\ req'[q].call = req[q].call
    BY <1>25 DEF GetRepoID, Resolved, At, Goes, Ends, With, StageInv, Field,
       Idle
  <2>2. /\ req[q] # Idle /\ At(q, "identify") /\ LetPast(q) /\ Signed(q)
        /\ req[q].call.kind \in {"upload"}
        /\ chance[q] \subseteq chance'[q]
    <3>1. req[q] # Idle /\ At(q, "identify")
      BY <1>25 DEF GetRepoID, At, Idle
    <3>2. req'[q] # Idle
      BY <1>25, <3>1 DEF GetRepoID, Resolved, Goes, Ends, With, StageInv, Idle
    <3> QED
      BY <3>1, <3>2, ChanceGrows DEF Grows, LetPastInv, SignedInv, StageInv,
         Stage, At
  <2>3. \/ req'[q].pc = "refused"
        \/ req'[q].pc \in {"register", "served"} /\ req[q].call.forgeId = slugIs
    BY <1>25, <2>2 DEF GetRepoID, Resolved, Ends, Goes, With, StageInv
  <2>4. req[q].call.forgeId = slugIs => "key" \in chance[q]
    BY <2>2, SeesTruths DEF LetPast, IsKey
  <2>9. LetPast(q)'
    BY <2>1, <2>2, <2>3, <2>4, ClaimsNothing DEF LetPast, Entitled, At
  <2> QED BY <2>1, <2>9, KeepsPast DEF LetPastInv
<1>26. ASSUME NEW q \in Slot, RegisterRepo(q) PROVE LetPastInv'
  <2>1. /\ \A p \in Slot \ {q} : req'[p] = req[p]
        /\ req'[q].call = req[q].call
    BY <1>26 DEF RegisterRepo, At, Goes, Ends, With, StageInv, Field, Idle
  <2>2. /\ req[q] # Idle /\ At(q, "register") /\ LetPast(q) /\ Signed(q)
        /\ req[q].call.kind \in {"upload"}
        /\ chance[q] \subseteq chance'[q]
    <3>1. req[q] # Idle /\ At(q, "register")
      BY <1>26 DEF RegisterRepo, At, Idle
    <3>2. req'[q] # Idle
      BY <1>26, <3>1 DEF RegisterRepo, Goes, Ends, With, StageInv, Idle
    <3> QED
      BY <3>1, <3>2, ChanceGrows DEF Grows, LetPastInv, SignedInv, StageInv,
         Stage, At
  <2>3. req'[q].pc \in {"served", "refused"}
    BY <1>26, <2>2 DEF RegisterRepo, Ends, Goes, With, StageInv
  <2>4. "key" \in chance[q]
    BY <2>2 DEF LetPast
  <2>9. LetPast(q)'
    BY <2>1, <2>2, <2>3, <2>4, ClaimsNothing DEF LetPast, Entitled, At
  <2> QED BY <2>1, <2>9, KeepsPast DEF LetPastInv
<1>27. ASSUME NEW q \in Slot, HandleMCPRegister(q) PROVE LetPastInv'
  <2>1. /\ \A p \in Slot \ {q} : req'[p] = req[p]
        /\ req'[q].call = req[q].call
    BY <1>27 DEF HandleMCPRegister, At, Goes, Ends, With, StageInv, Field,
       Idle
  <2>2. req'[q].pc \in {"served", "refused"}
    BY <1>27 DEF HandleMCPRegister, Goes, Ends, With, StageInv
  <2>3. req[q].call.kind = "register"
    BY <1>27 DEF HandleMCPRegister, At, StageInv, Stage, Idle
  <2>9. LetPast(q)'
    BY <2>1, <2>2, <2>3, ClaimsNothing, ClaimsNothingServed
  <2> QED BY <2>1, <2>9, KeepsPast DEF LetPastInv
<1>28. ASSUME NEW q \in Slot, Approve(q) PROVE LetPastInv'
  <2>1. /\ \A p \in Slot \ {q} : req'[p] = req[p]
        /\ req'[q].call = req[q].call
    BY <1>28 DEF Approve, At, Goes, Ends, With, StageInv, Field, Idle
  <2>2. req'[q].pc \in {"served", "refused"}
    BY <1>28 DEF Approve, Goes, Ends, With, StageInv
  <2>3. req[q].call.kind = "approve"
    BY <1>28 DEF Approve, At, StageInv, Stage, Idle
  <2>9. LetPast(q)'
    BY <2>1, <2>2, <2>3, ClaimsNothing, ClaimsNothingServed
  <2> QED BY <2>1, <2>9, KeepsPast DEF LetPastInv
<1>29. ASSUME NEW q \in Slot, ConsumeCode(q) PROVE LetPastInv'
  <2>1. /\ \A p \in Slot \ {q} : req'[p] = req[p]
        /\ req'[q].call = req[q].call
    BY <1>29 DEF ConsumeCode, At, Goes, Ends, With, StageInv, Field, Idle
  <2>2. req'[q].pc \in {"issue", "refused"}
    BY <1>29 DEF ConsumeCode, Goes, Ends, With, StageInv
  <2>9. LetPast(q)'
    BY <2>2, ClaimsNothing
  <2> QED BY <2>1, <2>9, KeepsPast DEF LetPastInv
<1>30. ASSUME NEW q \in Slot, IssueToken(q) PROVE LetPastInv'
  <2>1. /\ \A p \in Slot \ {q} : req'[p] = req[p]
        /\ req'[q].call = req[q].call
    BY <1>30 DEF IssueToken, At, Goes, Ends, With, StageInv, Field, Idle
  <2>2. req'[q].pc \in {"served", "refused"}
    BY <1>30 DEF IssueToken, Goes, Ends, With, StageInv
  <2>3. req[q].call.kind = "exchange"
    BY <1>30 DEF IssueToken, At, StageInv, Stage, Idle
  <2>9. LetPast(q)'
    BY <2>1, <2>2, <2>3, ClaimsNothing, ClaimsNothingServed
  <2> QED BY <2>1, <2>9, KeepsPast DEF LetPastInv
<1>31. ASSUME NEW q \in Slot, RequestFails(q) PROVE LetPastInv'
  <2>1. /\ \A p \in Slot \ {q} : req'[p] = req[p]
        /\ req'[q].call = req[q].call
    BY <1>31 DEF RequestFails, Goes, Ends, With, StageInv, Field, Idle
  <2>2. req'[q].pc \in {"refused"}
    BY <1>31 DEF RequestFails, Goes, Ends, With, StageInv
  <2>9. LetPast(q)'
    BY <2>2, ClaimsNothing
  <2> QED BY <2>1, <2>9, KeepsPast DEF LetPastInv
<1>32. ASSUME NEW q \in Slot, RequestEnds(q) PROVE LetPastInv'
  <2>1. req'[q] = Idle /\ \A p \in Slot \ {q} : req'[p] = req[p]
    BY <1>32 DEF RequestEnds, StageInv
  <2> QED BY <2>1, KeepsPast DEF LetPastInv
<1>33. CASE SetRepoVisibility
  <2>1. req' = req
    BY <1>33 DEF SetRepoVisibility, Leaves
  <2> QED BY <2>1, KeepsPast DEF LetPastInv
<1>34. CASE CreateRepo
  <2>1. req' = req
    BY <1>34 DEF CreateRepo, Leaves
  <2> QED BY <2>1, KeepsPast DEF LetPastInv
<1>35. CASE SlugMoves
  <2>1. req' = req
    BY <1>35 DEF SlugMoves, Leaves
  <2> QED BY <2>1, KeepsPast DEF LetPastInv
<1>36. CASE Tick
  <2>1. req' = req
    BY <1>36 DEF Tick, Leaves
  <2> QED BY <2>1, KeepsPast DEF LetPastInv
<1>37. ASSUME NEW u \in User, SignIn(u) PROVE LetPastInv'
  <2>1. req' = req
    BY <1>37 DEF SignIn, Leaves
  <2> QED BY <2>1, KeepsPast DEF LetPastInv
<1>38. ASSUME NEW u \in User, SignOut(u) PROVE LetPastInv'
  <2>1. req' = req
    BY <1>38 DEF SignOut, Leaves
  <2> QED BY <2>1, KeepsPast DEF LetPastInv
<1>39. ASSUME NEW w \in Workspace, DeleteWorkspace(w) PROVE LetPastInv'
  <2>1. req' = req
    BY <1>39 DEF DeleteWorkspace, Leaves
  <2> QED BY <2>1, KeepsPast DEF LetPastInv
<1>40. ASSUME NEW w \in Workspace, RotateWorkspaceToken(w) PROVE LetPastInv'
  <2>1. req' = req
    BY <1>40 DEF RotateWorkspaceToken, Leaves
  <2> QED BY <2>1, KeepsPast DEF LetPastInv
<1>41. CASE UNCHANGED vars
  <2>1. req' = req
    BY <1>41 DEF vars
  <2> QED BY <2>1, KeepsPast DEF LetPastInv
<1> QED
  BY <1>1, <1>2, <1>3, <1>4, <1>5, <1>6, <1>7, <1>8, <1>9, <1>10, <1>11,
     <1>12, <1>13, <1>14, <1>15, <1>16, <1>17, <1>18, <1>19, <1>20, <1>21,
     <1>22, <1>23, <1>24, <1>25, <1>26, <1>27, <1>28, <1>29, <1>30, <1>31,
     <1>32, <1>33, <1>34, <1>35, <1>36, <1>37, <1>38, <1>39, <1>40, <1>41 DEF
     Next, Serve

-----------------------------------------------------------------------------
(* One answer per code. *)

\* Most steps leave the codes where they are.
CodesStay ==
  /\ UNCHANGED <<codes, approved, issued, refused>>
  /\ fresh' \in Nat /\ fresh <= fresh'
  /\ \A q \in Takers' : q \in Takers /\ req'[q] = req[q]

LEMMA CodesStayKeeps ==
  ASSUME CodeInv, CodesStay
  PROVE  CodeInv'
<1> USE DEF CodesStay
<1>1. Answered' = Answered
  BY DEF Answered
<1>2. Held' \subseteq Held
  BY DEF Held
<1>3. PlaceInv'
  BY <1>1, <1>2 DEF CodeInv, PlaceInv
<1>4. FitInv'
  BY DEF CodeInv, FitInv
<1>5. FreshInv'
  BY DEF CodeInv, FreshInv
<1> QED BY <1>3, <1>4, <1>5 DEF CodeInv

\* A code moves from the store to one exchange and from there to one token.
LEMMA CodeStep == IndInv /\ [Next]_vars => CodeInv'
<1> SUFFICES ASSUME IndInv, [Next]_vars PROVE CodeInv'
  OBVIOUS
<1> USE DEF IndInv
<1>1. ASSUME NEW q \in Slot, Arrive(q) PROVE CodeInv'
  <2>1. PICK c \in instance.calls :
           req' = [req EXCEPT ![q] =
                     [call |-> c, pc |-> FirstStep[c.kind], user |-> Nobody,
                      row |-> NoRepo, spaces |-> {}, at |-> 0]]
    BY <1>1 DEF Arrive
  <2>2. c.kind \in DOMAIN FirstStep
    BY CallAssumption DEF WorldInv
  <2>3. FirstStep[c.kind] # "issue"
    BY <2>2 DEF FirstStep
  <2>4. UNCHANGED <<codes, approved, issued, refused, fresh>> /\ fresh \in Nat
    BY <1>1 DEF Arrive, Leaves, world, past, CodeInv, FreshInv
  <2>5. CodesStay
    BY <2>1, <2>3, <2>4 DEF CodesStay, Takers, At
  <2> QED BY <2>5, CodesStayKeeps
<1>2. ASSUME NEW q \in Slot, RequireAuth(q) PROVE CodeInv'
  <2>1. fresh \in Nat
    BY DEF CodeInv, FreshInv
  <2>2. CodesStay
    BY <1>2, <2>1 DEF RequireAuth, At, Goes, Ends, With, Leaves, past,
       CodesStay, Takers, Idle, StageInv, Stage
  <2> QED BY <2>2, CodesStayKeeps
<1>3. ASSUME NEW q \in Slot, HandleMCP(q) PROVE CodeInv'
  <2>1. fresh \in Nat
    BY DEF CodeInv, FreshInv
  <2>2. CodesStay
    BY <1>3, <2>1 DEF HandleMCP, At, Goes, Ends, With, Leaves, past,
       CodesStay, Takers, StageInv
  <2> QED BY <2>2, CodesStayKeeps
<1>4. ASSUME NEW q \in Slot, LoadRepo(q) PROVE CodeInv'
  <2>1. fresh \in Nat
    BY DEF CodeInv, FreshInv
  <2>2. CodesStay
    BY <1>4, <2>1 DEF LoadRepo, At, Goes, Ends, With, Leaves, world, past,
       CodesStay, Takers, Idle, StageInv, Stage
  <2> QED BY <2>2, CodesStayKeeps
<1>5. ASSUME NEW q \in Slot, AuthorizeReport(q) PROVE CodeInv'
  <2>1. fresh \in Nat
    BY DEF CodeInv, FreshInv
  <2>2. CodesStay
    BY <1>5, <2>1 DEF AuthorizeReport, At, Goes, Ends, With, Leaves, world,
       past, CodesStay, Takers, StageInv
  <2> QED BY <2>2, CodesStayKeeps
<1>6. ASSUME NEW q \in Slot, CredentialGrants(q) PROVE CodeInv'
  <2>1. fresh \in Nat
    BY DEF CodeInv, FreshInv
  <2>2. CodesStay
    BY <1>6, <2>1 DEF CredentialGrants, At, Goes, Ends, With, Leaves, world,
       past, CodesStay, Takers, StageInv
  <2> QED BY <2>2, CodesStayKeeps
<1>7. ASSUME NEW q \in Slot, OIDCGrantsRead(q) PROVE CodeInv'
  <2>1. fresh \in Nat
    BY DEF CodeInv, FreshInv
  <2>2. CodesStay
    BY <1>7, <2>1 DEF OIDCGrantsRead, At, Goes, Ends, With, Leaves, world,
       past, CodesStay, Takers, StageInv
  <2> QED BY <2>2, CodesStayKeeps
<1>8. ASSUME NEW q \in Slot, LoadReport(q) PROVE CodeInv'
  <2>1. fresh \in Nat
    BY DEF CodeInv, FreshInv
  <2>2. CodesStay
    BY <1>8, <2>1 DEF LoadReport, At, Goes, Ends, With, Leaves, world, past,
       CodesStay, Takers
  <2> QED BY <2>2, CodesStayKeeps
<1>9. ASSUME NEW q \in Slot, ListWorkspaces(q) PROVE CodeInv'
  <2>1. fresh \in Nat
    BY DEF CodeInv, FreshInv
  <2>2. CodesStay
    BY <1>9, <2>1 DEF ListWorkspaces, At, Goes, Ends, With, Leaves, world,
       past, CodesStay, Takers, StageInv
  <2> QED BY <2>2, CodesStayKeeps
<1>10. ASSUME NEW q \in Slot, VisibleRepos(q) PROVE CodeInv'
  <2>1. fresh \in Nat
    BY DEF CodeInv, FreshInv
  <2>2. CodesStay
    BY <1>10, <2>1 DEF VisibleRepos, At, Goes, Ends, With, Leaves, world,
       past, CodesStay, Takers
  <2> QED BY <2>2, CodesStayKeeps
<1>11. ASSUME NEW q \in Slot, OwnerRepo(q) PROVE CodeInv'
  <2>1. fresh \in Nat
    BY DEF CodeInv, FreshInv
  <2>2. CodesStay
    BY <1>11, <2>1 DEF OwnerRepo, At, Goes, Ends, With, Leaves, world, past,
       CodesStay, Takers, StageInv
  <2> QED BY <2>2, CodesStayKeeps
<1>12. ASSUME NEW q \in Slot, SaveSettings(q) PROVE CodeInv'
  <2>1. fresh \in Nat
    BY DEF CodeInv, FreshInv
  <2>2. CodesStay
    BY <1>12, <2>1 DEF SaveSettings, Saved, At, Goes, Ends, With, Leaves,
       past, CodesStay, Takers, StageInv
  <2> QED BY <2>2, CodesStayKeeps
<1>13. ASSUME NEW q \in Slot, RotateToken(q) PROVE CodeInv'
  <2>1. fresh \in Nat
    BY DEF CodeInv, FreshInv
  <2>2. CodesStay
    BY <1>13, <2>1 DEF RotateToken, Saved, At, Goes, Ends, With, Leaves,
       CodesStay, Takers, StageInv
  <2> QED BY <2>2, CodesStayKeeps
<1>14. ASSUME NEW q \in Slot, RevealToken(q) PROVE CodeInv'
  <2>1. fresh \in Nat
    BY DEF CodeInv, FreshInv
  <2>2. CodesStay
    BY <1>14, <2>1 DEF RevealToken, At, Goes, Ends, With, Leaves, world, past,
       CodesStay, Takers
  <2> QED BY <2>2, CodesStayKeeps
<1>15. ASSUME NEW q \in Slot, DeleteRepo(q) PROVE CodeInv'
  <2>1. fresh \in Nat
    BY DEF CodeInv, FreshInv
  <2>2. CodesStay
    BY <1>15, <2>1 DEF DeleteRepo, At, Goes, Ends, With, Leaves, past,
       CodesStay, Takers, StageInv
  <2> QED BY <2>2, CodesStayKeeps
<1>16. ASSUME NEW q \in Slot, LoadWorkspace(q) PROVE CodeInv'
  <2>1. fresh \in Nat
    BY DEF CodeInv, FreshInv
  <2>2. CodesStay
    BY <1>16, <2>1 DEF LoadWorkspace, At, Goes, Ends, With, Leaves, world,
       past, CodesStay, Takers, StageInv
  <2> QED BY <2>2, CodesStayKeeps
<1>17. ASSUME NEW q \in Slot, OwnerWorkspace(q) PROVE CodeInv'
  <2>1. fresh \in Nat
    BY DEF CodeInv, FreshInv
  <2>2. CodesStay
    BY <1>17, <2>1 DEF OwnerWorkspace, At, Goes, Ends, With, Leaves, world,
       past, CodesStay, Takers, StageInv
  <2> QED BY <2>2, CodesStayKeeps
<1>18. ASSUME NEW q \in Slot, SaveWorkspace(q) PROVE CodeInv'
  <2>1. fresh \in Nat
    BY DEF CodeInv, FreshInv
  <2>2. CodesStay
    BY <1>18, <2>1 DEF SaveWorkspace, SavedWorkspace, At, Goes, Ends, With,
       Leaves, past, CodesStay, Takers, StageInv
  <2> QED BY <2>2, CodesStayKeeps
<1>19. ASSUME NEW q \in Slot, RotateWorkspace(q) PROVE CodeInv'
  <2>1. fresh \in Nat
    BY DEF CodeInv, FreshInv
  <2>2. CodesStay
    BY <1>19, <2>1 DEF RotateWorkspace, SavedWorkspace, At, Goes, Ends, With,
       Leaves, CodesStay, Takers, StageInv
  <2> QED BY <2>2, CodesStayKeeps
<1>20. ASSUME NEW q \in Slot, DropWorkspace(q) PROVE CodeInv'
  <2>1. fresh \in Nat
    BY DEF CodeInv, FreshInv
  <2>2. CodesStay
    BY <1>20, <2>1 DEF DropWorkspace, At, Goes, Ends, With, Leaves, past,
       CodesStay, Takers, StageInv
  <2> QED BY <2>2, CodesStayKeeps
<1>21. ASSUME NEW q \in Slot, LookupUploadToken(q) PROVE CodeInv'
  <2>1. fresh \in Nat
    BY DEF CodeInv, FreshInv
  <2>2. CodesStay
    BY <1>21, <2>1 DEF LookupUploadToken, At, Goes, Ends, With, Leaves, world,
       past, CodesStay, Takers, StageInv
  <2> QED BY <2>2, CodesStayKeeps
<1>22. ASSUME NEW q \in Slot, AuthOIDC(q) PROVE CodeInv'
  <2>1. fresh \in Nat
    BY DEF CodeInv, FreshInv
  <2>2. CodesStay
    BY <1>22, <2>1 DEF AuthOIDC, At, Goes, Ends, With, Leaves, world, past,
       CodesStay, Takers, StageInv
  <2> QED BY <2>2, CodesStayKeeps
<1>23. ASSUME NEW q \in Slot, ResolveUploadRepo(q) PROVE CodeInv'
  <2>1. fresh \in Nat
    BY DEF CodeInv, FreshInv
  <2>2. CodesStay
    BY <1>23, <2>1 DEF ResolveUploadRepo, At, Goes, Ends, With, Leaves, world,
       past, CodesStay, Takers, StageInv
  <2> QED BY <2>2, CodesStayKeeps
<1>24. ASSUME NEW q \in Slot, OIDCLookup(q) PROVE CodeInv'
  <2>1. fresh \in Nat
    BY DEF CodeInv, FreshInv
  <2>2. CodesStay
    BY <1>24, <2>1 DEF OIDCLookup, Resolved, At, Goes, Ends, With, Leaves,
       world, past, CodesStay, Takers, StageInv
  <2> QED BY <2>2, CodesStayKeeps
<1>25. ASSUME NEW q \in Slot, GetRepoID(q) PROVE CodeInv'
  <2>1. fresh \in Nat
    BY DEF CodeInv, FreshInv
  <2>2. CodesStay
    BY <1>25, <2>1 DEF GetRepoID, Resolved, At, Goes, Ends, With, Leaves,
       world, past, CodesStay, Takers, StageInv
  <2> QED BY <2>2, CodesStayKeeps
<1>26. ASSUME NEW q \in Slot, RegisterRepo(q) PROVE CodeInv'
  <2>1. fresh \in Nat
    BY DEF CodeInv, FreshInv
  <2>2. CodesStay
    BY <1>26, <2>1 DEF RegisterRepo, At, Goes, Ends, With, Leaves, past,
       CodesStay, Takers, StageInv
  <2> QED BY <2>2, CodesStayKeeps
<1>27. ASSUME NEW q \in Slot, HandleMCPRegister(q) PROVE CodeInv'
  <2>1. fresh \in Nat
    BY DEF CodeInv, FreshInv
  <2>2. CodesStay
    BY <1>27, <2>1 DEF HandleMCPRegister, At, Goes, Ends, With, Leaves, world,
       past, CodesStay, Takers
  <2> QED BY <2>2, CodesStayKeeps
<1>28. ASSUME NEW q \in Slot, Approve(q) PROVE CodeInv'
  <2>1. CASE ~ validRequest(req[q].call)
    <3>1. fresh \in Nat
      BY DEF CodeInv, FreshInv
    <3>2. CodesStay
      BY <1>28, <2>1, <3>1 DEF Approve, Ends, Goes, With, Leaves, CodesStay,
         Takers, At, StageInv
    <3> QED BY <3>2, CodesStayKeeps
  <2>2. CASE validRequest(req[q].call)
    <3> DEFINE row == [user |-> req[q].user, client |-> req[q].call.client,
                       redirect |-> redirectOf(req[q].call),
                       challenge |-> req[q].call.challenge,
                       expires |-> now + CodeTTL]
    <3>1. /\ codes' = With([k \in {fresh} |-> row], codes)
          /\ approved' = With([k \in {fresh} |-> row], approved)
          /\ fresh' = fresh + 1 /\ UNCHANGED <<issued, refused>>
          /\ Goes(q, [pc |-> "served"])
      BY <1>28, <2>2 DEF Approve, Ends, Leaves
    <3>2. \A p \in Takers' : p \in Takers /\ req'[p] = req[p]
      BY <3>1 DEF Goes, With, Takers, At
    <3> HIDE DEF row
    <3>3. /\ DOMAIN codes' = DOMAIN codes \cup {fresh}
          /\ DOMAIN approved' = DOMAIN approved \cup {fresh}
          /\ codes'[fresh] = approved'[fresh]
          /\ \A k \in DOMAIN approved : approved'[k] = approved[k]
          /\ \A k \in DOMAIN codes : k # fresh => codes'[k] = codes[k]
      BY <3>1 DEF With, CodeInv, FreshInv
    <3>4. fresh \notin DOMAIN approved
      BY DEF CodeInv, FreshInv
    <3>5. Answered' = Answered /\ Held' \subseteq Held
      BY <3>1, <3>2 DEF Answered, Held
    <3>6. PlaceInv'
      BY <3>1, <3>2, <3>3, <3>4, <3>5 DEF CodeInv, PlaceInv
    <3>7. FreshInv'
      BY <3>1, <3>3 DEF CodeInv, FreshInv
    <3>8. \A k \in Held \cup Answered : approved'[k] = approved[k]
      BY <3>3 DEF CodeInv, PlaceInv
    <3>9. \A k \in DOMAIN codes' : codes'[k] = approved'[k]
      BY <3>3, <3>4 DEF CodeInv, PlaceInv, FitInv
    <3>10. \A p \in Takers' : Fits(req'[p], approved'[req'[p].call.code])
      BY <3>2, <3>8 DEF CodeInv, FitInv, Held
    <3>11. \A t \in DOMAIN issued : Fits(issued[t], approved'[issued[t].call.code])
      BY <3>8 DEF CodeInv, FitInv, Answered
    <3> QED BY <3>1, <3>6, <3>7, <3>9, <3>10, <3>11 DEF CodeInv, FitInv
  <2> QED BY <2>1, <2>2
<1>29. ASSUME NEW q \in Slot, ConsumeCode(q) PROVE CodeInv'
  <2> DEFINE k == req[q].call.code
             live == k \in DOMAIN codes /\ codes[k].expires > now
             good == live /\ matches(req[q].call, codes[k])
  <2>1. /\ codes' = [j \in DOMAIN codes \ {k} |-> codes[j]]
        /\ UNCHANGED <<approved, issued, fresh>>
        /\ q \notin Takers /\ req[q] # Idle
    BY <1>29 DEF ConsumeCode, Restrict, Leaves, Takers, At, Idle
  <2>2. \A p \in Slot \ {q} : req'[p] = req[p]
    BY <1>29 DEF ConsumeCode, Goes, Ends, StageInv
  <2>3. req'[q].call = req[q].call
    BY <1>29, <2>1 DEF ConsumeCode, Goes, Ends, With, StageInv, Field
  <2>4. \A p \in Takers' \ {q} : p \in Takers /\ req'[p] = req[p]
    BY <2>2 DEF Takers, At
  <2>5. Answered' = Answered
    BY <2>1 DEF Answered
  <2>6. FreshInv'
    BY <2>1 DEF CodeInv, FreshInv
  <2>7. CASE good
    <3>1. /\ refused' = refused
          /\ req'[q].user = codes[k].user /\ req'[q].at = now
      BY <1>29, <2>1, <2>7 DEF ConsumeCode, Goes, With, StageInv
    <3>2. k \in DOMAIN codes /\ codes[k] = approved[k]
      BY <2>7 DEF CodeInv, FitInv
    <3>3. Fits(req'[q], approved[k])
      BY <2>3, <2>7, <3>1, <3>2 DEF Fits, matches
    <3> HIDE DEF live, good
    <3>4. Held' \subseteq Held \cup {k}
      BY <2>3, <2>4 DEF Held
    <3>5. \A p \in Takers : req[p].call.code # k
      BY <3>2 DEF CodeInv, PlaceInv, Held
    <3>6. \A o, p \in Takers' : req'[o].call.code = req'[p].call.code => o = p
      BY <2>3, <2>4, <3>5 DEF CodeInv, PlaceInv
    <3>7. PlaceInv'
      BY <2>1, <2>5, <3>1, <3>2, <3>4, <3>6 DEF CodeInv, PlaceInv
    <3>8. FitInv'
      BY <2>1, <2>3, <2>4, <3>3 DEF CodeInv, FitInv
    <3> QED BY <2>6, <3>7, <3>8 DEF CodeInv
  <2>8. CASE ~ good
    <3>1. \/ refused' = refused
          \/ live /\ refused' = refused \cup {k}
      BY <1>29, <2>8 DEF ConsumeCode
    <3>2. req'[q].pc = "refused"
      <4>1. Goes(q, [pc |-> "refused"])
        BY <1>29, <2>8 DEF ConsumeCode, Ends
      <4> QED BY <4>1 DEF Goes, With, StageInv
    <3>3. \A p \in Takers' : p \in Takers /\ req'[p] = req[p]
      BY <2>4, <3>2 DEF Takers, At
    <3> HIDE DEF good, k
    <3>4. Held' \subseteq Held
      BY <3>3 DEF Held
    <3>5. PlaceInv'
      BY <2>1, <2>5, <3>1, <3>3, <3>4 DEF CodeInv, PlaceInv
    <3>6. FitInv'
      BY <2>1, <3>3 DEF CodeInv, FitInv
    <3> QED BY <2>6, <3>5, <3>6 DEF CodeInv
  <2> QED BY <2>7, <2>8
<1>30. ASSUME NEW q \in Slot, IssueToken(q) PROVE CodeInv'
  <2> DEFINE k == req[q].call.code
  <2>1. /\ issued' = With([t \in {fresh} |-> req[q]], issued)
        /\ fresh' = fresh + 1 /\ UNCHANGED <<codes, approved, refused>>
        /\ Goes(q, [pc |-> "served"]) /\ q \in Takers
    BY <1>30 DEF IssueToken, Ends, Leaves, Takers, At, Idle
  <2>2. \A p \in Takers' : p # q /\ p \in Takers /\ req'[p] = req[p]
    BY <2>1 DEF Goes, With, Takers, At, StageInv
  <2>3. k \in Held
    BY <2>1 DEF Held
  <2>4. /\ DOMAIN issued' = DOMAIN issued \cup {fresh} /\ issued'[fresh] = req[q]
        /\ fresh \notin DOMAIN issued
        /\ \A t \in DOMAIN issued : issued'[t] = issued[t]
    BY <2>1 DEF With, CodeInv, FreshInv
  <2>5. \A p \in Takers' : req'[p].call.code # k
    BY <2>1, <2>2 DEF CodeInv, PlaceInv
  <2> HIDE DEF k
  <2>6. Held' \subseteq Held \ {k}
    BY <2>2, <2>5 DEF Held
  <2>7. Answered' = Answered \cup {k}
    BY <2>4 DEF Answered, k
  <2>8. \A s, t \in DOMAIN issued' :
           issued'[s].call.code = issued'[t].call.code => s = t
    <3>1. \A t \in DOMAIN issued : issued[t].call.code # k
      BY <2>3 DEF CodeInv, PlaceInv, Answered
    <3> QED BY <2>4, <3>1 DEF CodeInv, PlaceInv, k
  <2>9. PlaceInv'
    BY <2>1, <2>2, <2>3, <2>6, <2>7, <2>8 DEF CodeInv, PlaceInv
  <2>10. FitInv'
    BY <2>1, <2>2, <2>4 DEF CodeInv, FitInv
  <2>11. FreshInv'
    BY <2>1, <2>4 DEF CodeInv, FreshInv
  <2> QED BY <2>9, <2>10, <2>11 DEF CodeInv
<1>31. ASSUME NEW q \in Slot, RequestFails(q) PROVE CodeInv'
  <2>1. fresh \in Nat
    BY DEF CodeInv, FreshInv
  <2>2. CodesStay
    BY <1>31, <2>1 DEF RequestFails, At, Goes, Ends, With, Leaves, world,
       past, CodesStay, Takers
  <2> QED BY <2>2, CodesStayKeeps
<1>32. ASSUME NEW q \in Slot, RequestEnds(q) PROVE CodeInv'
  <2>1. fresh \in Nat
    BY DEF CodeInv, FreshInv
  <2>2. CodesStay
    BY <1>32, <2>1 DEF RequestEnds, At, Leaves, world, past, CodesStay, Takers
  <2> QED BY <2>2, CodesStayKeeps
<1>33. CASE SetRepoVisibility
  <2>1. fresh \in Nat
    BY DEF CodeInv, FreshInv
  <2>2. CodesStay
    BY <1>33, <2>1 DEF SetRepoVisibility, Leaves, past, CodesStay, Takers, At
  <2> QED BY <2>2, CodesStayKeeps
<1>34. CASE CreateRepo
  <2>1. fresh \in Nat
    BY DEF CodeInv, FreshInv
  <2>2. CodesStay
    BY <1>34, <2>1 DEF CreateRepo, Leaves, past, CodesStay, Takers, At
  <2> QED BY <2>2, CodesStayKeeps
<1>35. CASE SlugMoves
  <2>1. fresh \in Nat
    BY DEF CodeInv, FreshInv
  <2>2. CodesStay
    BY <1>35, <2>1 DEF SlugMoves, Leaves, past, CodesStay, Takers, At
  <2> QED BY <2>2, CodesStayKeeps
<1>36. CASE Tick
  <2>1. fresh \in Nat
    BY DEF CodeInv, FreshInv
  <2>2. CodesStay
    BY <1>36, <2>1 DEF Tick, Leaves, past, CodesStay, Takers, At
  <2> QED BY <2>2, CodesStayKeeps
<1>37. ASSUME NEW u \in User, SignIn(u) PROVE CodeInv'
  <2>1. fresh \in Nat
    BY DEF CodeInv, FreshInv
  <2>2. CodesStay
    BY <1>37, <2>1 DEF SignIn, Leaves, past, CodesStay, Takers, At
  <2> QED BY <2>2, CodesStayKeeps
<1>38. ASSUME NEW u \in User, SignOut(u) PROVE CodeInv'
  <2>1. fresh \in Nat
    BY DEF CodeInv, FreshInv
  <2>2. CodesStay
    BY <1>38, <2>1 DEF SignOut, Leaves, past, CodesStay, Takers, At
  <2> QED BY <2>2, CodesStayKeeps
<1>39. ASSUME NEW w \in Workspace, DeleteWorkspace(w) PROVE CodeInv'
  <2>1. fresh \in Nat
    BY DEF CodeInv, FreshInv
  <2>2. CodesStay
    BY <1>39, <2>1 DEF DeleteWorkspace, Leaves, past, CodesStay, Takers, At
  <2> QED BY <2>2, CodesStayKeeps
<1>40. ASSUME NEW w \in Workspace, RotateWorkspaceToken(w) PROVE CodeInv'
  <2>1. fresh \in Nat
    BY DEF CodeInv, FreshInv
  <2>2. CodesStay
    BY <1>40, <2>1 DEF RotateWorkspaceToken, Leaves, past, CodesStay, Takers,
       At
  <2> QED BY <2>2, CodesStayKeeps
<1>41. CASE UNCHANGED vars
  <2>1. fresh \in Nat
    BY DEF CodeInv, FreshInv
  <2>2. CodesStay
    BY <1>41, <2>1 DEF vars, world, past, CodesStay, Takers, At
  <2> QED BY <2>2, CodesStayKeeps
<1> QED
  BY <1>1, <1>2, <1>3, <1>4, <1>5, <1>6, <1>7, <1>8, <1>9, <1>10, <1>11,
     <1>12, <1>13, <1>14, <1>15, <1>16, <1>17, <1>18, <1>19, <1>20, <1>21,
     <1>22, <1>23, <1>24, <1>25, <1>26, <1>27, <1>28, <1>29, <1>30, <1>31,
     <1>32, <1>33, <1>34, <1>35, <1>36, <1>37, <1>38, <1>39, <1>40, <1>41 DEF
     Next, Serve

-----------------------------------------------------------------------------
(* The theorems. *)

LEMMA InitInv == Init => IndInv
<1> SUFFICES ASSUME Init PROVE IndInv
  OBVIOUS
<1> USE DEF Init
<1>1. StageInv /\ SignedInv /\ LetPastInv
  BY DEF StageInv, SignedInv, LetPastInv
<1>2. WorldInv
  BY DEF WorldInv, Nothing
<1>3. FreshInv
  <2>1. Cardinality(Workspace) \in Nat
    BY FS_CardinalityType, WorkspaceAssumption
  <2> QED BY <2>1 DEF FreshInv, Nothing
<1>4. Takers = {} /\ Held = {} /\ Answered = {}
  BY DEF Takers, Held, Answered, Nothing
<1>5. PlaceInv /\ FitInv
  BY <1>4 DEF PlaceInv, FitInv, Nothing
<1> QED BY <1>1, <1>2, <1>3, <1>5 DEF IndInv, CodeInv

LEMMA NextInv == IndInv /\ [Next]_vars => IndInv'
BY StageStep, WorldStep, SignedStep, LetPastStep, CodeStep DEF IndInv

THEOREM Invariance == Spec => []IndInv
BY InitInv, NextInv, PTL DEF Spec

\* Nobody is served a report, a dashboard, a repo's or a workspace's settings or
\* an upload who at no moment of the request could have been: whatever changes
\* between its reads, a stale row or seat alone lets nobody in (authorizeReport,
\* reportCredentialGrants, oidcGrantsRead, memberRepo, ownerRepo,
\* memberWorkspace, lookupUploadToken, authOIDC).
THEOREM OnlyTheEntitledAreServed == Spec => []ServedWasEntitled
<1>1. IndInv => ServedWasEntitled
  <2> SUFFICES ASSUME IndInv, NEW q \in Slot, At(q, "served")
               PROVE  Entitled(q)
    BY DEF ServedWasEntitled, Entitled
  <2>1. req[q] # Idle
    BY DEF At, Idle
  <2> QED BY <2>1 DEF IndInv, LetPastInv, LetPast, At
<1> QED BY <1>1, Invariance, PTL

\* An authorization code is answered once: one token, for the user who approved
\* it, to an exchange that showed what the approval was for, and none after an
\* exchange that did not (handleMCPToken, ConsumeMCPCode).
THEOREM CodesAreAnsweredOnce == Spec => []OneAnswerPerCode
<1>1. IndInv => OneAnswerPerCode
  <2> SUFFICES ASSUME FreshInv, PlaceInv, FitInv PROVE OneAnswerPerCode
    BY DEF IndInv, CodeInv
  <2>1. \A t \in DOMAIN issued : issued[t].call.code \notin refused
    BY DEF PlaceInv, Answered
  <2> QED BY <2>1 DEF OneAnswerPerCode, PlaceInv, FitInv, Fits
<1> QED BY <1>1, Invariance, PTL
=============================================================================
