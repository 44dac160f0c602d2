-------------------------- MODULE GitHubApp_proofs --------------------------
(* Theorems about GitHubApp, for any processes, installations, requests and   *)
(* owners, and any number of faults and suspensions.                          *)
EXTENDS GitHubApp, TLAPS

\* What TypeOK says, the two counters apart.
Types ==
    /\ row \in Row
    /\ github \in [Installation -> {"live", "withheld", "gone"}]
    /\ announced \subseteq Delivery
    /\ cache \in [Process -> [Installation -> Token]]
    /\ req \in [Request -> RequestState]
    /\ own \in [Owner -> OwnerState]
    /\ hook \in HookState

Counts == faults \in 0..MaxFaults /\ withheld \in 0..MaxWithheld

\* A request under way is about an installation.
RequestInv ==
    \A r \in Request :
        req[r].pc /= "idle" => req[r].copy.inst \in Installation

\* GitHub has announced every installation that does not work.
AnnouncedInv ==
    \A i \in Installation :
        github[i] /= "live" => [inst |-> i, broken |-> TRUE] \in announced

\* So it has announced what a request was refused and what a handler listed.
RefusedInv ==
    \A r \in Request :
        req[r].pc = "refused" =>
            [inst |-> req[r].copy.inst, broken |-> TRUE] \in announced

HookInv == hook.pc = "listed" => hook.flag \in announced

\* The row, and every row an owner may still write back, is flagged for an
\* announced reason only.
Sound(c) ==
    /\ c.inst = NoInstallation => ~c.broken
    /\ c.broken => [inst |-> c.inst, broken |-> TRUE] \in announced

SoundInv == Sound(row) /\ \A o \in Owner : Sound(own[o].copy)

IndInv == /\ Types /\ Counts /\ RequestInv /\ AnnouncedInv /\ RefusedInv
          /\ HookInv /\ SoundInv

\* The absent workspace is a sound row, an owner's request that is over carries
\* nothing, and a delivery names an installation.
LEMMA EmptyIsRow == Empty \in Row /\ Sound(Empty)
  BY DEF Empty, Row, Maker, Sound

LEMMA DoneIsState == Done \in OwnerState /\ Done.copy = Empty
  BY EmptyIsRow DEF Done, Waiting, OwnerState, Kind

LEMMA IdleIsState == Idle \in RequestState
  BY EmptyIsRow DEF Idle, RequestState, Token

LEMMA NewRow ==
    ASSUME NEW o \in Owner
    PROVE  LET r == [id |-> o, inst |-> InstallationOf[o], broken |-> FALSE,
                     token |-> o]
           IN  r \in Row /\ Sound(r)
<1>1. InstallationOf[o] \in Installation
  BY OwnerAssumption
<1> QED BY <1>1 DEF Row, Maker, Sound

LEMMA DeliveryType ==
    ASSUME NEW i \in Installation, NEW b \in BOOLEAN
    PROVE  [inst |-> i, broken |-> b] \in Delivery
  BY DEF Delivery

\* The first state satisfies the invariant.
LEMMA InitInv == Init => IndInv
<1> SUFFICES ASSUME Init PROVE IndInv
  OBVIOUS
<1>1. Types
  <2>1. row \in Row
    <3>1. [id |-> Founder, inst |-> First, broken |-> FALSE,
           token |-> Founder] \in Row
      BY InstallationAssumption DEF Row, Maker
    <3> QED BY <3>1, EmptyIsRow DEF Init
  <2>2. cache \in [Process -> [Installation -> Token]]
    BY DEF Init, Token
  <2>3. req \in [Request -> RequestState]
    BY EmptyIsRow DEF Init, Idle, RequestState, Token
  <2>4. own \in [Owner -> OwnerState]
    BY EmptyIsRow DEF Init, Waiting, OwnerState, Kind
  <2>5. hook \in HookState
    BY InstallationAssumption DEF Init, NotListed, HookState, Delivery
  <2> QED BY <2>1, <2>2, <2>3, <2>4, <2>5 DEF Init, Types
<1>2. Counts
  BY BoundAssumption DEF Init, Counts
<1>3. RequestInv /\ AnnouncedInv /\ RefusedInv /\ HookInv
  BY DEF Init, Idle, NotListed, RequestInv, AnnouncedInv, RefusedInv, HookInv
<1>4. SoundInv
  BY EmptyIsRow, InstallationAssumption DEF Init, Waiting, SoundInv, Sound
<1> QED BY <1>1, <1>2, <1>3, <1>4 DEF IndInv

\* Every step keeps the types.
LEMMA TypesStep == Types /\ RequestInv /\ [Next]_vars => Types'
<1> SUFFICES ASSUME Types, RequestInv, [Next]_vars PROVE Types'
  OBVIOUS
<1>a. ASSUME UNCHANGED <<row, github, announced, own, hook>>,
             req' \in [Request -> RequestState],
             cache' = cache \/ cache' \in [Process -> [Installation -> Token]]
      PROVE  Types'
  BY <1>a DEF Types
<1>b. ASSUME UNCHANGED <<github, announced, req, cache, hook>>,
             row' = row \/ row' \in Row, own' \in [Owner -> OwnerState]
      PROVE  Types'
  BY <1>b DEF Types
<1>c. ASSUME UNCHANGED <<github, announced, cache, own>>, row' \in Row,
             req' \in [Request -> RequestState], hook' \in HookState
      PROVE  Types'
  BY <1>c DEF Types
<1>d. ASSUME NEW id, NEW inst, NEW b \in BOOLEAN,
             SetGitHubAppBroken(id, inst, b)
      PROVE  row' \in Row
  BY <1>d DEF SetGitHubAppBroken, Types, Row
<1>1. ASSUME NEW r \in Request, ReadWorkspace(r) PROVE Types'
  <2>1. [Idle EXCEPT !.pc = "read", !.copy = row] \in RequestState
    BY DEF Idle, RequestState, Token, Types
  <2>2. req' \in [Request -> RequestState]
    BY <1>1, <2>1 DEF ReadWorkspace, Types
  <2> QED BY <1>a, <1>1, <2>2 DEF ReadWorkspace, forge
<1>2. ASSUME NEW r \in Request, TokenCached(r) PROVE Types'
  <2>1. req[r].copy.inst \in Installation
    BY <1>2 DEF TokenCached, RequestInv
  <2>2. Cached(r) \in Token
    BY <2>1, RequestAssumption DEF Cached, Types
  <2>3. req' \in [Request -> RequestState]
    BY <1>2, <2>2 DEF TokenCached, Types, RequestState
  <2> QED BY <1>a, <1>2, <2>3 DEF TokenCached, forge
<1>3. ASSUME NEW r \in Request, TokenMissing(r) PROVE Types'
  <2>1. req' \in [Request -> RequestState]
    BY <1>3 DEF TokenMissing, Types, RequestState
  <2> QED BY <1>a, <1>3, <2>1 DEF TokenMissing, forge
<1>4. ASSUME NEW r \in Request, TokenValid(r) PROVE Types'
  <2>1. req' \in [Request -> RequestState]
    BY <1>4 DEF TokenValid, Types, RequestState
  <2> QED BY <1>a, <1>4, <2>1 DEF TokenValid, forge
<1>5. ASSUME NEW r \in Request, Invalidate(r) PROVE Types'
  <2>1. req' \in [Request -> RequestState]
    BY <1>5 DEF Invalidate, Types, RequestState
  <2>2. cache' \in [Process -> [Installation -> Token]]
    BY <1>5 DEF Invalidate, Types, Token
  <2> QED BY <1>a, <1>5, <2>1, <2>2 DEF Invalidate, forge
<1>6. ASSUME NEW r \in Request, Mint(r) PROVE Types'
  <2>1. req' \in [Request -> RequestState]
    BY <1>6 DEF Mint, Types, RequestState, Token
  <2> QED BY <1>a, <1>6, <2>1 DEF Mint, forge
<1>7. ASSUME NEW r \in Request, MintRefused(r) PROVE Types'
  <2>1. req' \in [Request -> RequestState]
    BY <1>7 DEF MintRefused, Types, RequestState
  <2> QED BY <1>a, <1>7, <2>1 DEF MintRefused, forge
<1>8. ASSUME NEW r \in Request, MintFails(r) PROVE Types'
  <2>1. req' \in [Request -> RequestState]
    BY <1>8, IdleIsState DEF MintFails, Types
  <2> QED BY <1>a, <1>8, <2>1 DEF MintFails, forge
<1>9. ASSUME NEW r \in Request, PutToken(r) PROVE Types'
  <2>1. req' \in [Request -> RequestState]
    BY <1>9 DEF PutToken, Types, RequestState
  <2>2. req[r].token \in Token
    BY DEF Types, RequestState
  <2>3. cache' \in [Process -> [Installation -> Token]]
    BY <1>9, <2>2 DEF PutToken, Types
  <2> QED BY <1>a, <1>9, <2>1, <2>3 DEF PutToken, forge
<1>10. ASSUME NEW r \in Request, Heal(r) PROVE Types'
  <2>1. req' \in [Request -> RequestState]
    BY <1>10, IdleIsState DEF Heal, Types
  <2>2. row' \in Row
    BY <1>10, <1>d DEF Heal, Types
  <2> QED BY <1>c, <1>10, <2>1, <2>2 DEF Heal, forge, Types
<1>11. ASSUME NEW r \in Request, UseClient(r) PROVE Types'
  <2>1. req' \in [Request -> RequestState]
    BY <1>11, IdleIsState DEF UseClient, Types
  <2> QED BY <1>a, <1>11, <2>1 DEF UseClient, forge
<1>12. ASSUME NEW r \in Request, MarkAppBroken(r) PROVE Types'
  <2>1. req' \in [Request -> RequestState]
    BY <1>12, IdleIsState DEF MarkAppBroken, Types
  <2>2. row' \in Row
    BY <1>12, <1>d DEF MarkAppBroken, Types
  <2> QED BY <1>c, <1>12, <2>1, <2>2 DEF MarkAppBroken, forge, Types
<1>13. ASSUME NEW r \in Request, FlagLost(r) PROVE Types'
  <2>1. req' \in [Request -> RequestState]
    BY <1>13, IdleIsState DEF FlagLost, Types
  <2> QED BY <1>a, <1>13, <2>1 DEF FlagLost, forge
<1>14. ASSUME NEW o \in Owner, InstallationAccount(o) PROVE Types'
  <2>1. own' \in [Owner -> OwnerState]
    BY <1>14 DEF InstallationAccount, Types, OwnerState, Kind
  <2> QED BY <1>b, <1>14, <2>1 DEF InstallationAccount, forge
<1>15. ASSUME NEW o \in Owner, NEW kind \in Kind, OwnerReads(o, kind)
      PROVE  Types'
  <2>1. [pc |-> "read", kind |-> kind, copy |-> row] \in OwnerState
    BY DEF OwnerState, Types
  <2>2. own' \in [Owner -> OwnerState]
    BY <1>15, <2>1 DEF OwnerReads, Types
  <2> QED BY <1>b, <1>15, <2>2 DEF OwnerReads, forge
<1>16. ASSUME NEW o \in Owner, OwnerFindsNone(o) PROVE Types'
  <2>1. own' \in [Owner -> OwnerState]
    BY <1>16 DEF OwnerFindsNone, Goto, Types, OwnerState
  <2> QED BY <1>b, <1>16, <2>1 DEF OwnerFindsNone, forge
<1>17. ASSUME NEW o \in Owner, RegisterWorkspace(o) PROVE Types'
  <2>1. CASE row.id = NoRow
    <3>1. row' \in Row
      BY <1>17, <2>1, NewRow DEF RegisterWorkspace
    <3>2. own' \in [Owner -> OwnerState]
      BY <1>17, <2>1, DoneIsState DEF RegisterWorkspace, Types
    <3> QED BY <1>b, <1>17, <3>1, <3>2 DEF RegisterWorkspace, forge
  <2>2. CASE row.id /= NoRow
    <3>1. own' = [own EXCEPT ![o].pc = "taken"] /\ row' = row
      BY <1>17, <2>2 DEF RegisterWorkspace, Goto
    <3>2. own' \in [Owner -> OwnerState]
      BY <3>1 DEF Types, OwnerState
    <3> QED BY <1>b, <1>17, <3>1, <3>2 DEF RegisterWorkspace, forge
  <2> QED BY <2>1, <2>2
<1>18. ASSUME NEW o \in Owner, UpdateWorkspace(o) PROVE Types'
  <2>1. own' \in [Owner -> OwnerState]
    BY <1>18, DoneIsState DEF UpdateWorkspace, Types
  <2>2. own[o].copy \in Row /\ own[o].kind \in Kind
    BY DEF Types, OwnerState
  <2>3. Edited(o, own[o].kind, own[o].copy) \in Row
    BY <2>2, OwnerAssumption DEF Edited, Row, Maker
  <2> QED BY <1>b, <1>18, <2>1, <2>3 DEF UpdateWorkspace, forge
<1>19. ASSUME NEW o \in Owner, DeleteWorkspace(o) PROVE Types'
  <2>1. own' \in [Owner -> OwnerState]
    BY <1>19, DoneIsState DEF DeleteWorkspace, Types
  <2> QED BY <1>b, <1>19, <2>1, EmptyIsRow DEF DeleteWorkspace, forge
<1>20. ASSUME NEW d \in Delivery, ListWorkspaces(d) PROVE Types'
  <2>1. hook' \in HookState
    BY <1>20 DEF ListWorkspaces, HookState, Types, Row
  <2> QED BY <1>c, <1>20, <2>1 DEF ListWorkspaces, forge, Types
<1>21. ASSUME SetInstallationBroken PROVE Types'
  <2>1. hook' \in HookState
    BY <1>21, InstallationAssumption DEF SetInstallationBroken, NotListed,
       HookState, Delivery
  <2>2. row' \in Row
    BY <1>21, <1>d DEF SetInstallationBroken, Types, HookState, Delivery
  <2> QED BY <1>c, <1>21, <2>1, <2>2 DEF SetInstallationBroken, forge, Types
<1>22. ASSUME NEW i \in Installation, Withhold(i) PROVE Types'
  <2>1. github' \in [Installation -> {"live", "withheld", "gone"}]
    BY <1>22 DEF Withhold, Types
  <2>2. announced' \subseteq Delivery
    BY <1>22, DeliveryType DEF Withhold, Announce, Types
  <2>3. \A t \in Token : Killed(t) \in Token
    BY DEF Killed, Token
  <2>4. cache' \in [Process -> [Installation -> Token]]
    BY <1>22, <2>3 DEF Withhold, KillTokens, Types
  <2>5. req' \in [Request -> RequestState]
    BY <1>22, <2>3 DEF Withhold, KillTokens, Types, RequestState
  <2> QED BY <1>22, <2>1, <2>2, <2>4, <2>5 DEF Withhold, Types
<1>23. ASSUME NEW i \in Installation, Restore(i) PROVE Types'
  <2>1. github' \in [Installation -> {"live", "withheld", "gone"}]
    BY <1>23 DEF Restore, Types
  <2>2. announced' \subseteq Delivery
    BY <1>23, DeliveryType DEF Restore, Announce, Types
  <2> QED BY <1>23, <2>1, <2>2 DEF Restore, Types
<1>24. ASSUME NEW i \in Installation, Uninstall(i) PROVE Types'
  <2>1. github' \in [Installation -> {"live", "withheld", "gone"}]
    BY <1>24 DEF Uninstall, Types
  <2>2. announced' \subseteq Delivery
    BY <1>24, DeliveryType DEF Uninstall, Announce, Types
  <2>3. \A t \in Token : Killed(t) \in Token
    BY DEF Killed, Token
  <2>4. cache' \in [Process -> [Installation -> Token]]
    BY <1>24, <2>3 DEF Uninstall, KillTokens, Types
  <2>5. req' \in [Request -> RequestState]
    BY <1>24, <2>3 DEF Uninstall, KillTokens, Types, RequestState
  <2> QED BY <1>24, <2>1, <2>2, <2>4, <2>5 DEF Uninstall, Types
<1>25. ASSUME NEW p \in Process, ProcessRestarts(p) PROVE Types'
  <2>1. req' \in [Request -> RequestState]
    BY <1>25, IdleIsState DEF ProcessRestarts, Types
  <2>2. cache' \in [Process -> [Installation -> Token]]
    BY <1>25 DEF ProcessRestarts, Types, Token
  <2> QED BY <1>a, <1>25, <2>1, <2>2 DEF ProcessRestarts, forge
<1>26. ASSUME NEW p \in Process, NEW i \in Installation, Expire(p, i)
      PROVE  Types'
  <2>1. cache' \in [Process -> [Installation -> Token]]
    BY <1>26 DEF Expire, Types, Token
  <2> QED BY <1>a, <1>26, <2>1 DEF Expire, forge, Types
<1>27. ASSUME UNCHANGED vars PROVE Types'
  BY <1>27 DEF vars, Types
<1> QED BY <1>1, <1>2, <1>3, <1>4, <1>5, <1>6, <1>7, <1>8, <1>9, <1>10, <1>11,
          <1>12, <1>13, <1>14, <1>15, <1>16, <1>17, <1>18, <1>19, <1>20,
          <1>21, <1>22, <1>23, <1>24, <1>25, <1>26, <1>27
     DEF Next, RequestStep, OwnerStep

\* Every step keeps the counters within their bounds.
LEMMA CountsStep == Counts /\ [Next]_vars => Counts'
<1> SUFFICES ASSUME Counts, [Next]_vars PROVE Counts'
  OBVIOUS
<1>a. ASSUME UNCHANGED <<faults, withheld>> PROVE Counts'
  BY <1>a DEF Counts
<1>b. ASSUME Fault, UNCHANGED withheld PROVE Counts'
  BY <1>b, BoundAssumption DEF Fault, Counts
<1>1. ASSUME NEW r \in Request, ReadWorkspace(r) PROVE Counts'
  BY <1>a, <1>1 DEF ReadWorkspace, forge
<1>2. ASSUME NEW r \in Request, TokenCached(r) PROVE Counts'
  BY <1>a, <1>2 DEF TokenCached, forge
<1>3. ASSUME NEW r \in Request, TokenMissing(r) PROVE Counts'
  BY <1>a, <1>3 DEF TokenMissing, forge
<1>4. ASSUME NEW r \in Request, TokenValid(r) PROVE Counts'
  BY <1>a, <1>b, <1>4 DEF TokenValid, forge
<1>5. ASSUME NEW r \in Request, Invalidate(r) PROVE Counts'
  BY <1>a, <1>5 DEF Invalidate, forge
<1>6. ASSUME NEW r \in Request, Mint(r) PROVE Counts'
  BY <1>a, <1>6 DEF Mint, forge
<1>7. ASSUME NEW r \in Request, MintRefused(r) PROVE Counts'
  BY <1>a, <1>7 DEF MintRefused, forge
<1>8. ASSUME NEW r \in Request, MintFails(r) PROVE Counts'
  BY <1>a, <1>b, <1>8 DEF MintFails, forge
<1>9. ASSUME NEW r \in Request, PutToken(r) PROVE Counts'
  BY <1>a, <1>9 DEF PutToken, forge
<1>10. ASSUME NEW r \in Request, Heal(r) PROVE Counts'
  BY <1>a, <1>10 DEF Heal, forge
<1>11. ASSUME NEW r \in Request, UseClient(r) PROVE Counts'
  BY <1>a, <1>11 DEF UseClient, forge
<1>12. ASSUME NEW r \in Request, MarkAppBroken(r) PROVE Counts'
  BY <1>a, <1>12 DEF MarkAppBroken, forge
<1>13. ASSUME NEW r \in Request, FlagLost(r) PROVE Counts'
  BY <1>a, <1>b, <1>13 DEF FlagLost, forge
<1>14. ASSUME NEW o \in Owner, InstallationAccount(o) PROVE Counts'
  BY <1>a, <1>14 DEF InstallationAccount, forge
<1>15. ASSUME NEW o \in Owner, NEW kind \in Kind, OwnerReads(o, kind)
      PROVE  Counts'
  BY <1>a, <1>15 DEF OwnerReads, forge
<1>16. ASSUME NEW o \in Owner, OwnerFindsNone(o) PROVE Counts'
  BY <1>a, <1>16 DEF OwnerFindsNone, forge
<1>17. ASSUME NEW o \in Owner, RegisterWorkspace(o) PROVE Counts'
  BY <1>a, <1>17 DEF RegisterWorkspace, forge
<1>18. ASSUME NEW o \in Owner, UpdateWorkspace(o) PROVE Counts'
  BY <1>a, <1>18 DEF UpdateWorkspace, forge
<1>19. ASSUME NEW o \in Owner, DeleteWorkspace(o) PROVE Counts'
  BY <1>a, <1>19 DEF DeleteWorkspace, forge
<1>20. ASSUME NEW d \in Delivery, ListWorkspaces(d) PROVE Counts'
  BY <1>a, <1>20 DEF ListWorkspaces, forge
<1>21. ASSUME SetInstallationBroken PROVE Counts'
  BY <1>a, <1>21 DEF SetInstallationBroken, forge
<1>22. ASSUME NEW i \in Installation, Withhold(i) PROVE Counts'
  BY <1>22, BoundAssumption DEF Withhold, Counts
<1>23. ASSUME NEW i \in Installation, Restore(i) PROVE Counts'
  BY <1>a, <1>23 DEF Restore
<1>24. ASSUME NEW i \in Installation, Uninstall(i) PROVE Counts'
  BY <1>a, <1>24 DEF Uninstall
<1>25. ASSUME NEW p \in Process, ProcessRestarts(p) PROVE Counts'
  BY <1>a, <1>b, <1>25 DEF ProcessRestarts, forge
<1>26. ASSUME NEW p \in Process, NEW i \in Installation, Expire(p, i)
      PROVE  Counts'
  BY <1>a, <1>26 DEF Expire, forge
<1>27. ASSUME UNCHANGED vars PROVE Counts'
  BY <1>a, <1>27 DEF vars
<1> QED BY <1>1, <1>2, <1>3, <1>4, <1>5, <1>6, <1>7, <1>8, <1>9, <1>10, <1>11,
          <1>12, <1>13, <1>14, <1>15, <1>16, <1>17, <1>18, <1>19, <1>20,
          <1>21, <1>22, <1>23, <1>24, <1>25, <1>26, <1>27
     DEF Next, RequestStep, OwnerStep

\* A request reads a linked row before it does anything with it.
LEMMA RequestStepInv == Types /\ RequestInv /\ [Next]_vars => RequestInv'
<1> SUFFICES ASSUME Types, RequestInv, [Next]_vars PROVE RequestInv'
  OBVIOUS
<1>a. ASSUME req' = req PROVE RequestInv'
  BY <1>a DEF RequestInv
<1>b. ASSUME \A q \in Request : \/ req'[q] = Idle
                                \/ /\ req'[q].copy = req[q].copy
                                   /\ req[q].pc = "idle" => req'[q].pc = "idle"
      PROVE  RequestInv'
  BY <1>b DEF RequestInv, Idle
<1>1. ASSUME NEW r \in Request, ReadWorkspace(r) PROVE RequestInv'
  <2>1. row.inst \in Installation
    BY <1>1 DEF ReadWorkspace, Types, Row
  <2>2. req'[r].copy = row /\ \A q \in Request \ {r} : req'[q] = req[q]
    BY <1>1 DEF ReadWorkspace, Types, Idle
  <2> QED BY <2>1, <2>2 DEF RequestInv
<1>2. ASSUME NEW r \in Request, TokenCached(r) PROVE RequestInv'
  BY <1>b, <1>2 DEF TokenCached, Types, RequestState
<1>3. ASSUME NEW r \in Request, TokenMissing(r) PROVE RequestInv'
  BY <1>b, <1>3 DEF TokenMissing, Types, RequestState
<1>4. ASSUME NEW r \in Request, TokenValid(r) PROVE RequestInv'
  BY <1>b, <1>4 DEF TokenValid, Types, RequestState
<1>5. ASSUME NEW r \in Request, Invalidate(r) PROVE RequestInv'
  BY <1>b, <1>5 DEF Invalidate, Types, RequestState
<1>6. ASSUME NEW r \in Request, Mint(r) PROVE RequestInv'
  BY <1>b, <1>6 DEF Mint, Types, RequestState
<1>7. ASSUME NEW r \in Request, MintRefused(r) PROVE RequestInv'
  BY <1>b, <1>7 DEF MintRefused, Types, RequestState
<1>8. ASSUME NEW r \in Request, MintFails(r) PROVE RequestInv'
  BY <1>b, <1>8 DEF MintFails, Types
<1>9. ASSUME NEW r \in Request, PutToken(r) PROVE RequestInv'
  BY <1>b, <1>9 DEF PutToken, Types, RequestState
<1>10. ASSUME NEW r \in Request, Heal(r) PROVE RequestInv'
  BY <1>b, <1>10 DEF Heal, Types
<1>11. ASSUME NEW r \in Request, UseClient(r) PROVE RequestInv'
  BY <1>b, <1>11 DEF UseClient, Types
<1>12. ASSUME NEW r \in Request, MarkAppBroken(r) PROVE RequestInv'
  BY <1>b, <1>12 DEF MarkAppBroken, Types
<1>13. ASSUME NEW r \in Request, FlagLost(r) PROVE RequestInv'
  BY <1>b, <1>13 DEF FlagLost, Types
<1>14. ASSUME NEW o \in Owner, InstallationAccount(o) PROVE RequestInv'
  BY <1>a, <1>14 DEF InstallationAccount, forge
<1>15. ASSUME NEW o \in Owner, NEW kind \in Kind, OwnerReads(o, kind)
      PROVE  RequestInv'
  BY <1>a, <1>15 DEF OwnerReads, forge
<1>16. ASSUME NEW o \in Owner, OwnerFindsNone(o) PROVE RequestInv'
  BY <1>a, <1>16 DEF OwnerFindsNone, forge
<1>17. ASSUME NEW o \in Owner, RegisterWorkspace(o) PROVE RequestInv'
  BY <1>a, <1>17 DEF RegisterWorkspace, forge
<1>18. ASSUME NEW o \in Owner, UpdateWorkspace(o) PROVE RequestInv'
  BY <1>a, <1>18 DEF UpdateWorkspace, forge
<1>19. ASSUME NEW o \in Owner, DeleteWorkspace(o) PROVE RequestInv'
  BY <1>a, <1>19 DEF DeleteWorkspace, forge
<1>20. ASSUME NEW d \in Delivery, ListWorkspaces(d) PROVE RequestInv'
  BY <1>a, <1>20 DEF ListWorkspaces, forge
<1>21. ASSUME SetInstallationBroken PROVE RequestInv'
  BY <1>a, <1>21 DEF SetInstallationBroken, forge
<1>22. ASSUME NEW i \in Installation, Withhold(i) PROVE RequestInv'
  BY <1>b, <1>22 DEF Withhold, KillTokens
<1>23. ASSUME NEW i \in Installation, Restore(i) PROVE RequestInv'
  BY <1>a, <1>23 DEF Restore
<1>24. ASSUME NEW i \in Installation, Uninstall(i) PROVE RequestInv'
  BY <1>b, <1>24 DEF Uninstall, KillTokens
<1>25. ASSUME NEW p \in Process, ProcessRestarts(p) PROVE RequestInv'
  BY <1>b, <1>25 DEF ProcessRestarts
<1>26. ASSUME NEW p \in Process, NEW i \in Installation, Expire(p, i)
      PROVE  RequestInv'
  BY <1>a, <1>26 DEF Expire, forge
<1>27. ASSUME UNCHANGED vars PROVE RequestInv'
  BY <1>a, <1>27 DEF vars
<1> QED BY <1>1, <1>2, <1>3, <1>4, <1>5, <1>6, <1>7, <1>8, <1>9, <1>10, <1>11,
          <1>12, <1>13, <1>14, <1>15, <1>16, <1>17, <1>18, <1>19, <1>20,
          <1>21, <1>22, <1>23, <1>24, <1>25, <1>26, <1>27
     DEF Next, RequestStep, OwnerStep

\* Announcements stay, and precede what they announce.
LEMMA AnnouncedStep ==
    Types /\ AnnouncedInv /\ [Next]_vars
        => AnnouncedInv' /\ announced \subseteq announced'
<1> SUFFICES ASSUME Types, AnnouncedInv, [Next]_vars
             PROVE  AnnouncedInv' /\ announced \subseteq announced'
  OBVIOUS
<1>a. ASSUME UNCHANGED <<github, announced>>
      PROVE  AnnouncedInv' /\ announced \subseteq announced'
  BY <1>a DEF AnnouncedInv
<1>1. ASSUME NEW r \in Request, ReadWorkspace(r)
      PROVE  AnnouncedInv' /\ announced \subseteq announced'
  BY <1>a, <1>1 DEF ReadWorkspace, forge
<1>2. ASSUME NEW r \in Request, TokenCached(r)
      PROVE  AnnouncedInv' /\ announced \subseteq announced'
  BY <1>a, <1>2 DEF TokenCached, forge
<1>3. ASSUME NEW r \in Request, TokenMissing(r)
      PROVE  AnnouncedInv' /\ announced \subseteq announced'
  BY <1>a, <1>3 DEF TokenMissing, forge
<1>4. ASSUME NEW r \in Request, TokenValid(r)
      PROVE  AnnouncedInv' /\ announced \subseteq announced'
  BY <1>a, <1>4 DEF TokenValid, forge
<1>5. ASSUME NEW r \in Request, Invalidate(r)
      PROVE  AnnouncedInv' /\ announced \subseteq announced'
  BY <1>a, <1>5 DEF Invalidate, forge
<1>6. ASSUME NEW r \in Request, Mint(r)
      PROVE  AnnouncedInv' /\ announced \subseteq announced'
  BY <1>a, <1>6 DEF Mint, forge
<1>7. ASSUME NEW r \in Request, MintRefused(r)
      PROVE  AnnouncedInv' /\ announced \subseteq announced'
  BY <1>a, <1>7 DEF MintRefused, forge
<1>8. ASSUME NEW r \in Request, MintFails(r)
      PROVE  AnnouncedInv' /\ announced \subseteq announced'
  BY <1>a, <1>8 DEF MintFails, forge
<1>9. ASSUME NEW r \in Request, PutToken(r)
      PROVE  AnnouncedInv' /\ announced \subseteq announced'
  BY <1>a, <1>9 DEF PutToken, forge
<1>10. ASSUME NEW r \in Request, Heal(r)
      PROVE  AnnouncedInv' /\ announced \subseteq announced'
  BY <1>a, <1>10 DEF Heal, forge
<1>11. ASSUME NEW r \in Request, UseClient(r)
      PROVE  AnnouncedInv' /\ announced \subseteq announced'
  BY <1>a, <1>11 DEF UseClient, forge
<1>12. ASSUME NEW r \in Request, MarkAppBroken(r)
      PROVE  AnnouncedInv' /\ announced \subseteq announced'
  BY <1>a, <1>12 DEF MarkAppBroken, forge
<1>13. ASSUME NEW r \in Request, FlagLost(r)
      PROVE  AnnouncedInv' /\ announced \subseteq announced'
  BY <1>a, <1>13 DEF FlagLost, forge
<1>14. ASSUME NEW o \in Owner, InstallationAccount(o)
      PROVE  AnnouncedInv' /\ announced \subseteq announced'
  BY <1>a, <1>14 DEF InstallationAccount, forge
<1>15. ASSUME NEW o \in Owner, NEW kind \in Kind, OwnerReads(o, kind)
      PROVE  AnnouncedInv' /\ announced \subseteq announced'
  BY <1>a, <1>15 DEF OwnerReads, forge
<1>16. ASSUME NEW o \in Owner, OwnerFindsNone(o)
      PROVE  AnnouncedInv' /\ announced \subseteq announced'
  BY <1>a, <1>16 DEF OwnerFindsNone, forge
<1>17. ASSUME NEW o \in Owner, RegisterWorkspace(o)
      PROVE  AnnouncedInv' /\ announced \subseteq announced'
  BY <1>a, <1>17 DEF RegisterWorkspace, forge
<1>18. ASSUME NEW o \in Owner, UpdateWorkspace(o)
      PROVE  AnnouncedInv' /\ announced \subseteq announced'
  BY <1>a, <1>18 DEF UpdateWorkspace, forge
<1>19. ASSUME NEW o \in Owner, DeleteWorkspace(o)
      PROVE  AnnouncedInv' /\ announced \subseteq announced'
  BY <1>a, <1>19 DEF DeleteWorkspace, forge
<1>20. ASSUME NEW d \in Delivery, ListWorkspaces(d)
      PROVE  AnnouncedInv' /\ announced \subseteq announced'
  BY <1>a, <1>20 DEF ListWorkspaces, forge
<1>21. ASSUME SetInstallationBroken
      PROVE  AnnouncedInv' /\ announced \subseteq announced'
  BY <1>a, <1>21 DEF SetInstallationBroken, forge
<1>22. ASSUME NEW i \in Installation, Withhold(i)
      PROVE  AnnouncedInv' /\ announced \subseteq announced'
  BY <1>22 DEF Withhold, Announce, AnnouncedInv, Types
<1>23. ASSUME NEW i \in Installation, Restore(i)
      PROVE  AnnouncedInv' /\ announced \subseteq announced'
  BY <1>23 DEF Restore, Announce, AnnouncedInv
<1>24. ASSUME NEW i \in Installation, Uninstall(i)
      PROVE  AnnouncedInv' /\ announced \subseteq announced'
  BY <1>24 DEF Uninstall, Announce, AnnouncedInv, Types
<1>25. ASSUME NEW p \in Process, ProcessRestarts(p)
      PROVE  AnnouncedInv' /\ announced \subseteq announced'
  BY <1>a, <1>25 DEF ProcessRestarts, forge
<1>26. ASSUME NEW p \in Process, NEW i \in Installation, Expire(p, i)
      PROVE  AnnouncedInv' /\ announced \subseteq announced'
  BY <1>a, <1>26 DEF Expire, forge
<1>27. ASSUME UNCHANGED vars
      PROVE  AnnouncedInv' /\ announced \subseteq announced'
  BY <1>a, <1>27 DEF vars
<1> QED BY <1>1, <1>2, <1>3, <1>4, <1>5, <1>6, <1>7, <1>8, <1>9, <1>10, <1>11,
          <1>12, <1>13, <1>14, <1>15, <1>16, <1>17, <1>18, <1>19, <1>20,
          <1>21, <1>22, <1>23, <1>24, <1>25, <1>26, <1>27
     DEF Next, RequestStep, OwnerStep

\* A refusal comes from an announced installation.
LEMMA RefusedStep ==
    Types /\ RequestInv /\ AnnouncedInv /\ RefusedInv /\ [Next]_vars
        => RefusedInv'
<1> SUFFICES ASSUME Types, RequestInv, AnnouncedInv, RefusedInv, [Next]_vars
             PROVE  RefusedInv'
  OBVIOUS
<1>s. announced \subseteq announced'
  BY AnnouncedStep
<1>a. ASSUME req' = req PROVE RefusedInv'
  BY <1>a, <1>s DEF RefusedInv
<1>b. ASSUME \A q \in Request : req'[q].pc = "refused" =>
                 req[q].pc = "refused" /\ req'[q].copy = req[q].copy
      PROVE  RefusedInv'
  BY <1>b, <1>s DEF RefusedInv
<1>1. ASSUME NEW r \in Request, ReadWorkspace(r) PROVE RefusedInv'
  BY <1>b, <1>1 DEF ReadWorkspace, Types, Idle
<1>2. ASSUME NEW r \in Request, TokenCached(r) PROVE RefusedInv'
  BY <1>b, <1>2 DEF TokenCached, Types, RequestState
<1>3. ASSUME NEW r \in Request, TokenMissing(r) PROVE RefusedInv'
  BY <1>b, <1>3 DEF TokenMissing, Types, RequestState
<1>4. ASSUME NEW r \in Request, TokenValid(r) PROVE RefusedInv'
  BY <1>b, <1>4 DEF TokenValid, Types, RequestState
<1>5. ASSUME NEW r \in Request, Invalidate(r) PROVE RefusedInv'
  BY <1>b, <1>5 DEF Invalidate, Types, RequestState
<1>6. ASSUME NEW r \in Request, Mint(r) PROVE RefusedInv'
  BY <1>b, <1>6 DEF Mint, Types, RequestState
<1>7. ASSUME NEW r \in Request, MintRefused(r) PROVE RefusedInv'
  <2>1. req[r].copy.inst \in Installation
    BY <1>7 DEF MintRefused, RequestInv
  <2>2. [inst |-> req[r].copy.inst, broken |-> TRUE] \in announced
    BY <1>7, <2>1 DEF MintRefused, AnnouncedInv
  <2>3. \A q \in Request : /\ req'[q].copy = req[q].copy
                           /\ q /= r => req'[q].pc = req[q].pc
    BY <1>7 DEF MintRefused, Types, RequestState
  <2> QED BY <1>s, <2>2, <2>3 DEF RefusedInv
<1>8. ASSUME NEW r \in Request, MintFails(r) PROVE RefusedInv'
  BY <1>b, <1>8 DEF MintFails, Types, Idle
<1>9. ASSUME NEW r \in Request, PutToken(r) PROVE RefusedInv'
  BY <1>b, <1>9 DEF PutToken, Types, RequestState
<1>10. ASSUME NEW r \in Request, Heal(r) PROVE RefusedInv'
  BY <1>b, <1>10 DEF Heal, Types, Idle
<1>11. ASSUME NEW r \in Request, UseClient(r) PROVE RefusedInv'
  BY <1>b, <1>11 DEF UseClient, Types, Idle
<1>12. ASSUME NEW r \in Request, MarkAppBroken(r) PROVE RefusedInv'
  BY <1>b, <1>12 DEF MarkAppBroken, Types, Idle
<1>13. ASSUME NEW r \in Request, FlagLost(r) PROVE RefusedInv'
  BY <1>b, <1>13 DEF FlagLost, Types, Idle
<1>14. ASSUME NEW o \in Owner, InstallationAccount(o) PROVE RefusedInv'
  BY <1>a, <1>14 DEF InstallationAccount, forge
<1>15. ASSUME NEW o \in Owner, NEW kind \in Kind, OwnerReads(o, kind)
      PROVE  RefusedInv'
  BY <1>a, <1>15 DEF OwnerReads, forge
<1>16. ASSUME NEW o \in Owner, OwnerFindsNone(o) PROVE RefusedInv'
  BY <1>a, <1>16 DEF OwnerFindsNone, forge
<1>17. ASSUME NEW o \in Owner, RegisterWorkspace(o) PROVE RefusedInv'
  BY <1>a, <1>17 DEF RegisterWorkspace, forge
<1>18. ASSUME NEW o \in Owner, UpdateWorkspace(o) PROVE RefusedInv'
  BY <1>a, <1>18 DEF UpdateWorkspace, forge
<1>19. ASSUME NEW o \in Owner, DeleteWorkspace(o) PROVE RefusedInv'
  BY <1>a, <1>19 DEF DeleteWorkspace, forge
<1>20. ASSUME NEW d \in Delivery, ListWorkspaces(d) PROVE RefusedInv'
  BY <1>a, <1>20 DEF ListWorkspaces, forge
<1>21. ASSUME SetInstallationBroken PROVE RefusedInv'
  BY <1>a, <1>21 DEF SetInstallationBroken, forge
<1>22. ASSUME NEW i \in Installation, Withhold(i) PROVE RefusedInv'
  BY <1>b, <1>22 DEF Withhold, KillTokens
<1>23. ASSUME NEW i \in Installation, Restore(i) PROVE RefusedInv'
  BY <1>a, <1>23 DEF Restore
<1>24. ASSUME NEW i \in Installation, Uninstall(i) PROVE RefusedInv'
  BY <1>b, <1>24 DEF Uninstall, KillTokens
<1>25. ASSUME NEW p \in Process, ProcessRestarts(p) PROVE RefusedInv'
  BY <1>b, <1>25 DEF ProcessRestarts, Idle
<1>26. ASSUME NEW p \in Process, NEW i \in Installation, Expire(p, i)
      PROVE  RefusedInv'
  BY <1>a, <1>26 DEF Expire, forge
<1>27. ASSUME UNCHANGED vars PROVE RefusedInv'
  BY <1>a, <1>27 DEF vars
<1> QED BY <1>1, <1>2, <1>3, <1>4, <1>5, <1>6, <1>7, <1>8, <1>9, <1>10, <1>11,
          <1>12, <1>13, <1>14, <1>15, <1>16, <1>17, <1>18, <1>19, <1>20,
          <1>21, <1>22, <1>23, <1>24, <1>25, <1>26, <1>27
     DEF Next, RequestStep, OwnerStep

\* A handler acts on a delivery that was sent.
LEMMA HookStep == Types /\ AnnouncedInv /\ HookInv /\ [Next]_vars => HookInv'
<1> SUFFICES ASSUME Types, AnnouncedInv, HookInv, [Next]_vars PROVE HookInv'
  OBVIOUS
<1>s. announced \subseteq announced'
  BY AnnouncedStep
<1>a. ASSUME hook' = hook PROVE HookInv'
  BY <1>s, <1>a DEF HookInv
<1>1. ASSUME NEW r \in Request, ReadWorkspace(r) PROVE HookInv'
  BY <1>a, <1>1 DEF ReadWorkspace, forge
<1>2. ASSUME NEW r \in Request, TokenCached(r) PROVE HookInv'
  BY <1>a, <1>2 DEF TokenCached, forge
<1>3. ASSUME NEW r \in Request, TokenMissing(r) PROVE HookInv'
  BY <1>a, <1>3 DEF TokenMissing, forge
<1>4. ASSUME NEW r \in Request, TokenValid(r) PROVE HookInv'
  BY <1>a, <1>4 DEF TokenValid, forge
<1>5. ASSUME NEW r \in Request, Invalidate(r) PROVE HookInv'
  BY <1>a, <1>5 DEF Invalidate, forge
<1>6. ASSUME NEW r \in Request, Mint(r) PROVE HookInv'
  BY <1>a, <1>6 DEF Mint, forge
<1>7. ASSUME NEW r \in Request, MintRefused(r) PROVE HookInv'
  BY <1>a, <1>7 DEF MintRefused, forge
<1>8. ASSUME NEW r \in Request, MintFails(r) PROVE HookInv'
  BY <1>a, <1>8 DEF MintFails, forge
<1>9. ASSUME NEW r \in Request, PutToken(r) PROVE HookInv'
  BY <1>a, <1>9 DEF PutToken, forge
<1>10. ASSUME NEW r \in Request, Heal(r) PROVE HookInv'
  BY <1>a, <1>10 DEF Heal, forge
<1>11. ASSUME NEW r \in Request, UseClient(r) PROVE HookInv'
  BY <1>a, <1>11 DEF UseClient, forge
<1>12. ASSUME NEW r \in Request, MarkAppBroken(r) PROVE HookInv'
  BY <1>a, <1>12 DEF MarkAppBroken, forge
<1>13. ASSUME NEW r \in Request, FlagLost(r) PROVE HookInv'
  BY <1>a, <1>13 DEF FlagLost, forge
<1>14. ASSUME NEW o \in Owner, InstallationAccount(o) PROVE HookInv'
  BY <1>a, <1>14 DEF InstallationAccount, forge
<1>15. ASSUME NEW o \in Owner, NEW kind \in Kind, OwnerReads(o, kind)
      PROVE  HookInv'
  BY <1>a, <1>15 DEF OwnerReads, forge
<1>16. ASSUME NEW o \in Owner, OwnerFindsNone(o) PROVE HookInv'
  BY <1>a, <1>16 DEF OwnerFindsNone, forge
<1>17. ASSUME NEW o \in Owner, RegisterWorkspace(o) PROVE HookInv'
  BY <1>a, <1>17 DEF RegisterWorkspace, forge
<1>18. ASSUME NEW o \in Owner, UpdateWorkspace(o) PROVE HookInv'
  BY <1>a, <1>18 DEF UpdateWorkspace, forge
<1>19. ASSUME NEW o \in Owner, DeleteWorkspace(o) PROVE HookInv'
  BY <1>a, <1>19 DEF DeleteWorkspace, forge
<1>20. ASSUME NEW d \in Delivery, ListWorkspaces(d) PROVE HookInv'
  BY <1>20 DEF ListWorkspaces, forge, HookInv
<1>21. ASSUME SetInstallationBroken PROVE HookInv'
  BY <1>21 DEF SetInstallationBroken, NotListed, HookInv
<1>22. ASSUME NEW i \in Installation, Withhold(i) PROVE HookInv'
  BY <1>a, <1>22 DEF Withhold
<1>23. ASSUME NEW i \in Installation, Restore(i) PROVE HookInv'
  BY <1>a, <1>23 DEF Restore
<1>24. ASSUME NEW i \in Installation, Uninstall(i) PROVE HookInv'
  BY <1>a, <1>24 DEF Uninstall
<1>25. ASSUME NEW p \in Process, ProcessRestarts(p) PROVE HookInv'
  BY <1>a, <1>25 DEF ProcessRestarts, forge
<1>26. ASSUME NEW p \in Process, NEW i \in Installation, Expire(p, i)
      PROVE  HookInv'
  BY <1>a, <1>26 DEF Expire, forge
<1>27. ASSUME UNCHANGED vars PROVE HookInv'
  BY <1>a, <1>27 DEF vars
<1> QED BY <1>1, <1>2, <1>3, <1>4, <1>5, <1>6, <1>7, <1>8, <1>9, <1>10, <1>11,
          <1>12, <1>13, <1>14, <1>15, <1>16, <1>17, <1>18, <1>19, <1>20,
          <1>21, <1>22, <1>23, <1>24, <1>25, <1>26, <1>27
     DEF Next, RequestStep, OwnerStep

\* No write flags the row without an announced reason.
LEMMA SoundStep ==
    /\ Types /\ RequestInv /\ AnnouncedInv /\ RefusedInv /\ HookInv /\ SoundInv
    /\ [Next]_vars
    => SoundInv'
<1> SUFFICES ASSUME Types, RequestInv, AnnouncedInv, RefusedInv, HookInv,
                    SoundInv, [Next]_vars
             PROVE  SoundInv'
  OBVIOUS
<1>s. announced \subseteq announced'
  BY AnnouncedStep
<1>a. ASSUME UNCHANGED <<row, own>> PROVE SoundInv'
  BY <1>s, <1>a DEF SoundInv, Sound
<1>b. ASSUME row' = row \/ Sound(row'),
             \A q \in Owner : own'[q].copy \in {own[q].copy, row, Empty}
      PROVE  SoundInv'
  BY <1>s, <1>b, EmptyIsRow DEF SoundInv, Sound
<1>c. ASSUME NEW id, NEW i \in Installation, NEW b \in BOOLEAN,
             b => [inst |-> i, broken |-> TRUE] \in announced,
             SetGitHubAppBroken(id, i, b), own' = own
      PROVE  SoundInv'
  <2>1. CASE row' = row
    BY <1>a, <1>c, <2>1
  <2>2. CASE row' = [row EXCEPT !.broken = b] /\ row.inst = i
    <3>1. row'.inst = i /\ row'.broken = b
      BY <2>2 DEF Types, Row
    <3>2. Sound(row)'
      BY <1>s, <1>c, <3>1, InstallationAssumption DEF Sound
    <3> QED BY <1>s, <1>c, <3>2 DEF SoundInv, Sound
  <2> QED BY <1>c, <2>1, <2>2 DEF SetGitHubAppBroken
<1>1. ASSUME NEW r \in Request, ReadWorkspace(r) PROVE SoundInv'
  BY <1>a, <1>1 DEF ReadWorkspace, forge
<1>2. ASSUME NEW r \in Request, TokenCached(r) PROVE SoundInv'
  BY <1>a, <1>2 DEF TokenCached, forge
<1>3. ASSUME NEW r \in Request, TokenMissing(r) PROVE SoundInv'
  BY <1>a, <1>3 DEF TokenMissing, forge
<1>4. ASSUME NEW r \in Request, TokenValid(r) PROVE SoundInv'
  BY <1>a, <1>4 DEF TokenValid, forge
<1>5. ASSUME NEW r \in Request, Invalidate(r) PROVE SoundInv'
  BY <1>a, <1>5 DEF Invalidate, forge
<1>6. ASSUME NEW r \in Request, Mint(r) PROVE SoundInv'
  BY <1>a, <1>6 DEF Mint, forge
<1>7. ASSUME NEW r \in Request, MintRefused(r) PROVE SoundInv'
  BY <1>a, <1>7 DEF MintRefused, forge
<1>8. ASSUME NEW r \in Request, MintFails(r) PROVE SoundInv'
  BY <1>a, <1>8 DEF MintFails, forge
<1>9. ASSUME NEW r \in Request, PutToken(r) PROVE SoundInv'
  BY <1>a, <1>9 DEF PutToken, forge
<1>10. ASSUME NEW r \in Request, Heal(r) PROVE SoundInv'
  <2>1. req[r].copy.inst \in Installation
    BY <1>10 DEF Heal, RequestInv
  <2> QED BY <1>c, <1>10, <2>1 DEF Heal
<1>11. ASSUME NEW r \in Request, UseClient(r) PROVE SoundInv'
  BY <1>a, <1>11 DEF UseClient, forge
<1>12. ASSUME NEW r \in Request, MarkAppBroken(r) PROVE SoundInv'
  <2>1. CASE req[r].copy.broken
    BY <1>a, <1>12, <2>1 DEF MarkAppBroken
  <2>2. CASE ~req[r].copy.broken
    <3>1. req[r].copy.inst \in Installation
      BY <1>12 DEF MarkAppBroken, RequestInv
    <3>2. [inst |-> req[r].copy.inst, broken |-> TRUE] \in announced
      BY <1>12 DEF MarkAppBroken, RefusedInv
    <3> QED BY <1>c, <1>12, <2>2, <3>1, <3>2 DEF MarkAppBroken
  <2> QED BY <2>1, <2>2
<1>13. ASSUME NEW r \in Request, FlagLost(r) PROVE SoundInv'
  BY <1>a, <1>13 DEF FlagLost, forge
<1>14. ASSUME NEW o \in Owner, InstallationAccount(o) PROVE SoundInv'
  BY <1>b, <1>14 DEF InstallationAccount, Types, OwnerState
<1>15. ASSUME NEW o \in Owner, NEW kind \in Kind, OwnerReads(o, kind)
      PROVE  SoundInv'
  BY <1>b, <1>15 DEF OwnerReads, Types
<1>16. ASSUME NEW o \in Owner, OwnerFindsNone(o) PROVE SoundInv'
  BY <1>b, <1>16 DEF OwnerFindsNone, Goto
<1>17. ASSUME NEW o \in Owner, RegisterWorkspace(o) PROVE SoundInv'
  <2>1. \A q \in Owner : own'[q].copy \in {own[q].copy, Empty}
    BY <1>17, DoneIsState DEF RegisterWorkspace, Goto, Types, OwnerState
  <2>2. row' = row \/ Sound(row')
    BY <1>17, NewRow DEF RegisterWorkspace
  <2> QED BY <1>b, <2>1, <2>2
<1>18. ASSUME NEW o \in Owner, UpdateWorkspace(o) PROVE SoundInv'
  <2>1. \A q \in Owner : own'[q].copy \in {own[q].copy, Empty}
    BY <1>18, DoneIsState DEF UpdateWorkspace, Types, OwnerState
  <2>2. Sound(own[o].copy) /\ own[o].copy \in Row
    BY DEF SoundInv, Types, OwnerState
  <2>3. Sound(Edited(o, own[o].kind, own[o].copy))
    BY <2>2 DEF Edited, Sound, Row
  <2>4. row' = row \/ Sound(row')
    BY <1>18, <2>3 DEF UpdateWorkspace
  <2> QED BY <1>b, <2>1, <2>4
<1>19. ASSUME NEW o \in Owner, DeleteWorkspace(o) PROVE SoundInv'
  <2>1. \A q \in Owner : own'[q].copy \in {own[q].copy, Empty}
    BY <1>19, DoneIsState DEF DeleteWorkspace, Types, OwnerState
  <2>2. row' = row \/ Sound(row')
    BY <1>19, EmptyIsRow DEF DeleteWorkspace
  <2> QED BY <1>b, <2>1, <2>2
<1>20. ASSUME NEW d \in Delivery, ListWorkspaces(d) PROVE SoundInv'
  BY <1>a, <1>20 DEF ListWorkspaces, forge
<1>21. ASSUME SetInstallationBroken PROVE SoundInv'
  <2>1. hook.flag \in Delivery
    BY DEF Types, HookState
  <2>2. hook.flag.inst \in Installation /\ hook.flag.broken \in BOOLEAN
    BY <2>1 DEF Delivery
  <2>3. hook.flag.broken
        => [inst |-> hook.flag.inst, broken |-> TRUE] \in announced
    BY <1>21, <2>1 DEF SetInstallationBroken, HookInv, Delivery
  <2> QED BY <1>c, <1>21, <2>2, <2>3 DEF SetInstallationBroken
<1>22. ASSUME NEW i \in Installation, Withhold(i) PROVE SoundInv'
  BY <1>a, <1>22 DEF Withhold
<1>23. ASSUME NEW i \in Installation, Restore(i) PROVE SoundInv'
  BY <1>a, <1>23 DEF Restore
<1>24. ASSUME NEW i \in Installation, Uninstall(i) PROVE SoundInv'
  BY <1>a, <1>24 DEF Uninstall
<1>25. ASSUME NEW p \in Process, ProcessRestarts(p) PROVE SoundInv'
  BY <1>a, <1>25 DEF ProcessRestarts, forge
<1>26. ASSUME NEW p \in Process, NEW i \in Installation, Expire(p, i)
      PROVE  SoundInv'
  BY <1>a, <1>26 DEF Expire, forge
<1>27. ASSUME UNCHANGED vars PROVE SoundInv'
  BY <1>a, <1>27 DEF vars
<1> QED BY <1>1, <1>2, <1>3, <1>4, <1>5, <1>6, <1>7, <1>8, <1>9, <1>10, <1>11,
          <1>12, <1>13, <1>14, <1>15, <1>16, <1>17, <1>18, <1>19, <1>20,
          <1>21, <1>22, <1>23, <1>24, <1>25, <1>26, <1>27
     DEF Next, RequestStep, OwnerStep

\* The invariant holds throughout.
THEOREM Invariant == Spec => []IndInv
<1>1. IndInv /\ [Next]_vars => IndInv'
  BY TypesStep, CountsStep, RequestStepInv, AnnouncedStep, RefusedStep,
     HookStep, SoundStep DEF IndInv
<1> QED BY InitInv, <1>1, PTL DEF Spec

\* Every variable keeps its type, and a row without a link has no flag.
THEOREM TypeCorrect == Spec => []TypeOK
<1>1. IndInv => TypeOK
  BY DEF IndInv, Types, Counts, SoundInv, Sound, TypeOK
<1> QED BY Invariant, <1>1, PTL

\* The flag asks for a reconnect of an installation GitHub has withheld or
\* lost, never of its replacement: SetGitHubAppBroken's guard is enough against
\* every late refusal and webhook, and owners' stale writes carry flag and link
\* together.
THEOREM FlagIsDeserved == Spec => []BrokenWasRefused
<1>1. IndInv => BrokenWasRefused
  BY DEF IndInv, SoundInv, Sound, BrokenWasRefused
<1> QED BY Invariant, <1>1, PTL

\* Requests and webhooks change nothing of the row but the flag, and an owner
\* who changes the row is done by it.
LEMMA KeptStep ==
    Types /\ [Next]_vars /\ own' = own =>
        [row' EXCEPT !.broken = FALSE] = [row EXCEPT !.broken = FALSE]
<1> DEFINE Kept == [row' EXCEPT !.broken = FALSE] = [row EXCEPT !.broken = FALSE]
<1> SUFFICES ASSUME Types, [Next]_vars, own' = own PROVE Kept
  OBVIOUS
<1>a. ASSUME row' = row PROVE Kept
  BY <1>a
<1>b. \A id, i : \A b \in BOOLEAN : SetGitHubAppBroken(id, i, b) => Kept
  BY DEF SetGitHubAppBroken, Types, Row
<1> HIDE DEF Kept
<1>1. ASSUME NEW r \in Request, ReadWorkspace(r) PROVE Kept
  BY <1>a, <1>1 DEF ReadWorkspace, forge
<1>2. ASSUME NEW r \in Request, TokenCached(r) PROVE Kept
  BY <1>a, <1>2 DEF TokenCached, forge
<1>3. ASSUME NEW r \in Request, TokenMissing(r) PROVE Kept
  BY <1>a, <1>3 DEF TokenMissing, forge
<1>4. ASSUME NEW r \in Request, TokenValid(r) PROVE Kept
  BY <1>a, <1>4 DEF TokenValid, forge
<1>5. ASSUME NEW r \in Request, Invalidate(r) PROVE Kept
  BY <1>a, <1>5 DEF Invalidate, forge
<1>6. ASSUME NEW r \in Request, Mint(r) PROVE Kept
  BY <1>a, <1>6 DEF Mint, forge
<1>7. ASSUME NEW r \in Request, MintRefused(r) PROVE Kept
  BY <1>a, <1>7 DEF MintRefused, forge
<1>8. ASSUME NEW r \in Request, MintFails(r) PROVE Kept
  BY <1>a, <1>8 DEF MintFails, forge
<1>9. ASSUME NEW r \in Request, PutToken(r) PROVE Kept
  BY <1>a, <1>9 DEF PutToken, forge
<1>10. ASSUME NEW r \in Request, Heal(r) PROVE Kept
  BY <1>a, <1>b, <1>10 DEF Heal
<1>11. ASSUME NEW r \in Request, UseClient(r) PROVE Kept
  BY <1>a, <1>11 DEF UseClient, forge
<1>12. ASSUME NEW r \in Request, MarkAppBroken(r) PROVE Kept
  BY <1>a, <1>b, <1>12 DEF MarkAppBroken
<1>13. ASSUME NEW r \in Request, FlagLost(r) PROVE Kept
  BY <1>a, <1>13 DEF FlagLost, forge
<1>14. ASSUME NEW o \in Owner, InstallationAccount(o) PROVE Kept
  BY <1>a, <1>14 DEF InstallationAccount, forge
<1>15. ASSUME NEW o \in Owner, NEW kind \in Kind, OwnerReads(o, kind)
      PROVE  Kept
  BY <1>a, <1>15 DEF OwnerReads, forge
<1>16. ASSUME NEW o \in Owner, OwnerFindsNone(o) PROVE Kept
  BY <1>a, <1>16 DEF OwnerFindsNone, forge
<1>17. ASSUME NEW o \in Owner, RegisterWorkspace(o) PROVE Kept
  BY <1>a, <1>17, DoneIsState DEF RegisterWorkspace, Done, Types, OwnerState
<1>18. ASSUME NEW o \in Owner, UpdateWorkspace(o) PROVE Kept
  BY <1>a, <1>18, DoneIsState DEF UpdateWorkspace, Done, Types
<1>19. ASSUME NEW o \in Owner, DeleteWorkspace(o) PROVE Kept
  BY <1>a, <1>19, DoneIsState DEF DeleteWorkspace, Done, Types
<1>20. ASSUME NEW d \in Delivery, ListWorkspaces(d) PROVE Kept
  BY <1>a, <1>20 DEF ListWorkspaces, forge
<1>21. ASSUME SetInstallationBroken PROVE Kept
  BY <1>b, <1>21 DEF SetInstallationBroken, Types, HookState, Delivery
<1>22. ASSUME NEW i \in Installation, Withhold(i) PROVE Kept
  BY <1>a, <1>22 DEF Withhold
<1>23. ASSUME NEW i \in Installation, Restore(i) PROVE Kept
  BY <1>a, <1>23 DEF Restore
<1>24. ASSUME NEW i \in Installation, Uninstall(i) PROVE Kept
  BY <1>a, <1>24 DEF Uninstall
<1>25. ASSUME NEW p \in Process, ProcessRestarts(p) PROVE Kept
  BY <1>a, <1>25 DEF ProcessRestarts, forge
<1>26. ASSUME NEW p \in Process, NEW i \in Installation, Expire(p, i)
      PROVE  Kept
  BY <1>a, <1>26 DEF Expire, forge
<1>27. ASSUME UNCHANGED vars PROVE Kept
  BY <1>a, <1>27 DEF vars
<1> QED BY <1>1, <1>2, <1>3, <1>4, <1>5, <1>6, <1>7, <1>8, <1>9, <1>10, <1>11,
          <1>12, <1>13, <1>14, <1>15, <1>16, <1>17, <1>18, <1>19, <1>20,
          <1>21, <1>22, <1>23, <1>24, <1>25, <1>26, <1>27
     DEF Next, RequestStep, OwnerStep

\* Whatever a request or a webhook had read, the link, the row's id and the
\* upload token stay as the last owner's write left them.
THEOREM OwnersRule == Spec => OwnersHaveTheLastWord
<1>1. IndInv /\ [Next]_vars =>
        [own' = own => [row' EXCEPT !.broken = FALSE] =
                       [row EXCEPT !.broken = FALSE]]_vars
  BY KeptStep DEF IndInv
<1> QED BY Invariant, <1>1, PTL DEF Spec, OwnersHaveTheLastWord
=============================================================================
