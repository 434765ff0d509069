-------------------------- MODULE ProvisioningProofs --------------------------
(* Proofs about Provisioning, for any organisations and any number of claims,   *)
(* edits and crashes.                                                           *)
EXTENDS Provisioning, TLAPS

\* TypeOK, with the counters bounded from below and an organisation that edits
\* having created its reader's number.
CloudInv ==
  /\ owner \in Tokens /\ readers \subseteq Readers /\ stored \in Digests
  /\ portal \in [Orgs -> PortalPC] /\ overlap \in BOOLEAN
  /\ claims \in 0..MaxClaims /\ edits \in 0..MaxEdits
  /\ updates \in 0..MaxUpdates /\ crashes \in 0..MaxCrashes
  /\ \A o \in Orgs : portal[o] = "editing" => edits > 0

\* The agent goes on to use a token only when it has one: what it obtained it holds
\* until it is adopted, and only /health leads on without a registration.
AgentInv ==
  /\ apc \in AgentPC
  /\ {client, obtained, procEnv, envFile} \subseteq Tokens
  /\ apc \in {"received", "saved"} => obtained # None
  /\ apc \in {"idle", "config", "apply", "digest", "hashed"} => client # None
  /\ download.hash \in Digests /\ download.readers \subseteq Readers
  /\ localHash \in Digests /\ hashFile \in Digests
  /\ deployed.readers \subseteq Readers /\ deployed.token \in Tokens

IInv == CloudInv /\ AgentInv

\* The invariant holds of a Qube fresh from the factory.
LEMMA InitInv == Init => IInv
<1> SUFFICES ASSUME Init PROVE IInv
  OBVIOUS
<1>1. CloudInv
  <2>1. owner \in Tokens /\ readers \subseteq Readers /\ stored \in Digests
    BY DEF Init, Tokens, Digests
  <2>2. portal \in [Orgs -> PortalPC] /\ \A o \in Orgs : portal[o] # "editing"
    BY DEF Init, PortalPC
  <2>3. overlap \in BOOLEAN
    BY DEF Init
  <2>4. /\ claims \in 0..MaxClaims /\ edits \in 0..MaxEdits
        /\ updates \in 0..MaxUpdates /\ crashes \in 0..MaxCrashes
    BY BoundsAssumption DEF Init
  <2>5. QED
    BY <2>1, <2>2, <2>3, <2>4 DEF CloudInv
<1>2. AgentInv
  BY DEF Init, AgentInv, AgentPC, Tokens, Digests
<1>3. QED
  BY <1>1, <1>2 DEF IInv

\* A request of the portal moves one organisation's request, and leaves the agent alone.
LEMMA PortalMoves ==
  ASSUME CloudInv, NEW o \in Orgs, NEW from, NEW to \in PortalPC, GoPortal(o, from, to)
  PROVE  /\ portal' \in [Orgs -> PortalPC]
         /\ portal[o] = from /\ portal'[o] = to /\ \A p \in Orgs \ {o} : portal'[p] = portal[p]
  BY DEF GoPortal, CloudInv

\* What begins a request keeps the invariant.
LEMMA BeginStep ==
  ASSUME IInv, NEW o \in Orgs, Claim(o) \/ Unclaim(o) \/ Edit(o) \/ Update(o)
  PROVE  IInv'
<1>1. PICK to \in {"claiming", "unclaiming", "editing", "updated"} :
        Begin(o, to) /\ (to = "editing" => edits' = edits + 1)
  BY DEF Claim, Unclaim, Edit, Update
<1>2. /\ portal' \in [Orgs -> PortalPC] /\ portal'[o] = to
      /\ \A p \in Orgs \ {o} : portal'[p] = portal[p]
  BY <1>1, PortalMoves DEF Begin, PortalPC, IInv
<1>3. overlap' \in BOOLEAN
  BY <1>1 DEF Begin
<1>4. /\ claims' \in 0..MaxClaims /\ edits' \in 0..MaxEdits /\ updates' \in 0..MaxUpdates
      /\ edits' \in edits..edits + 1
  BY BoundsAssumption DEF Claim, Unclaim, Edit, Update, IInv, CloudInv
<1>5. UNCHANGED <<owner, readers, stored, crashes>>
  BY DEF Claim, Unclaim, Edit, Update, cloudVars
<1>6. \A p \in Orgs : portal'[p] = "editing" => edits' > 0
  BY <1>1, <1>2, <1>4, BoundsAssumption DEF IInv, CloudInv
<1>7. CloudInv'
  BY <1>2, <1>3, <1>4, <1>5, <1>6 DEF IInv, CloudInv
<1>8. UNCHANGED agentVars
  BY DEF Claim, Unclaim, Edit, Update
<1>9. QED
  BY <1>7, <1>8 DEF IInv, AgentInv, agentVars, tokenVars, configVars

\* The steps of a request that has begun keep it.
LEMMA PortalStep ==
  ASSUME IInv, NEW o \in Orgs, PortalEnds(o)
  PROVE  IInv'
<1> USE DEF PortalEnds, ClaimUpdate, ClaimReset, UnclaimDelete, UnclaimReset, UnclaimUpdate,
            EditInsert, Recompute
<1>1. PICK to \in PortalPC \ {"editing"}, from \in PortalPC : GoPortal(o, from, to)
  BY DEF PortalPC, GoPortal
<1>2. /\ portal' \in [Orgs -> PortalPC] /\ portal'[o] # "editing"
      /\ \A p \in Orgs \ {o} : portal'[p] = portal[p]
  BY <1>1, PortalMoves DEF IInv
<1>3. owner' \in Tokens
  BY DEF IInv, CloudInv, Tokens
<1>4. readers' \subseteq Readers
  <2>1. EditInsert(o) => edits \in 1..MaxEdits
    BY BoundsAssumption DEF IInv, CloudInv, GoPortal
  <2>2. QED
    BY <2>1 DEF IInv, CloudInv, Readers
<1>5. stored' \in Digests
  BY DEF IInv, CloudInv, Digests
<1>6. UNCHANGED <<boundVars, agentVars>>
  OBVIOUS
<1>7. CloudInv'
  BY <1>2, <1>3, <1>4, <1>5, <1>6 DEF IInv, CloudInv, boundVars
<1>8. QED
  BY <1>6, <1>7 DEF IInv, AgentInv, agentVars, tokenVars, configVars

\* The steps of the agent keep it.
LEMMA AgentKeeps ==
  ASSUME IInv, AgentStep
  PROVE  IInv'
<1>1. CloudUnchanged
  BY DEF AgentStep, Boot, Healthy, Registered, SaveToken, TokenReady, GetState, WipeToken,
     GetConfig, ApplyConfig, SetLocalHash, SaveHash
<1>2. CloudInv'
  BY <1>1 DEF CloudUnchanged, cloudVars, boundVars, IInv, CloudInv
<1>3. AgentInv'
  <2> USE DEF IInv, CloudInv, AgentInv, AgentPC, GoAgent, tokenVars, configVars
  <2>1. CASE Boot \/ Healthy
    BY <2>1 DEF Boot, Healthy, AfterHealth
  <2>2. CASE Registered \/ SaveToken \/ TokenReady \/ WipeToken
    BY <2>2 DEF Registered, SaveToken, TokenReady, WipeToken, Adopt, Tokens
  <2>3. CASE GetState \/ GetConfig
    BY <2>3 DEF GetState, GetConfig
  <2>4. CASE ApplyConfig
    BY <2>4 DEF ApplyConfig
  <2>5. CASE SetLocalHash \/ SaveHash
    BY <2>5 DEF SetLocalHash, SaveHash, Digests
  <2>6. QED
    BY <2>1, <2>2, <2>3, <2>4, <2>5 DEF AgentStep
<1>4. QED
  BY <1>2, <1>3 DEF IInv

\* So do its failures.
LEMMA FailureKeeps ==
  ASSUME IInv, SaveTokenFails \/ SaveHashFails \/ Crash
  PROVE  IInv'
<1>1. CloudInv'
  BY BoundsAssumption DEF SaveTokenFails, SaveHashFails, Crash, Failure, cloudVars, IInv, CloudInv
<1>2. AgentInv'
  BY DEF SaveTokenFails, SaveHashFails, Crash, GoAgent, tokenVars, configVars, IInv, AgentInv, AgentPC,
     Digests, Tokens
<1>3. QED
  BY <1>1, <1>2 DEF IInv

\* Every reachable state is well-typed: in particular the agent polls, downloads and
\* deploys only with a token, and hands on only a token it has obtained.
THEOREM TypeCorrect == Spec => []TypeOK
<1>1. IInv /\ [Next]_vars => IInv'
  <2> SUFFICES ASSUME IInv, [Next]_vars PROVE IInv'
    OBVIOUS
  <2>1. ASSUME NEW o \in Orgs, Claim(o) \/ Unclaim(o) \/ Edit(o) \/ Update(o) \/ PortalEnds(o)
        PROVE  IInv'
    BY <2>1, BeginStep, PortalStep
  <2>2. CASE AgentStep \/ SaveTokenFails \/ SaveHashFails \/ Crash
    BY <2>2, AgentKeeps, FailureKeeps
  <2>3. CASE UNCHANGED vars
    BY <2>3 DEF vars, cloudVars, boundVars, agentVars, tokenVars, configVars, IInv, CloudInv,
       AgentInv
  <2>4. QED
    BY <2>1, <2>2, <2>3 DEF Next
<1>2. IInv => TypeOK
  BY BoundsAssumption DEF IInv, CloudInv, AgentInv, TypeOK
<1>3. QED
  BY InitInv, <1>1, <1>2, PTL DEF Spec
===============================================================================
