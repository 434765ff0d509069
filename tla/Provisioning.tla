----------------------------- MODULE Provisioning -----------------------------
(***************************************************************************)
(* The life of a Qube across organisations: the portal claims and          *)
(* unclaims it (qubes.go), the TP-API tells it its token (sync.go,         *)
(* router.go), and conf-agent obtains the token, keeps it in .env, uses it *)
(* to poll, and hands it to the services it deploys (main.go, agent.go).   *)
(* When the TP-API rejects the token the agent registers anew.             *)
(*                                                                         *)
(* A token is the HMAC of the Qube's id under its organisation's secret,   *)
(* so it is named by the organisation.  Readers are numbered as they are   *)
(* created, and a digest is the set of readers it was computed from.  The  *)
(* columns nothing reads back (status, last_seen, claimed_at,              *)
(* config_version) are left out.                                           *)
(***************************************************************************)
EXTENDS Naturals, FiniteSets

CONSTANTS
  Orgs,
  None,       \* no organisation, no token
  Empty,      \* the digest '' of a Qube without configuration
  MaxClaims,  \* bound on claims and unclaims
  MaxEdits,   \* bound on readers created
  MaxUpdates, \* bound on other edits (the location label)
  MaxCrashes  \* bound on stops of conf-agent

ASSUME OrgsAssumption == None \notin Orgs
ASSUME BoundsAssumption ==
  MaxClaims \in Nat /\ MaxEdits \in Nat /\ MaxUpdates \in Nat /\ MaxCrashes \in Nat

VARIABLES
  owner,     \* qubes.org_id
  readers,   \* the Qube's readers
  stored,    \* config_state.hash
  portal,    \* per organisation: where its request stands
  overlap,   \* history: two portal requests ran at once
  claims, edits, updates, crashes,
  apc,       \* where conf-agent stands
  client,    \* the token its requests carry
  obtained,  \* the token a registration has just returned
  procEnv,   \* QUBE_TOKEN in its environment
  envFile,   \* QUBE_TOKEN in .env
  download,  \* the digest and readers it has downloaded
  localHash, \* Agent.localHash
  hashFile,  \* .config_hash
  deployed   \* what runs on the Qube: the readers and the services' token

cloudVars   == <<owner, readers, stored>>
boundVars   == <<overlap, claims, edits, updates, crashes>>
tokenVars   == <<client, obtained, procEnv, envFile>>
configVars  == <<download, localHash, hashFile, deployed>>
agentVars   == <<apc, tokenVars, configVars>>
vars == <<cloudVars, portal, boundVars, agentVars>>

Readers == 1..MaxEdits
Digests == (SUBSET Readers) \cup {Empty}
Tokens == Orgs \cup {None}
PortalPC == {"idle", "claiming", "claimed", "unclaiming", "emptied", "reset",
             "editing", "inserted", "updated"}
AgentPC == {"boot", "health", "register", "received", "saved", "idle", "config",
             "apply", "digest", "hashed", "wiped"}

TypeOK ==
  /\ owner \in Tokens /\ readers \subseteq Readers /\ stored \in Digests
  /\ portal \in [Orgs -> PortalPC] /\ overlap \in BOOLEAN
  /\ claims <= MaxClaims /\ edits <= MaxEdits /\ updates <= MaxUpdates /\ crashes <= MaxCrashes
  /\ apc \in AgentPC
  /\ {client, obtained, procEnv, envFile} \subseteq Tokens
  /\ apc \in {"received", "saved"} => obtained # None
  /\ apc \in {"idle", "config", "apply", "digest", "hashed"} => client # None
  /\ download.hash \in Digests /\ download.readers \subseteq Readers
  /\ localHash \in Digests /\ hashFile \in Digests
  /\ deployed.readers \subseteq Readers /\ deployed.token \in Tokens

\* A Qube fresh from the factory, flashed with its register key.
Init ==
  /\ owner = None /\ readers = {} /\ stored = Empty
  /\ portal = [o \in Orgs |-> "idle"] /\ overlap = FALSE
  /\ claims = 0 /\ edits = 0 /\ updates = 0 /\ crashes = 0
  /\ apc = "boot"
  /\ client = None /\ obtained = None /\ procEnv = None /\ envFile = None
  /\ download = [hash |-> Empty, readers |-> {}]
  /\ localHash = Empty /\ hashFile = Empty
  /\ deployed = [readers |-> {}, token |-> None]

(***************************************************************************)
(* The portal                                                              *)
(***************************************************************************)

GoPortal(o, from, to) == portal[o] = from /\ portal' = [portal EXCEPT ![o] = to]

Begin(o, to) ==
  /\ GoPortal(o, "idle", to)
  /\ overlap' = (overlap \/ \E p \in Orgs \ {o} : portal[p] # "idle")

\* claimQubeHandler: the Qube is read, and must not be owned ...
Claim(o) ==
  /\ claims < MaxClaims /\ claims' = claims + 1
  /\ owner = None
  /\ Begin(o, "claiming")
  /\ UNCHANGED <<cloudVars, edits, updates, crashes, agentVars>>

\* ... then updated, whoever has come to own it in between ...
ClaimUpdate(o) ==
  /\ GoPortal(o, "claiming", "claimed")
  /\ owner' = o
  /\ UNCHANGED <<readers, stored, boundVars, agentVars>>

\* ... and the stored digest is emptied.
ClaimReset(o) ==
  /\ GoPortal(o, "claimed", "idle")
  /\ stored' = Empty
  /\ UNCHANGED <<owner, readers, boundVars, agentVars>>

\* unclaimQubeHandler: statement after statement, without a transaction.  The Qube must
\* be claimed; by whom is not asked.
Unclaim(o) ==
  /\ claims < MaxClaims /\ claims' = claims + 1
  /\ owner # None
  /\ Begin(o, "unclaiming")
  /\ UNCHANGED <<cloudVars, edits, updates, crashes, agentVars>>

UnclaimDelete(o) ==
  /\ GoPortal(o, "unclaiming", "emptied")
  /\ readers' = {}
  /\ UNCHANGED <<owner, stored, boundVars, agentVars>>

UnclaimReset(o) ==
  /\ GoPortal(o, "emptied", "reset")
  /\ stored' = Empty
  /\ UNCHANGED <<owner, readers, boundVars, agentVars>>

UnclaimUpdate(o) ==
  /\ GoPortal(o, "reset", "idle")
  /\ owner' = None
  /\ UNCHANGED <<readers, stored, boundVars, agentVars>>

\* createReaderHandler: check the owner, insert, recompute the digest.
Edit(o) ==
  /\ owner = o /\ edits < MaxEdits /\ edits' = edits + 1
  /\ Begin(o, "editing")
  /\ UNCHANGED <<cloudVars, claims, updates, crashes, agentVars>>

EditInsert(o) ==
  /\ GoPortal(o, "editing", "inserted")
  /\ readers' = readers \cup {edits}
  /\ UNCHANGED <<owner, stored, boundVars, agentVars>>

\* updateQubeHandler updates nothing of a Qube the organisation does not own,
\* and recomputes the digest in any case.
Update(o) ==
  /\ updates < MaxUpdates /\ updates' = updates + 1
  /\ Begin(o, "updated")
  /\ UNCHANGED <<cloudVars, claims, edits, crashes, agentVars>>

Recompute(o) ==
  /\ GoPortal(o, "inserted", "idle") \/ GoPortal(o, "updated", "idle")
  /\ stored' = readers
  /\ UNCHANGED <<owner, readers, boundVars, agentVars>>

(***************************************************************************)
(* conf-agent                                                              *)
(***************************************************************************)

GoAgent(from, to) == apc = from /\ apc' = to
CloudUnchanged == UNCHANGED <<cloudVars, portal, boundVars>>

\* systemd starts the agent with what .env holds; TP-API must answer /health.
Boot ==
  /\ GoAgent("boot", "health")
  /\ procEnv' = envFile /\ client' = envFile
  /\ UNCHANGED <<obtained, envFile, configVars>> /\ CloudUnchanged

AfterHealthAlways == "idle" \* (mutant of AfterHealth)
AfterHealth == IF client = None THEN "register" ELSE "idle"

Healthy ==
  /\ GoAgent("health", AfterHealth)
  /\ localHash' = hashFile
  /\ UNCHANGED <<tokenVars, download, hashFile, deployed>> /\ CloudUnchanged

\* deviceRegisterHandler: 202 to a Qube nobody owns, else its token.  Anything
\* but a 200 is tried again after a while.
Registered ==
  /\ owner # None
  /\ GoAgent("register", "received")
  /\ obtained' = owner
  /\ UNCHANGED <<client, procEnv, envFile, configVars>> /\ CloudUnchanged

SaveToken ==
  /\ GoAgent("received", "saved")
  /\ envFile' = obtained
  /\ UNCHANGED <<client, obtained, procEnv, configVars>> /\ CloudUnchanged

\* The end of reRegister, or of main's registration: a new client, and the
\* variable that docker stack deploy substitutes.
AdoptWithoutClient == client' = client /\ procEnv' = obtained \* (mutant of Adopt)
AdoptWithoutSetenv == client' = obtained /\ procEnv' = procEnv \* (mutant of Adopt)
Adopt == client' = obtained /\ procEnv' = obtained

TokenReady ==
  /\ GoAgent("saved", "idle")
  /\ Adopt /\ obtained' = None
  /\ UNCHANGED <<envFile, configVars>> /\ CloudUnchanged

\* qubeAuthMiddleware.
Authentic == owner # None /\ client = owner

\* getState: equal digests end the cycle, a 401 wipes the token.
GetState ==
  /\ apc = "idle"
  /\ \/ Authentic /\ stored = localHash /\ apc' = "idle"
     \/ Authentic /\ stored # localHash /\ apc' = "config"
     \/ ~Authentic /\ apc' = "wiped"
  /\ UNCHANGED <<tokenVars, configVars>> /\ CloudUnchanged

\* reRegister empties the token in .env and blocks in SelfRegister.
WipeToken ==
  /\ GoAgent("wiped", "register")
  /\ envFile' = None
  /\ UNCHANGED <<client, obtained, procEnv, configVars>> /\ CloudUnchanged

GetConfig ==
  /\ apc = "config"
  /\ IF Authentic
       THEN apc' = "apply" /\ download' = [hash |-> stored, readers |-> readers]
       ELSE apc' = "idle" /\ UNCHANGED download
  /\ UNCHANGED <<tokenVars, localHash, hashFile, deployed>> /\ CloudUnchanged

\* applyConfig: the services are deployed with the environment of the agent.
ApplyConfig ==
  /\ GoAgent("apply", "digest")
  /\ deployed' = [readers |-> download.readers, token |-> procEnv]
  /\ UNCHANGED <<tokenVars, download, localHash, hashFile>> /\ CloudUnchanged

SetLocalHash ==
  /\ GoAgent("digest", "hashed")
  /\ localHash' = download.hash
  /\ UNCHANGED <<tokenVars, download, hashFile, deployed>> /\ CloudUnchanged

SaveHash ==
  /\ GoAgent("hashed", "idle")
  /\ hashFile' = localHash
  /\ download' = [hash |-> Empty, readers |-> {}]
  /\ UNCHANGED <<tokenVars, localHash, deployed>> /\ CloudUnchanged

(***************************************************************************)
(* Failures of the agent.  os.WriteFile empties a file before it writes it *)
(***************************************************************************)

Failure ==
  /\ crashes < MaxCrashes /\ crashes' = crashes + 1
  /\ UNCHANGED <<cloudVars, portal, overlap, claims, edits, updates>>

\* A token that could not be saved is used all the same, and one that could not be
\* wiped stays, or is lost with the rest of .env.
SaveTokenFails ==
  /\ Failure
  /\ GoAgent("received", "saved") \/ GoAgent("wiped", "register")
  /\ envFile' \in {envFile, None}
  /\ UNCHANGED <<client, obtained, procEnv, configVars>>

\* The digest in memory is set whether or not the file is written.
SaveHashFails ==
  /\ Failure
  /\ GoAgent("hashed", "idle")
  /\ hashFile' \in {hashFile, Empty}
  /\ download' = [hash |-> Empty, readers |-> {}]
  /\ UNCHANGED <<tokenVars, localHash, deployed>>

Crash ==
  /\ Failure
  /\ apc # "boot" /\ apc' = "boot"
  /\ client' = None /\ procEnv' = None /\ obtained' = None
  /\ localHash' = Empty /\ download' = [hash |-> Empty, readers |-> {}]
  /\ envFile' \in {envFile} \cup (IF apc \in {"received", "wiped"} THEN {None} ELSE {})
  /\ hashFile' \in {hashFile} \cup (IF apc = "hashed" THEN {Empty} ELSE {})
  /\ UNCHANGED deployed

PortalEnds(o) ==
  \/ ClaimUpdate(o) \/ ClaimReset(o) \/ UnclaimDelete(o) \/ UnclaimReset(o)
  \/ UnclaimUpdate(o) \/ EditInsert(o) \/ Recompute(o)

AgentStep ==
  \/ Boot \/ Healthy \/ Registered \/ SaveToken \/ TokenReady \/ GetState
  \/ WipeToken \/ GetConfig \/ ApplyConfig \/ SetLocalHash \/ SaveHash

Next ==
  \/ \E o \in Orgs : Claim(o) \/ Unclaim(o) \/ Edit(o) \/ Update(o) \/ PortalEnds(o)
  \/ AgentStep \/ SaveTokenFails \/ SaveHashFails \/ Crash

Spec == Init /\ [][Next]_vars

\* The agent is restarted when it stops, polls on a ticker and retries its
\* registration; a handler runs to its end.
FairSpec == Spec /\ WF_vars(AgentStep) /\ \A o \in Orgs : WF_vars(PortalEnds(o))

(***************************************************************************)
(* Properties                                                              *)
(***************************************************************************)

\* A Qube that stays with an organisation comes to poll with its token,
\* whichever token .env and memory held, wherever the agent was stopped.
Adopted == \A o \in Orgs : <>[](owner = o) => <>[](client = o)

\* The services that send a Qube's telemetry come to run under the token of the
\* organisation it stays with, once there are readers whose data they send: a
\* token that changes reaches them only through a deployment, and that only
\* through a digest that differs.  It holds for portal requests that do not
\* overlap.
ServicesSend ==
  \A o \in Orgs :
    <>[](owner = o /\ readers # {} /\ ~overlap) => <>[](deployed.token = o)

==============================================================================
