---------------------------- MODULE Connections -----------------------------
(***************************************************************************)
(* The connection kernel (app/connections): the channels a principal       *)
(* declares, the catalog they refer to, what was claimed and discovered    *)
(* about them, and the receipt of what carried an attempt.  The rows the   *)
(* tables can hold, the indexes over them and the operations on profiles   *)
(* and claims; the transactions that run them are those of their callers.  *)
(***************************************************************************)
EXTENDS Integers, FiniteSets

CONSTANTS ConnectionIds,  \* identifiers of profiles
          ClaimIds,       \* identifiers of entitlement claims
          Principals,     \* control principals
          Names,          \* slugs, endpoints, display names and models
          Moments,        \* instants
          None            \* NULL

ConnectionMethod ==
    {"manual_handoff", "provider_native_mcp_inbound", "direct_provider_api",
     "provider_native_agent_bridge", "enterprise_gateway_or_broker", "local_model_adapter",
     "browser_assisted_handoff", "watched_inbox_outbox"}

ConnectionState ==
    {"declared", "preflight_required", "implemented_pending_audit", "available", "degraded",
     "revoked", "unsupported"}

TERMINAL_CONNECTION_STATES == {"revoked", "unsupported"}
AVAILABLE_CONNECTION_METHODS == {"manual_handoff"}

\* the state a declared profile is born in
BASELINE_METHOD_STATE ==
    [m \in ConnectionMethod |->
        CASE m = "manual_handoff" -> "available"
          [] m = "provider_native_mcp_inbound" -> "preflight_required"
          [] OTHER -> "declared"]

ModelAttestationLevel == {"attested", "self_declared", "unknown"}
EntitlementOrigin == {"user_declared", "officially_discovered"}
EntitlementState == {"active", "superseded", "expired", "revoked", "not_confirmed"}
CapabilitySource == {"official_discovery", "user_declared_endpoint", "execution_observed"}

-----------------------------------------------------------------------------
(* The catalog: families, releases with a validity, providers. *)

ProviderFamilies == [slug : Names]
ModelFamilies    == [provider : Names, slug : Names]

ModelReleases ==
    {r \in [model_family : ModelFamilies, release : Names, discovered_at : Moments,
            valid_until : Moments, source : CapabilitySource] : r.valid_until > r.discovered_at}

UniqueSlugs(rows) == \A r, q \in rows : r.slug = q.slug => r = q

UniqueReleases(rows) ==
    \A r, q \in rows : r.model_family = q.model_family /\ r.release = q.release => r = q

-----------------------------------------------------------------------------
(* Profiles. *)

ProfileRow ==
    [id : ConnectionIds, principal : Principals, method : ConnectionMethod,
     state : ConnectionState, endpoint : Names \cup {None}, provider : Names \cup {None},
     credential : Names \cup {None}]

(* The checks: the manual profile has no endpoint, and only it is available. *)
ConnectionProfile ==
    {p \in ProfileRow : /\ p.method = "manual_handoff" => p.endpoint = None
                        /\ p.state = "available" => p.method = "manual_handoff"}

Live(p) == p.state \notin TERMINAL_CONNECTION_STATES

(* One live manual profile per principal, one live profile per endpoint;     *)
(* two rows whose endpoint is NULL are never equal.                          *)
ProfileIndexes(profiles) ==
    \A p, q \in profiles :
        (/\ p # q /\ p.principal = q.principal /\ p.method = q.method
         /\ Live(p) /\ Live(q))
            => /\ p.method # "manual_handoff"
               /\ p.endpoint = None \/ q.endpoint = None \/ p.endpoint # q.endpoint

\* what is shown of a profile: its provider by slug, its credential never
ConnectionProfileView(p) ==
    [connection_id |-> p.id, method |-> p.method, state |-> p.state,
     endpoint_ref |-> p.endpoint, access_provider_slug |-> p.provider]

\* the live manual profile of a principal, None without one
get_manual_profile(profiles, principal) ==
    LET of == {p \in profiles : /\ p.principal = principal
                                /\ p.method = "manual_handoff" /\ Live(p)}
    IN  IF of = {} THEN None ELSE CHOOSE p \in of : TRUE

create_profile(id, principal, method, endpoint, provider) ==
    [id |-> id, principal |-> principal, method |-> method,
     state |-> BASELINE_METHOD_STATE[method], endpoint |-> endpoint, provider |-> provider,
     credential |-> None]

(* declare_profile: any method but the manual one. *)
MayDeclare(profiles, p) ==
    /\ p.method # "manual_handoff"
    /\ p.state = BASELINE_METHOD_STATE[p.method]
    /\ p.credential = None
    /\ p \in ConnectionProfile
    /\ ProfileIndexes(profiles \cup {p})

\* a profile of another principal is as if it did not exist
require_profile(profiles, principal, id) ==
    \E p \in profiles : p.id = id /\ p.principal = principal

-----------------------------------------------------------------------------
(* What was discovered and claimed. *)

CapabilitySnapshot ==
    {c \in [connection : ConnectionIds, principal : Principals, observed_at : Moments,
            valid_until : Moments, source : CapabilitySource, capabilities : SUBSET Names] :
        c.valid_until > c.observed_at}

create_capability_snapshot(profiles, snapshots, c) ==
    /\ require_profile(profiles, c.principal, c.connection)
    /\ \A o \in snapshots : o.connection # c.connection \/ o.observed_at # c.observed_at

EntitlementClaim ==
    {e \in [id : ClaimIds, principal : Principals, family : Names, plan : Names,
            origin : EntitlementOrigin, state : EntitlementState, claimed_at : Moments,
            superseded_by : ClaimIds \cup {None}] :
        /\ e.superseded_by # e.id
        /\ e.state = "superseded" <=> e.superseded_by # None}

(* Only ACTIVE to SUPERSEDED, nothing else of the row, and no two claims     *)
(* superseded by the same one.                                               *)
GuardEntitlement(old, new) ==
    /\ old.state = "active"
    /\ new.state = "superseded"
    /\ new = [old EXCEPT !.state = "superseded", !.superseded_by = new.superseded_by]

supersede_entitlement_claim(claims, principal, antecedent, successor) ==
    {IF e.id = antecedent /\ e.principal = principal /\ e.state = "active" /\ e.id # successor
     THEN [e EXCEPT !.state = "superseded", !.superseded_by = successor] ELSE e : e \in claims}

SingleAntecedent(claims) ==
    \A e, f \in claims : e.superseded_by # None /\ e.superseded_by = f.superseded_by => e = f

-----------------------------------------------------------------------------
(* What carried an attempt. *)

ExecutionAttribution ==
    {a \in [connection : ConnectionIds, method : ConnectionMethod,
            access_provider : Names \cup {None}, requested_model : Names \cup {None},
            observed_model : Names \cup {None}, attestation : ModelAttestationLevel] :
        /\ a.attestation = "attested" <=> a.observed_model # None
        /\ a.method = "manual_handoff" =>
               /\ a.access_provider = None /\ a.requested_model = None
               /\ a.observed_model = None /\ a.attestation = "unknown"}

(* Mutant: a receipt declares what it cannot know. *)
declared_attribution(id) ==
    [connection |-> id, method |-> "manual_handoff", access_provider |-> None,
     requested_model |-> None, observed_model |-> None, attestation |-> "self_declared"]

\* a person carried it: nothing else is known
manual_attribution(id) ==
    [connection |-> id, method |-> "manual_handoff", access_provider |-> None,
     requested_model |-> None, observed_model |-> None, attestation |-> "unknown"]

(* One receipt per attempt, naming a profile of the principal by its method. *)
ReceiptKeys(receipts, profiles) ==
    /\ \A r, q \in receipts : r.attempt = q.attempt => r = q
    /\ \A r \in receipts : \E p \in profiles :
          /\ p.id = r.attribution.connection /\ p.principal = r.principal
          /\ p.method = r.attribution.method

(* Append-only: what is written is neither changed nor removed. *)
AppendOnly(old, new) == old \subseteq new

=============================================================================
