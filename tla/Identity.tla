------------------------------- MODULE Identity -------------------------------
(***************************************************************************)
(* Who a request comes from: the authenticators of packages/core as        *)
(* functions of what the request carries and of which verifying services   *)
(* answer.  A credential is reduced to what the authenticators look at; a  *)
(* verdict is a principal, a rejection (UnauthorizedError) or any other    *)
(* throw.                                                                  *)
(***************************************************************************)
EXTENDS Integers, Sequences, FiniteSets

CONSTANTS Tenants, NoTenant,
          Accounts,    \* service accounts, users and emails
          NoToken,
          Bound,       \* [Accounts -> Tenants \cup {NoTenant}]: claims, grants
          EdgeTrusted  \* accounts whose claims the edge forwards

(* by: who signed it; aud: for us; use: token_use; tenants: the tenant claim  *)
(* of an id token, the tenant scopes of an access token; confirmed:           *)
(* email_verified and an allowed domain.                                      *)
Tokens == [by : {"cognito", "google", "cluster", "operator", "nobody"},
           live : BOOLEAN, aud : BOOLEAN, use : {"id", "access"},
           tenants : SUBSET Tenants, subject : Accounts, confirmed : BOOLEAN]

(* hops: the identities of the mesh header, one per hop, the peer's last. *)
Contexts == [bearer : Tokens \cup {NoToken}, hops : Seq(Accounts)]

Anonymous == [bearer |-> NoToken, hops |-> <<>>]

ASSUME IdentityAssumption ==
  /\ NoTenant \notin Tenants /\ NoToken \notin Tokens
  /\ Bound \in [Accounts -> Tenants \cup {NoTenant}]
  /\ EdgeTrusted \subseteq Accounts

Accepted(tenant, subject) == [is |-> "principal", tenant |-> tenant, subject |-> subject]
Rejected == [is |-> "rejected", tenant |-> NoTenant, subject |-> "none"]
Thrown   == [is |-> "thrown", tenant |-> NoTenant, subject |-> "none"]

Only(s) == CHOOSE x \in s : TRUE

(* jwtVerify: signature, issuer and dates.  Without the issuer's keys it     *)
(* throws, and the authenticators take that for an invalid token.            *)
Verified(token, issuer, up) ==
  token # NoToken /\ issuer \in up /\ token.by = issuer /\ token.live

CognitoJwt(ctx, up) ==
  LET c == ctx.bearer
  IN  IF Verified(c, "cognito", up) /\ c.aud /\ c.use = "id" /\ Cardinality(c.tenants) = 1
      THEN Accepted(Only(c.tenants), c.subject) ELSE Rejected

(* Variant: the first of several tenant scopes. *)
CognitoM2mFirst(ctx, up) ==
  LET c == ctx.bearer
  IN  IF Verified(c, "cognito", up) /\ c.use = "access" /\ c.tenants # {}
      THEN Accepted(Only(c.tenants), c.subject) ELSE Rejected

(* Access tokens have no audience; exactly one tenant scope is a grant. *)
CognitoM2m(ctx, up) ==
  LET c == ctx.bearer
  IN  IF Verified(c, "cognito", up) /\ c.use = "access" /\ Cardinality(c.tenants) = 1
      THEN Accepted(Only(c.tenants), c.subject) ELSE Rejected

GcpOidc(ctx, up) ==
  LET c == ctx.bearer
  IN  IF Verified(c, "google", up) /\ c.aud /\ c.confirmed /\ Bound[c.subject] # NoTenant
      THEN Accepted(Bound[c.subject], c.subject) ELSE Rejected

(* tenantFor: the claim store, which throws when it does not answer. *)
OfBound(subject, up) ==
  IF "claims" \notin up THEN Thrown
  ELSE IF Bound[subject] = NoTenant THEN Rejected
  ELSE Accepted(Bound[subject], subject)

(* TokenReview by the API server. *)
OidcSa(ctx, up) ==
  LET c == ctx.bearer
  IN  IF c = NoToken THEN Rejected
      ELSE IF "cluster" \notin up THEN Thrown
      ELSE IF ~(Verified(c, "cluster", up) /\ c.aud) THEN Rejected
      ELSE OfBound(c.subject, up)

(* parseMeshIdentity: the last hop is our peer, the others are hearsay. *)
MeshId(ctx, up) ==
  IF ctx.hops = <<>> THEN Rejected ELSE OfBound(ctx.hops[Len(ctx.hops)], up)

(* The edge verified it; its claims are taken as they are. *)
MeshTrust(ctx, up) ==
  LET c == ctx.bearer
  IN  IF c # NoToken /\ Cardinality(c.tenants) = 1
      THEN Accepted(Only(c.tenants), c.subject) ELSE Rejected

(* GATE_TOKENS: an entry that names no tenant is dropped. *)
StaticToken(ctx, up) ==
  LET c == ctx.bearer
  IN  IF c # NoToken /\ c.by = "operator" /\ Bound[c.subject] # NoTenant
      THEN Accepted(Bound[c.subject], c.subject) ELSE Rejected

(* The first candidate that does not reject has the last word. *)
Composite(verdicts) ==
  LET told == {i \in DOMAIN verdicts : verdicts[i].is # "rejected"}
  IN  IF told = {} THEN Rejected
      ELSE verdicts[CHOOSE i \in told : \A j \in told : i <= j]

(* What AUTHN selects. *)
Authenticated(authn, ctx, up) ==
  CASE authn = "cognito"  -> Composite(<<CognitoJwt(ctx, up), CognitoM2m(ctx, up)>>)
    [] authn = "gcp-oidc" -> GcpOidc(ctx, up)
    [] authn = "oidc-sa"  -> OidcSa(ctx, up)
    [] authn = "mesh-id"  -> MeshId(ctx, up)
    [] authn = "mesh"     -> MeshTrust(ctx, up)
    [] authn = "token"    -> StaticToken(ctx, up)

(* The services an authentication needs an answer of. *)
Consulted(authn) ==
  CASE authn = "cognito"  -> {"cognito"}
    [] authn = "gcp-oidc" -> {"google"}
    [] authn = "oidc-sa"  -> {"cluster", "claims"}
    [] authn = "mesh-id"  -> {"claims"}
    [] OTHER              -> {}

Authns == {"cognito", "gcp-oidc", "oidc-sa", "mesh-id", "mesh", "token"}

(* Who signs what a deployment goes by. *)
Issuer(authn) ==
  CASE authn = "cognito"  -> "cognito"
    [] authn = "gcp-oidc" -> "google"
    [] authn = "oidc-sa"  -> "cluster"
    [] OTHER              -> "operator"

(* A token its issuer stands behind, here and now: live and meant for us.  An *)
(* access token is meant for whom its scope says, and the operator's own     *)
(* neither lapse nor go anywhere else.                                       *)
Good(c) ==
  \/ c.by = "operator"
  \/ c.live /\ c.by = "cognito" /\ (c.use = "access" \/ c.aud)
  \/ c.live /\ c.by = "google" /\ c.aud /\ c.confirmed
  \/ c.live /\ c.by = "cluster" /\ c.aud

(* The tenant somebody answerable vouches for: the issuer of a good token    *)
(* that names one tenant or whose subject is bound to one, the mesh for its *)
(* peer, the edge for what it forwards.                                     *)
VouchedFor(authn, ctx) ==
  LET c == ctx.bearer
  IN  CASE authn = "mesh-id" -> IF ctx.hops = <<>> THEN NoTenant ELSE Bound[ctx.hops[Len(ctx.hops)]]
        [] authn = "mesh"    -> IF c # NoToken /\ c.subject \in EdgeTrusted /\ Cardinality(c.tenants) = 1
                                THEN Only(c.tenants) ELSE NoTenant
        [] OTHER ->
             IF c = NoToken \/ c.by # Issuer(authn) \/ ~Good(c) THEN NoTenant
             ELSE IF authn # "cognito" THEN Bound[c.subject]
             ELSE IF Cardinality(c.tenants) = 1 THEN Only(c.tenants) ELSE NoTenant
===============================================================================
