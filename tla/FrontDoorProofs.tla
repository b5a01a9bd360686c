---------------------------- MODULE FrontDoorProofs ----------------------------
(***************************************************************************)
(* Theorems about the front door, for any number of requests, tenants,     *)
(* agents and deployments: an agent is only taken from its owner by a      *)
(* request that could not know; what is brought about is brought about for *)
(* the tenant the credential stands for; quota slots belong to runs; and a *)
(* run executes on the lane it was admitted to.                            *)
(***************************************************************************)
EXTENDS FrontDoor, FiniteSetTheorems, TLAPS

(* What no handler changes of a request once it has arrived. *)
Kept(new, old) ==
  /\ new.op = old.op /\ new.ctx = old.ctx /\ new.agent = old.agent
  /\ new.who = old.who /\ new.deaf = old.deaf

(* What is known of a request, place by place.  A request's fields are those *)
(* of Idle; a run is there only once it was answered.                        *)
Shaped(rec) ==
  rec = [pc |-> rec.pc, op |-> rec.op, via |-> rec.via, ctx |-> rec.ctx, agent |-> rec.agent,
         kind |-> rec.kind, mode |-> rec.mode, who |-> rec.who, seen |-> rec.seen,
         slot |-> rec.slot, deaf |-> rec.deaf, moved |-> rec.moved, reply |-> rec.reply]

Placed(rec) ==
  /\ Shaped(rec)
  /\ rec.pc \in {"idle", "read"} => rec.agent = NoAgent
  /\ rec.pc \in {"lookup", "write"} => rec.agent \in Agents
  /\ rec.pc \notin {"create", "done"} => rec.slot = FALSE

(* What a request that is about to write has seen is what is there, unless  *)
(* somebody wrote in between.                                               *)
Current(rec) ==
  rec.pc = "write" /\ ~rec.moved =>
    rec.seen = registry[rec.agent] /\ ~Foreign(rec.seen, rec.who)

HandInv ==
  /\ deployment \in Deployments
  /\ DOMAIN registry = Agents /\ registry = [n \in Agents |-> registry[n]]
  /\ DOMAIN request = Requests /\ request = [r \in Requests |-> request[r]]
  /\ DOMAIN run = Requests /\ run = [r \in Requests |-> run[r]]
  /\ \A r \in Requests :
       /\ Placed(request[r])
       /\ Current(request[r])
       /\ request[r].pc # "done" => run[r] = NoRun

LEMMA HandStart == Init => HandInv
<1> SUFFICES ASSUME Init PROVE HandInv
  OBVIOUS
<1>1. Placed(Idle) /\ Idle.pc = "idle"
  BY DEF Idle, Placed, Shaped
<1>2. /\ DOMAIN registry = Agents /\ registry = [n \in Agents |-> registry[n]]
  BY FrontDoorAssumption DEF Init
<1>3. \A r \in Requests : request[r] = Idle /\ run[r] = NoRun
  BY DEF Init
<1>4. Current(Idle)
  BY <1>1 DEF Current
<1>5. deployment \in Deployments
  BY DEF Init
<1> QED BY <1>1, <1>2, <1>3, <1>4, <1>5 DEF Init, HandInv

(* A request goes on, the registry as it was. *)
LEMMA OneGoesOn ==
  ASSUME HandInv, NEW r \in Requests, NEW rec, Becomes(r, rec), Placed(rec), rec.pc # "write",
         UNCHANGED <<deployment, registry>>, DOMAIN run' = Requests, run' = [q \in Requests |-> run'[q]],
         \A q \in Requests \ {r} : run'[q] = run[q],
         rec.pc # "done" => run'[r] = NoRun
  PROVE  HandInv'
<1>1. /\ DOMAIN request' = Requests /\ request' = [q \in Requests |-> request'[q]]
      /\ request'[r] = rec /\ \A q \in Requests \ {r} : request'[q] = request[q]
  BY DEF HandInv, Becomes
<1>2. ASSUME NEW q \in Requests
      PROVE  /\ Placed(request'[q])
             /\ Current(request[q])'
             /\ request'[q].pc # "done" => run'[q] = NoRun
  BY <1>1 DEF HandInv, Current
<1> QED BY <1>1, <1>2 DEF HandInv

(* A token that names one tenant names a tenant. *)
LEMMA OnlyOne ==
  ASSUME NEW S \in SUBSET Tenants, Cardinality(S) = 1
  PROVE  Only(S) \in Tenants
<1>1. S # {}
  BY FS_EmptySet
<1> QED BY <1>1 DEF Only

(* What a verdict of the bound subject says. *)
LEMMA Binding ==
  ASSUME NEW subject \in Accounts, NEW up
  PROVE  /\ OfBound(subject, up).is = "principal" =>
              OfBound(subject, up).tenant \in Tenants /\ OfBound(subject, up).tenant = Bound[subject]
         /\ OfBound(subject, up).is = "rejected" => Bound[subject] = NoTenant
         /\ OfBound(subject, up).is \in {"principal", "rejected", "thrown"}
BY IdentityAssumption DEF OfBound, Accepted, Rejected, Thrown

(* A credential's verdict is what is vouched for: a principal is of the tenant *)
(* somebody answers for, and a rejection means that nobody does, or that the  *)
(* issuer's keys could not be had.                                            *)
LEMMA Vouching ==
  ASSUME NEW d \in Deployments, NEW ctx \in Sent[d.authn], NEW up \in SUBSET Consulted(d.authn)
  PROVE  LET verdict == Authenticated(d.authn, ctx, up)
         IN  /\ verdict.is \in {"principal", "rejected", "thrown"}
             /\ verdict.is = "principal" =>
                  verdict.tenant \in Tenants /\ verdict.tenant = VouchedFor(d.authn, ctx)
             /\ verdict.is = "rejected" =>
                  \/ VouchedFor(d.authn, ctx) = NoTenant
                  \/ up # Consulted(d.authn) /\ d.authn \in {"cognito", "gcp-oidc"}
<1> DEFINE c == ctx.bearer
           verdict == Authenticated(d.authn, ctx, up)
           vouched == VouchedFor(d.authn, ctx)
           Right == /\ verdict.is \in {"principal", "rejected", "thrown"}
                    /\ verdict.is = "principal" => verdict.tenant \in Tenants /\ verdict.tenant = vouched
                    /\ verdict.is = "rejected" =>
                         \/ vouched = NoTenant
                         \/ up # Consulted(d.authn) /\ d.authn \in {"cognito", "gcp-oidc"}
<1>1. /\ d.authn \in Authns /\ ctx \in Contexts
      /\ d.authn = "mesh" /\ c # NoToken => c.subject \in EdgeTrusted
  BY FrontDoorAssumption
<1>2. /\ c \in Tokens \cup {NoToken} /\ ctx.hops \in Seq(Accounts)
      /\ c # NoToken => c.tenants \in SUBSET Tenants /\ c.subject \in Accounts
  BY <1>1 DEF Contexts, Tokens
<1>3. ASSUME c # NoToken, Cardinality(c.tenants) = 1 PROVE Only(c.tenants) \in Tenants
  BY <1>2, <1>3, OnlyOne
<1>4. ASSUME c # NoToken PROVE Bound[c.subject] \in Tenants \cup {NoTenant}
  BY <1>2, <1>4, IdentityAssumption
<1>5. CASE d.authn = "cognito"
  <2>1. Consulted(d.authn) = {"cognito"} /\ Issuer(d.authn) = "cognito"
    BY <1>5 DEF Consulted, Issuer
  <2>2. vouched = IF c = NoToken \/ c.by # "cognito" \/ ~Good(c) \/ Cardinality(c.tenants) # 1
                  THEN NoTenant ELSE Only(c.tenants)
    BY <1>5, <2>1 DEF VouchedFor
  <2> DEFINE J == CognitoJwt(ctx, up)
             M == CognitoM2m(ctx, up)
             rightful == Accepted(Only(c.tenants), c.subject)
  <2>3. verdict = Composite(<<J, M>>)
    BY <1>5 DEF Authenticated
  <2>4. /\ J = rightful \/ J = Rejected
        /\ M = rightful \/ M = Rejected
        /\ J = rightful => c # NoToken /\ "cognito" \in up /\ c.by = "cognito" /\ Good(c) /\ Cardinality(c.tenants) = 1
        /\ M = rightful => c # NoToken /\ "cognito" \in up /\ c.by = "cognito" /\ Good(c) /\ Cardinality(c.tenants) = 1
        /\ J = Rejected /\ M = Rejected /\ "cognito" \in up => vouched = NoTenant
    BY <1>2, <2>2 DEF CognitoJwt, CognitoM2m, Verified, Good, Tokens, Accepted, Rejected
  <2>5. Composite(<<J, M>>) \in {J, M, Rejected}
        /\ (Composite(<<J, M>>).is = "rejected" => J.is = "rejected" /\ M.is = "rejected")
    <3> DEFINE verdicts == <<J, M>>
               told == {i \in DOMAIN verdicts : verdicts[i].is # "rejected"}
               first == CHOOSE i \in told : \A j \in told : i <= j
    <3>1. told \subseteq {1, 2} /\ verdicts[1] = J /\ verdicts[2] = M
      OBVIOUS
    <3>2. CASE told = {}
      <4>1. Composite(verdicts) = Rejected
        BY <3>2 DEF Composite
      <4>2. J.is = "rejected" /\ M.is = "rejected"
        BY <3>2, <3>1
      <4> QED BY <4>1, <4>2
    <3>3. CASE told # {}
      <4>1. \E i \in told : \A j \in told : i <= j
        <5>1. CASE 1 \in told
          BY <3>1, <5>1
        <5>2. CASE 1 \notin told
          BY <3>1, <3>3, <5>2
        <5> QED BY <5>1, <5>2
      <4>2. first \in told
        BY <4>1
      <4>3. Composite(verdicts) = verdicts[first]
        BY <3>3 DEF Composite
      <4> HIDE DEF first
      <4> QED BY <3>1, <4>2, <4>3
    <3> QED BY <3>2, <3>3
  <2> HIDE DEF J, M, verdict, vouched
  <2>6. rightful.is = "principal" /\ rightful.tenant = Only(c.tenants) /\ Rejected.is = "rejected"
    BY DEF Accepted, Rejected
  <2>7. verdict.is = "principal" => verdict = rightful /\ (J = rightful \/ M = rightful)
    BY <2>3, <2>4, <2>5, <2>6
  <2>8. verdict.is = "rejected" => J = Rejected /\ M = Rejected
    BY <2>3, <2>4, <2>5, <2>6
  <2>9. verdict.is = "principal" => verdict.tenant = vouched /\ verdict.tenant \in Tenants
    BY <1>3, <2>2, <2>4, <2>6, <2>7
  <2>11. verdict.is \in {"principal", "rejected", "thrown"}
    BY <2>3, <2>4, <2>5, <2>6
  <2>10. "cognito" \in up \/ up # Consulted(d.authn)
    BY <2>1
  <2> QED BY <1>5, <2>4, <2>8, <2>9, <2>10, <2>11 DEF verdict, vouched
<1>6. CASE d.authn = "gcp-oidc"
  <2>1. Consulted(d.authn) = {"google"} /\ Issuer(d.authn) = "google"
    BY <1>6 DEF Consulted, Issuer
  <2>2. vouched = IF c = NoToken \/ c.by # "google" \/ ~Good(c) THEN NoTenant ELSE Bound[c.subject]
    BY <1>6, <2>1 DEF VouchedFor
  <2>3. verdict = GcpOidc(ctx, up)
    BY <1>6 DEF Authenticated
  <2> HIDE DEF vouched, verdict
  <2>4. Right
    BY <1>4, <1>6, <2>1, <2>2, <2>3 DEF GcpOidc, Verified, Good, Accepted, Rejected
  <2> QED BY <2>4 DEF vouched, verdict
<1>7. CASE d.authn = "oidc-sa"
  <2>1. Issuer(d.authn) = "cluster"
    BY <1>7 DEF Issuer
  <2>2. vouched = IF c = NoToken \/ c.by # "cluster" \/ ~Good(c) THEN NoTenant ELSE Bound[c.subject]
    BY <1>7, <2>1 DEF VouchedFor
  <2>3. verdict = OidcSa(ctx, up)
    BY <1>7 DEF Authenticated
  <2> HIDE DEF vouched, verdict
  <2>4. verdict.is = "rejected" /\ c # NoToken =>
          \/ c.by # "cluster" \/ ~Good(c) \/ OfBound(c.subject, up).is = "rejected"
    BY <2>3 DEF OidcSa, Verified, Good, Rejected, Thrown
  <2>5. verdict.is = "principal" =>
          c # NoToken /\ c.by = "cluster" /\ Good(c) /\ verdict = OfBound(c.subject, up)
    BY <2>3 DEF OidcSa, Verified, Good, Rejected, Thrown
  <2>6. verdict.is \in {"principal", "rejected", "thrown"}
    BY <1>2, <2>3, Binding DEF OidcSa, Rejected, Thrown
  <2>7. Right
    BY <1>2, <2>2, <2>4, <2>5, <2>6, Binding
  <2> QED BY <2>7 DEF vouched, verdict
<1>8. CASE d.authn = "mesh-id"
  <2>1. vouched = IF ctx.hops = <<>> THEN NoTenant ELSE Bound[ctx.hops[Len(ctx.hops)]]
    BY <1>8 DEF VouchedFor
  <2>2. verdict = IF ctx.hops = <<>> THEN Rejected ELSE OfBound(ctx.hops[Len(ctx.hops)], up)
    BY <1>8 DEF Authenticated, MeshId
  <2>3. ctx.hops # <<>> => ctx.hops[Len(ctx.hops)] \in Accounts
    BY <1>2
  <2> HIDE DEF vouched, verdict
  <2>4. Right
    BY <2>1, <2>2, <2>3, Binding DEF Rejected
  <2> QED BY <2>4 DEF vouched, verdict
<1>9. CASE d.authn = "mesh"
  <2>1. vouched = IF c # NoToken /\ c.subject \in EdgeTrusted /\ Cardinality(c.tenants) = 1
                  THEN Only(c.tenants) ELSE NoTenant
    BY <1>9 DEF VouchedFor
  <2>2. verdict = MeshTrust(ctx, up)
    BY <1>9 DEF Authenticated
  <2> HIDE DEF vouched, verdict
  <2>3. Right
    BY <1>1, <1>3, <1>9, <2>1, <2>2 DEF MeshTrust, Accepted, Rejected
  <2> QED BY <2>3 DEF vouched, verdict
<1>10. CASE d.authn = "token"
  <2>1. Issuer(d.authn) = "operator"
    BY <1>10 DEF Issuer
  <2>2. vouched = IF c = NoToken \/ c.by # "operator" \/ ~Good(c) THEN NoTenant ELSE Bound[c.subject]
    BY <1>10, <2>1 DEF VouchedFor
  <2>3. verdict = StaticToken(ctx, up)
    BY <1>10 DEF Authenticated
  <2> HIDE DEF vouched, verdict
  <2>4. Right
    BY <1>4, <2>2, <2>3 DEF StaticToken, Good, Accepted, Rejected
  <2> QED BY <2>4 DEF vouched, verdict
<1> QED BY <1>1, <1>5, <1>6, <1>7, <1>8, <1>9, <1>10 DEF Authns
(* What a request asks for, as it arrives. *)
Asking(a, verdict) ==
  [Idle EXCEPT !.op = a.op, !.via = a.via, !.agent = a.agent, !.ctx = a.ctx,
               !.kind = a.kind, !.mode = a.mode, !.who = verdict.tenant]

(* A request nobody has looked at yet. *)
Fresh(rec, a, tenant) ==
  /\ Shaped(rec) /\ rec.slot = FALSE /\ rec.moved = FALSE /\ rec.seen = NoSpec
  /\ rec.op = a.op /\ rec.agent = a.agent /\ rec.ctx = a.ctx /\ rec.who = tenant
  /\ rec.kind \in Kinds

LEMMA AskingIsFresh ==
  ASSUME NEW r \in Requests, NEW a \in Asked(r), NEW verdict
  PROVE  Fresh(Asking(a, verdict), a, verdict.tenant) /\ Asking(a, verdict).reply = 0
<1> DEFINE a1 == [Idle EXCEPT !.op = a.op]
           a2 == [a1 EXCEPT !.via = a.via]
           a3 == [a2 EXCEPT !.agent = a.agent]
           a4 == [a3 EXCEPT !.ctx = a.ctx]
           a5 == [a4 EXCEPT !.kind = a.kind]
           a6 == [a5 EXCEPT !.mode = a.mode]
           a7 == [a6 EXCEPT !.who = verdict.tenant]
           Asks(x) == /\ Shaped(x) /\ x.slot = FALSE /\ x.moved = FALSE /\ x.seen = NoSpec
                      /\ x.reply = 0 /\ x.op = a.op
<1>0. /\ Shaped(Idle) /\ Idle.slot = FALSE /\ Idle.moved = FALSE /\ Idle.seen = NoSpec
      /\ Idle.reply = 0
  BY DEF Idle, Shaped
<1>1. Asks(a1)
  BY <1>0 DEF Shaped
<1>2. Asks(a2)
  <2> HIDE DEF a1
  <2> QED BY <1>1 DEF Shaped
<1>3. Asks(a3) /\ a3.agent = a.agent
  <2> HIDE DEF a2
  <2> QED BY <1>2 DEF Shaped
<1>4. Asks(a4) /\ a4.agent = a.agent /\ a4.ctx = a.ctx
  <2> HIDE DEF a3
  <2> QED BY <1>3 DEF Shaped
<1>5. Asks(a5) /\ a5.agent = a.agent /\ a5.ctx = a.ctx /\ a5.kind = a.kind
  <2> HIDE DEF a4
  <2> QED BY <1>4 DEF Shaped
<1>6. Asks(a6) /\ a6.agent = a.agent /\ a6.ctx = a.ctx /\ a6.kind = a.kind
  <2> HIDE DEF a5
  <2> QED BY <1>5 DEF Shaped
<1>7. /\ Asks(a7) /\ a7.agent = a.agent /\ a7.ctx = a.ctx /\ a7.kind = a.kind
      /\ a7.who = verdict.tenant
  <2> HIDE DEF a6
  <2> QED BY <1>6 DEF Shaped
<1>8. Asking(a, verdict) = a7
  BY DEF Asking
<1>9. a.kind \in Kinds
  BY DEF Asked
<1> HIDE DEF a7
<1> QED BY <1>7, <1>8, <1>9 DEF Fresh

(* A fresh request that is answered at once. *)
LEMMA AnsweredAtOnce ==
  ASSUME NEW rec, NEW a, NEW tenant, Fresh(rec, a, tenant), NEW code
  PROVE  LET new == Answered(rec, code)
         IN  Fresh(new, a, tenant) /\ new.pc = "done" /\ new.reply = code
<1> DEFINE a1 == [rec EXCEPT !.pc = "done"]
           a2 == [a1 EXCEPT !.reply = code]
           a3 == [a2 EXCEPT !.kind = "loop"]
           a4 == [a3 EXCEPT !.seen = NoSpec]
<1>1. Fresh(a1, a, tenant) /\ a1.pc = "done"
  BY DEF Fresh, Shaped
<1>2. Fresh(a2, a, tenant) /\ a2.pc = "done" /\ a2.reply = code
  <2> HIDE DEF a1
  <2> QED BY <1>1 DEF Fresh, Shaped
<1>3. Fresh(a3, a, tenant) /\ a3.pc = "done" /\ a3.reply = code
  <2> HIDE DEF a2
  <2> QED BY <1>2 DEF Fresh, Shaped, Kinds
<1>4. Fresh(a4, a, tenant) /\ a4.pc = "done" /\ a4.reply = code
  <2> HIDE DEF a3
  <2> QED BY <1>3 DEF Fresh, Shaped
<1>5. Answered(rec, code) = a4
  BY DEF Answered
<1> HIDE DEF a4
<1> QED BY <1>4, <1>5

GoneOn(rec, place)    == [rec EXCEPT !.pc = place]
Unverified(rec, deaf) == [rec EXCEPT !.deaf = deaf]

(* A fresh request that goes on. *)
LEMMA FreshGoesOn ==
  ASSUME NEW rec, NEW a, NEW tenant, Fresh(rec, a, tenant), NEW place
  PROVE  LET new == GoneOn(rec, place)
         IN  Fresh(new, a, tenant) /\ new.pc = place /\ new.reply = rec.reply
BY DEF Fresh, Shaped, GoneOn

(* And one that nobody could verify. *)
LEMMA FreshUnverified ==
  ASSUME NEW rec, NEW a, NEW tenant, Fresh(rec, a, tenant), NEW deaf
  PROVE  LET new == Unverified(rec, deaf)
         IN  Fresh(new, a, tenant) /\ new.pc = rec.pc /\ new.reply = rec.reply /\ new.deaf = deaf
BY DEF Fresh, Shaped, Unverified

(* The credential of a request stands for its tenant, and policy agrees.  *)
Vouched(rec) ==
  /\ rec.who \in Tenants /\ rec.who = VouchedFor(deployment.authn, rec.ctx)
  /\ deployment.opa /\ rec.op # "read" => <<rec.who, rec.op>> \in Permitted

Earned(rec) ==
  rec.reply = 401 /\ rec.op # "read" =>
    \/ VouchedFor(deployment.authn, rec.ctx) = NoTenant
    \/ rec.deaf /\ deployment.authn \in {"cognito", "gcp-oidc"}

(* A request as its first step leaves it. *)
Arrived(new) ==
  /\ Placed(new) /\ new.slot = FALSE /\ new.moved = FALSE /\ new.seen = NoSpec
  /\ new.kind \in Kinds /\ new.agent \in Agents \cup {NoAgent}
  /\ new.pc \in {"done", "read", "admit", "lookup"}
  /\ new.pc = "done" <=> new.reply # 0
  /\ new.reply \in {0, 400, 401, 403, 500, 501}
  /\ new.pc = "admit" => new.agent = NoAgent
  /\ new.pc # "done" => Vouched(new)
  /\ Earned(new)

(* A fresh request whose credential was looked at. *)
IdentifiedAs(known, a, tenant) ==
  /\ Fresh(known, a, tenant)
  /\ known.pc \in {"done", "read", "authz"}
  /\ known.pc = "done" => known.reply \in {401, 500, 501}
  /\ known.pc # "done" => /\ known.reply = 0 /\ (known.pc = "read" <=> a.op = "read")
                          /\ known.who \in Tenants
                          /\ known.who = VouchedFor(deployment.authn, known.ctx)
  /\ Earned(known)

LEMMA Identifying ==
  ASSUME deployment \in Deployments, NEW r \in Requests, NEW a \in Asked(r),
         NEW up \in SUBSET Consulted(deployment.authn)
  PROVE  LET verdict == Authenticated(deployment.authn, a.ctx, up)
             known   == Identified(Asking(a, verdict), verdict, up # Consulted(deployment.authn))
         IN  IdentifiedAs(known, a, verdict.tenant)
<1> DEFINE verdict == Authenticated(deployment.authn, a.ctx, up)
           deaf  == up # Consulted(deployment.authn)
           known == Identified(Asking(a, verdict), verdict, deaf)
           asked == Asking(a, verdict)
           is    == verdict.is
<1>1. Fresh(asked, a, verdict.tenant) /\ asked.reply = 0
  BY AskingIsFresh
<1>2. a.ctx \in Sent[deployment.authn] /\ a.op \in Operations
  BY DEF Asked
<1>3. /\ is \in {"principal", "rejected", "thrown"}
      /\ is = "principal" =>
           verdict.tenant \in Tenants /\ verdict.tenant = VouchedFor(deployment.authn, a.ctx)
      /\ is = "rejected" =>
           \/ VouchedFor(deployment.authn, a.ctx) = NoTenant
           \/ deaf /\ deployment.authn \in {"cognito", "gcp-oidc"}
  BY <1>2, Vouching
<1> HIDE DEF asked, deaf, verdict
<1>4. known = CASE is = "rejected" \/ (is = "thrown" /\ a.op = "read") ->
                     [Answered(asked, 401) EXCEPT !.deaf = deaf]
                [] is = "thrown" /\ a.op # "read" -> Answered(asked, 500)
                [] is = "principal" /\ a.op = "read" -> [asked EXCEPT !.pc = "read"]
                [] is = "principal" /\ a.op = "run" -> [asked EXCEPT !.pc = "authz"]
                [] OTHER -> IF deployment.writable THEN [asked EXCEPT !.pc = "authz"]
                            ELSE Answered(asked, 501)
  BY <1>1 DEF Identified, Fresh, asked
<1> HIDE DEF known
<1>5. ASSUME is = "rejected" \/ (is = "thrown" /\ a.op = "read") PROVE IdentifiedAs(known, a, verdict.tenant)
  <2> DEFINE told == Answered(asked, 401)
  <2>1. Fresh(told, a, verdict.tenant) /\ told.pc = "done" /\ told.reply = 401
    BY <1>1, AnsweredAtOnce
  <2> HIDE DEF told
  <2>2. known = Unverified(told, deaf)
    BY <1>4, <1>5 DEF told, Unverified
  <2>3. /\ Fresh(known, a, verdict.tenant) /\ known.pc = "done" /\ known.reply = 401
        /\ known.deaf = deaf
    BY <2>1, <2>2, FreshUnverified
  <2>4. Earned(known)
    BY <1>3, <1>5, <2>3 DEF Earned, Fresh
  <2> QED BY <2>3, <2>4 DEF IdentifiedAs
<1>6. ASSUME is = "thrown" /\ a.op # "read" PROVE IdentifiedAs(known, a, verdict.tenant)
  <2>1. known = Answered(asked, 500)
    BY <1>4, <1>6
  <2>2. Fresh(known, a, verdict.tenant) /\ known.pc = "done" /\ known.reply = 500
    BY <1>1, <2>1, AnsweredAtOnce
  <2> QED BY <2>2 DEF Earned, IdentifiedAs
<1>7. ASSUME is = "principal" PROVE IdentifiedAs(known, a, verdict.tenant)
  <2>1. \/ known = GoneOn(asked, "read") /\ a.op = "read"
        \/ known = GoneOn(asked, "authz") /\ a.op # "read"
        \/ known = Answered(asked, 501)
    BY <1>4, <1>7 DEF GoneOn
  <2>2. CASE known = Answered(asked, 501)
    <3>1. Fresh(known, a, verdict.tenant) /\ known.pc = "done" /\ known.reply = 501
      BY <1>1, <2>2, AnsweredAtOnce
    <3> QED BY <3>1 DEF Earned, IdentifiedAs
  <2>3. CASE known = GoneOn(asked, "read") /\ a.op = "read"
    <3>1. Fresh(known, a, verdict.tenant) /\ known.pc = "read" /\ known.reply = 0
      BY <1>1, <2>3, FreshGoesOn
    <3> QED BY <1>3, <1>7, <2>3, <3>1 DEF Earned, Fresh, IdentifiedAs
  <2>4. CASE known = GoneOn(asked, "authz") /\ a.op # "read"
    <3>1. Fresh(known, a, verdict.tenant) /\ known.pc = "authz" /\ known.reply = 0
      BY <1>1, <2>4, FreshGoesOn
    <3> QED BY <1>3, <1>7, <2>4, <3>1 DEF Earned, Fresh, IdentifiedAs
  <2> QED BY <2>1, <2>2, <2>3, <2>4
<1> QED BY <1>3, <1>5, <1>6, <1>7 DEF known, verdict, deaf

(* A request that arrives becomes one whose credential was looked at. *)
LEMMA Arriving ==
  ASSUME HandInv, NEW r \in Requests, Arrives(r)
  PROVE  /\ HandInv'
         /\ \E new : Becomes(r, new) /\ Arrived(new)
         /\ \E shown \in {"signed out", "off"} : watch' = [watch EXCEPT ![r].at = shown]
<1>1. At(r, "idle") /\ UNCHANGED <<deployment, registry, run>>
  BY DEF Arrives
<1>2. PICK a \in Asked(r), up \in SUBSET Consulted(deployment.authn), answers \in BOOLEAN, valid \in BOOLEAN :
        LET verdict == Authenticated(deployment.authn, a.ctx, up)
            asked   == [Idle EXCEPT !.op = a.op, !.via = a.via, !.agent = a.agent, !.ctx = a.ctx,
                                    !.kind = a.kind, !.mode = a.mode, !.who = verdict.tenant]
            known   == Identified(asked, verdict, up # Consulted(deployment.authn))
        IN  /\ Becomes(r, IF known.pc # "authz" THEN known
                          ELSE IF a.op = "register" /\ ~valid THEN Answered(known, 400)
                          ELSE Authorized(known, answers))
            /\ watch' = [watch EXCEPT ![r].at = Shown(known)]
  BY DEF Arrives
<1> DEFINE verdict == Authenticated(deployment.authn, a.ctx, up)
           known   == Identified(Asking(a, verdict), verdict, up # Consulted(deployment.authn))
           new     == IF known.pc # "authz" THEN known
                      ELSE IF a.op = "register" /\ ~valid THEN Answered(known, 400)
                      ELSE Authorized(known, answers)
<1>3. Becomes(r, new) /\ watch' = [watch EXCEPT ![r].at = Shown(known)]
  BY <1>2 DEF Asking
<1> HIDE DEF verdict
<1>4. IdentifiedAs(known, a, verdict.tenant)
  <2>1. deployment \in Deployments
    BY DEF HandInv
  <2> QED BY <2>1, Identifying DEF verdict
<1> HIDE DEF known
<1>5. /\ a.agent \in Agents \cup {NoAgent} /\ (a.op = "read" => a.agent = NoAgent)
  BY DEF Asked
<1>6. ASSUME known.pc # "authz" PROVE Arrived(new)
  <2>1. new = known
    BY <1>6
  <2> QED BY <1>4, <1>5, <1>6, <2>1 DEF IdentifiedAs, Arrived, Placed, Fresh, Vouched
<1>7. ASSUME known.pc = "authz" PROVE Arrived(new)
  <2>1. \/ \E code \in {400, 403} : new = Answered(known, code)
        \/ /\ \E place : /\ new = GoneOn(known, place)
                         /\ place = IF known.agent = NoAgent THEN "admit" ELSE "lookup"
           /\ deployment.opa => <<known.who, known.op>> \in Permitted
    BY <1>7 DEF Authorized, GoneOn
  <2> HIDE DEF new
  <2>2. ASSUME NEW code \in {400, 403}, new = Answered(known, code) PROVE Arrived(new)
    <3>1. Fresh(new, a, verdict.tenant) /\ new.pc = "done" /\ new.reply = code
      BY <1>4, <2>2, AnsweredAtOnce DEF IdentifiedAs
    <3> QED BY <1>5, <3>1 DEF Arrived, Placed, Fresh, Earned
  <2>3. ASSUME NEW place, new = GoneOn(known, place),
               place = IF known.agent = NoAgent THEN "admit" ELSE "lookup",
               deployment.opa => <<known.who, known.op>> \in Permitted
        PROVE  Arrived(new)
    <3>1. Fresh(new, a, verdict.tenant) /\ new.pc = place /\ new.reply = 0
      BY <1>4, <1>7, <2>3, FreshGoesOn DEF IdentifiedAs
    <3>2. new.agent = known.agent /\ new.who = known.who /\ new.op = known.op /\ new.ctx = known.ctx
      BY <1>4, <3>1 DEF Fresh, IdentifiedAs
    <3>3. Vouched(new)
      BY <1>4, <1>7, <2>3, <3>2 DEF Vouched, IdentifiedAs
    <3> QED BY <1>5, <2>3, <3>1, <3>2, <3>3 DEF Arrived, Placed, Fresh, Earned
  <2> QED BY <2>1, <2>2, <2>3
<1>8. Arrived(new)
  BY <1>6, <1>7
<1> HIDE DEF new
<1>9. run[r] = NoRun
  BY <1>1 DEF HandInv, At
<1>10. HandInv'
  BY <1>1, <1>3, <1>8, <1>9, OneGoesOn DEF HandInv, Arrived
<1>11. \E shown \in {"signed out", "off"} : watch' = [watch EXCEPT ![r].at = shown]
  BY <1>3 DEF Shown
<1> QED BY <1>3, <1>8, <1>10, <1>11

(* Answering, or going on, keeps what a request is. *)
LEMMA Answering ==
  ASSUME NEW rec, Placed(rec), NEW code
  PROVE  LET new == Answered(rec, code)
         IN  /\ Placed(new) /\ Kept(new, rec)
             /\ new.pc = "done" /\ new.reply = code /\ new.kind = "loop" /\ new.seen = NoSpec
             /\ new.slot = rec.slot /\ new.moved = rec.moved
<1> DEFINE a1 == [rec EXCEPT !.pc = "done"]
           a2 == [a1 EXCEPT !.reply = code]
           a3 == [a2 EXCEPT !.kind = "loop"]
           a4 == [a3 EXCEPT !.seen = NoSpec]
           Same(x) == /\ Shaped(x) /\ Kept(x, rec)
                      /\ x.pc = "done" /\ x.slot = rec.slot /\ x.moved = rec.moved
<1>1. Same(a1)
  BY DEF Placed, Shaped, Kept
<1>2. Same(a2) /\ a2.reply = code
  <2> HIDE DEF a1
  <2> QED BY <1>1 DEF Shaped, Kept
<1>3. Same(a3) /\ a3.reply = code /\ a3.kind = "loop"
  <2> HIDE DEF a2
  <2> QED BY <1>2 DEF Shaped, Kept
<1>4. Same(a4) /\ a4.reply = code /\ a4.kind = "loop" /\ a4.seen = NoSpec
  <2> HIDE DEF a3
  <2> QED BY <1>3 DEF Shaped, Kept
<1>5. Answered(rec, code) = a4
  BY DEF Answered
<1> HIDE DEF a4
<1> QED BY <1>4, <1>5 DEF Placed

(* Going on to the next place keeps what a request is. *)
LEMMA Proceeding ==
  ASSUME NEW rec, Placed(rec), NEW place \in {"create", "done", "admit"},
         rec.slot = FALSE
  PROVE  LET new == [rec EXCEPT !.pc = place]
         IN  /\ Placed(new) /\ Kept(new, rec) /\ new.pc = place /\ new.reply = rec.reply
             /\ new.kind = rec.kind /\ new.seen = rec.seen
             /\ new.slot = rec.slot /\ new.moved = rec.moved
BY DEF Placed, Shaped, Kept

(* So does going on with a slot of the quota. *)
LEMMA Slotting ==
  ASSUME NEW rec, Placed(rec)
  PROVE  LET new == [rec EXCEPT !.pc = "create", !.slot = TRUE]
         IN  /\ Placed(new) /\ Kept(new, rec) /\ new.pc = "create" /\ new.reply = rec.reply
             /\ new.kind = rec.kind /\ new.seen = rec.seen
             /\ new.slot /\ new.moved = rec.moved
<1> DEFINE Same(x) == /\ Shaped(x) /\ Kept(x, rec) /\ x.pc = "create" /\ x.reply = rec.reply
                      /\ x.kind = rec.kind /\ x.seen = rec.seen /\ x.moved = rec.moved
           yes == TRUE
           a1 == [rec EXCEPT !.pc = "create"]
           a2 == [a1 EXCEPT !.slot = yes]
<1>1. Same(a1)
  BY DEF Placed, Shaped, Kept
<1> HIDE DEF a1, yes
<1>2. Same(a2) /\ a2.slot = yes
  BY <1>1 DEF Shaped, Kept
<1>3. Placed(a2) /\ a2.slot
  BY <1>2 DEF Placed, yes
<1>4. a2 = [rec EXCEPT !.pc = "create", !.slot = TRUE]
  BY DEF a1, yes
<1> HIDE DEF a2
<1> QED BY <1>2, <1>3, <1>4

Seen(rec, spec, place) == [rec EXCEPT !.seen = spec, !.pc = place]

(* What the lookup returns goes with the request. *)
LEMMA Seeing ==
  ASSUME NEW rec, Placed(rec), rec.pc = "lookup", NEW spec, NEW place \in {"admit", "write"},
         NEW new, new = Seen(rec, spec, place)
  PROVE  /\ Placed(new) /\ Kept(new, rec) /\ new.seen = spec
         /\ new.pc = place /\ new.reply = rec.reply
         /\ new.kind = rec.kind /\ new.slot = rec.slot /\ new.moved = rec.moved
<1> DEFINE a1 == [rec EXCEPT !.seen = spec]
           a2 == [a1 EXCEPT !.pc = place]
<1>1. /\ Shaped(a1) /\ Kept(a1, rec) /\ a1.seen = spec /\ a1.slot = FALSE
      /\ a1.reply = rec.reply /\ a1.kind = rec.kind /\ a1.moved = rec.moved
  BY DEF Placed, Shaped, Kept
<1> HIDE DEF a1
<1>2. /\ Shaped(a2) /\ Kept(a2, rec) /\ a2.seen = spec /\ a2.slot = FALSE /\ a2.pc = place
      /\ a2.reply = rec.reply /\ a2.kind = rec.kind /\ a2.moved = rec.moved
  BY <1>1 DEF Shaped, Kept
<1>3. new = a2
  BY DEF a1, Seen
<1> HIDE DEF a2
<1> QED BY <1>2, <1>3 DEF Placed, Kept

(* The handlers that neither look the agent up nor write it. *)
LEMMA Handling ==
  ASSUME HandInv, NEW r \in Requests,
         Read(r) \/ Admit(r) \/ Create(r) \/ Breaks(r)
  PROVE  HandInv'
<1> DEFINE rec == request[r]
<1>0. Placed(rec) /\ (rec.pc # "done" => run[r] = NoRun)
  BY DEF HandInv
<1>1. CASE Read(r) \/ Breaks(r)
  <2>1. PICK code : Reply(r, code)
    BY <1>1 DEF Read, Breaks
  <2>2. UNCHANGED <<deployment, registry, run>>
    BY <1>1 DEF Read, Breaks
  <2> QED BY <1>0, <2>1, <2>2, Answering, OneGoesOn DEF Reply, HandInv
<1>2. CASE Create(r)
  <2>1. PICK code, born : Reply(r, code) /\ run' = [run EXCEPT ![r] = born]
    BY <1>2 DEF Create
  <2>2. UNCHANGED <<deployment, registry>>
    BY <1>2 DEF Create
  <2>3. /\ DOMAIN run' = Requests /\ run' = [q \in Requests |-> run'[q]]
        /\ \A q \in Requests \ {r} : run'[q] = run[q]
    BY <2>1 DEF HandInv
  <2> QED BY <1>0, <2>1, <2>2, <2>3, Answering, OneGoesOn DEF Reply
<1>3. CASE Admit(r)
  <2>1. rec.pc = "admit" /\ rec.slot = FALSE /\ run[r] = NoRun /\ UNCHANGED <<deployment, registry, run>>
    BY <1>0, <1>3 DEF Admit, At, Placed
  <2>2. \/ \E code : Reply(r, code)
        \/ Proceed(r, "create")
        \/ Becomes(r, [rec EXCEPT !.pc = "create", !.slot = TRUE])
    BY <1>3 DEF Admit, ReserveRun, CheckBudget
  <2>3. CASE \E code : Reply(r, code)
    BY <1>0, <2>1, <2>3, Answering, OneGoesOn DEF Reply, HandInv
  <2>4. CASE Proceed(r, "create")
    BY <1>0, <2>1, <2>4, Proceeding, OneGoesOn DEF Proceed, HandInv
  <2>5. CASE Becomes(r, [rec EXCEPT !.pc = "create", !.slot = TRUE])
    <3> DEFINE new == [rec EXCEPT !.pc = "create", !.slot = TRUE]
    <3>1. Placed(new) /\ new.pc = "create"
      BY <1>0, Slotting
    <3> HIDE DEF new
    <3>2. Becomes(r, new)
      BY <2>5 DEF new
    <3> QED BY <2>1, <3>1, <3>2, OneGoesOn DEF HandInv
  <2> QED BY <2>2, <2>3, <2>4, <2>5
<1> QED BY <1>1, <1>2, <1>3

(* The lookup is what makes a write's knowledge current. *)
LEMMA LookingUp ==
  ASSUME HandInv, NEW r \in Requests, Lookup(r)
  PROVE  HandInv'
<1> DEFINE rec  == request[r]
           spec == registry[rec.agent]
           place == IF rec.op = "run" THEN "admit" ELSE "write"
           new  == [rec EXCEPT !.seen = spec, !.pc = place]
<1>0. /\ Placed(rec) /\ rec.pc = "lookup" /\ run[r] = NoRun /\ UNCHANGED <<deployment, registry, run>>
  BY DEF HandInv, Lookup, At
<1>1. CASE \E code : Reply(r, code)
  BY <1>0, <1>1, Answering, OneGoesOn DEF Reply, HandInv
<1>2. CASE Becomes(r, new) /\ (rec.op = "run" \/ ~Foreign(spec, rec.who))
  <2>1. /\ Placed(new) /\ new.seen = spec /\ new.agent = rec.agent /\ new.who = rec.who
        /\ new.pc = place
    <3>1. Placed(rec) /\ rec.pc = "lookup" /\ place \in {"admit", "write"}
      BY <1>0 DEF Placed
    <3>2. new = Seen(rec, spec, place)
      BY DEF Seen
    <3> HIDE DEF place, spec, rec, new
    <3> QED BY <3>1, <3>2, Seeing DEF Kept
  <2> HIDE DEF new
  <2>2. /\ DOMAIN request' = Requests /\ request' = [q \in Requests |-> request'[q]]
        /\ request'[r] = new /\ \A q \in Requests \ {r} : request'[q] = request[q]
    BY <1>2 DEF HandInv, Becomes
  <2>3. Current(request[r])'
    BY <1>0, <1>2, <2>1, <2>2 DEF Current
  <2>4. ASSUME NEW q \in Requests
        PROVE  /\ Placed(request'[q])
               /\ Current(request[q])'
               /\ request'[q].pc # "done" => run'[q] = NoRun
    BY <1>0, <2>1, <2>2, <2>3 DEF HandInv, Current
  <2> QED BY <1>0, <2>2, <2>4 DEF HandInv
<1> QED BY <1>1, <1>2 DEF Lookup

(* A registry entry is written: those who were about to act on the old one    *)
(* are marked, and nothing else of a request changes.                        *)
LEMMA Staling ==
  ASSUME NEW n, NEW r \in Requests, HandInv
  PROVE  /\ Placed(Stale(n)[r]) /\ Kept(Stale(n)[r], request[r]) /\ Stale(n)[r].pc = request[r].pc
         /\ Stale(n)[r].agent = request[r].agent /\ Stale(n)[r].who = request[r].who
         /\ Stale(n)[r].seen = request[r].seen /\ Stale(n)[r].reply = request[r].reply
         /\ Stale(n)[r].kind = request[r].kind /\ Stale(n)[r].slot = request[r].slot
         /\ Stale(n)[r].moved <=> \/ request[r].moved
                                  \/ /\ request[r].agent = n /\ request[r].pc # "idle"
                                     /\ run[r].as = "none"
         /\ request[r].pc = "write" /\ request[r].agent = n => Stale(n)[r].moved
         /\ ~Stale(n)[r].moved => ~request[r].moved
<1> DEFINE rec == request[r]
           now == \/ rec.moved
                  \/ /\ rec.agent = n /\ rec.pc # "idle" /\ run[r].as = "none"
<1>1. Placed(rec) /\ (rec.pc # "done" => run[r] = NoRun)
  BY DEF HandInv
<1>2. Stale(n)[r] = [rec EXCEPT !.moved = now]
  BY DEF Stale
<1>3. /\ rec.pc = "write" /\ rec.agent = n => now
      /\ ~now => ~rec.moved
  BY <1>1 DEF NoRun
<1> HIDE DEF now
<1>4. [rec EXCEPT !.moved = now].moved = now
  BY <1>1 DEF Placed, Shaped
<1>5. /\ Placed([rec EXCEPT !.moved = now])
      /\ Kept([rec EXCEPT !.moved = now], rec)
      /\ [rec EXCEPT !.moved = now].kind = rec.kind
      /\ [rec EXCEPT !.moved = now].slot = rec.slot
      /\ [rec EXCEPT !.moved = now].pc = rec.pc
      /\ [rec EXCEPT !.moved = now].agent = rec.agent
      /\ [rec EXCEPT !.moved = now].who = rec.who
      /\ [rec EXCEPT !.moved = now].seen = rec.seen
      /\ [rec EXCEPT !.moved = now].reply = rec.reply
  BY <1>1 DEF Placed, Shaped, Kept
<1>6. now <=> \/ rec.moved
              \/ rec.agent = n /\ rec.pc # "idle" /\ run[r].as = "none"
  BY DEF now
<1> HIDE DEF rec
<1> QED BY <1>2, <1>3, <1>4, <1>5, <1>6 DEF rec

(* Writing, or an edit behind the front door, leaves whoever looked the agent *)
(* up before with marked knowledge.                                          *)
LEMMA Rewriting ==
  ASSUME HandInv, NEW n \in Agents, NEW spec, registry' = [registry EXCEPT ![n] = spec],
         UNCHANGED <<deployment, run>>, NEW W \in SUBSET Requests,
         DOMAIN request' = Requests, request' = [q \in Requests |-> request'[q]],
         \A q \in W : Placed(request'[q]) /\ request'[q].pc = "done",
         \A q \in Requests \ W : request'[q] = Stale(n)[q]
  PROVE  HandInv'
<1>1. /\ DOMAIN registry' = Agents /\ registry' = [m \in Agents |-> registry'[m]]
      /\ \A m : m # n /\ m \in Agents => registry'[m] = registry[m]
  BY DEF HandInv
<1>2. ASSUME NEW q \in Requests
      PROVE  /\ Placed(request'[q])
             /\ request'[q].pc # "done" => run'[q] = NoRun
             /\ Current(request[q])'
  <2>1. CASE q \in W
    BY <2>1 DEF Current
  <2>2. CASE q \notin W
    <3>1. /\ Placed(Stale(n)[q]) /\ Stale(n)[q].pc = request[q].pc
          /\ Stale(n)[q].agent = request[q].agent /\ Stale(n)[q].who = request[q].who
          /\ Stale(n)[q].seen = request[q].seen
      BY Staling
    <3>2. /\ request[q].pc = "write" /\ request[q].agent = n => Stale(n)[q].moved
          /\ ~Stale(n)[q].moved => ~request[q].moved
      BY Staling
    <3> DEFINE old == request[q]
               new == Stale(n)[q]
    <3>3. request'[q] = new
      BY <2>2
    <3>4. /\ Placed(new) /\ new.pc = old.pc /\ new.agent = old.agent /\ new.who = old.who
          /\ new.seen = old.seen
          /\ old.pc = "write" /\ old.agent = n => new.moved
          /\ ~new.moved => ~old.moved
      BY <3>1, <3>2
    <3>5. Current(old) /\ (old.pc # "done" => run[q] = NoRun)
      BY DEF HandInv
    <3> HIDE DEF old, new
    <3>6. ASSUME new.pc = "write", ~new.moved
          PROVE  new.seen = registry'[new.agent] /\ ~Foreign(new.seen, new.who)
      <4>1. old.agent # n
        BY <3>4, <3>6
      <4>2. old.seen = registry[old.agent] /\ ~Foreign(old.seen, old.who)
        BY <3>4, <3>5, <3>6 DEF Current
      <4> QED BY <1>1, <3>4, <3>6, <4>1, <4>2 DEF Placed
    <3> QED BY <3>3, <3>4, <3>5, <3>6 DEF Current
  <2> QED BY <2>1, <2>2
<1> QED BY <1>1, <1>2 DEF HandInv

(* A write ends its own request and marks the others'. *)
LEMMA Writing ==
  ASSUME HandInv, NEW r \in Requests, Write(r)
  PROVE  HandInv'
<1> DEFINE n     == request[r].agent
           rec   == request[r]
           place == "done"
           code  == IF rec.op = "register" /\ rec.seen = NoSpec THEN 201 ELSE 200
           a1    == [rec EXCEPT !.pc = place]
           a2    == [a1 EXCEPT !.reply = code]
<1>1. /\ rec.pc = "write" /\ UNCHANGED <<deployment, run>>
      /\ \E spec : registry' = [registry EXCEPT ![n] = spec]
  BY DEF Write, At
<1>2. request' = [Stale(n) EXCEPT ![r] = a2]
  BY DEF Write
<1>3. Placed(rec) /\ n \in Agents
  BY <1>1 DEF HandInv, Placed
<1>4. Placed(a2) /\ a2.pc = "done"
  <2>1. Shaped(a1) /\ a1.pc = "done"
    BY <1>3 DEF Placed, Shaped
  <2> HIDE DEF a1, code
  <2>2. Shaped(a2) /\ a2.pc = "done"
    BY <2>1 DEF Shaped
  <2> HIDE DEF a2
  <2> QED BY <2>2 DEF Placed
<1> HIDE DEF a2, n
<1>5. /\ DOMAIN request' = Requests /\ request' = [q \in Requests |-> request'[q]]
      /\ request'[r] = a2 /\ \A q \in Requests \ {r} : request'[q] = Stale(n)[q]
  BY <1>2 DEF Stale
<1>6. PICK spec : registry' = [registry EXCEPT ![n] = spec]
  BY <1>1
<1> DEFINE W == {r}
<1>7. /\ W \in SUBSET Requests
      /\ \A q \in W : Placed(request'[q]) /\ request'[q].pc = "done"
      /\ \A q \in Requests \ W : request'[q] = Stale(n)[q]
  BY <1>4, <1>5
<1>8. /\ UNCHANGED <<deployment, run>> /\ n \in Agents
      /\ DOMAIN request' = Requests /\ request' = [q \in Requests |-> request'[q]]
  BY <1>1, <1>3, <1>5
<1> HIDE DEF W
<1> QED BY <1>6, <1>7, <1>8, Rewriting

(* An edit behind the front door only marks. *)
LEMMA Editing ==
  ASSUME HandInv, NEW n \in Agents, Edit(n)
  PROVE  HandInv'
<1>1. UNCHANGED <<deployment, run>> /\ request' = Stale(n)
  BY DEF Edit
<1>2. PICK spec : registry' = [registry EXCEPT ![n] = spec]
  BY DEF Edit
<1>3. DOMAIN request' = Requests /\ request' = [q \in Requests |-> request'[q]]
  BY <1>1 DEF Stale
<1>4. /\ {} \in SUBSET Requests
      /\ \A q \in {} : Placed(request'[q]) /\ request'[q].pc = "done"
      /\ \A q \in Requests \ {} : request'[q] = Stale(n)[q]
  BY <1>1
<1> QED BY <1>1, <1>2, <1>3, <1>4, Rewriting

(* A run that moves was created, so its request has been answered. *)
LEMMA Executing ==
  ASSUME HandInv, NEW r \in Requests, Executes(r)
  PROVE  /\ HandInv' /\ UNCHANGED <<deployment, registry, request>>
         /\ run[r].at # "none" /\ \A q \in Requests \ {r} : run'[q] = run[q]
<1>1. /\ run[r].at # "none" /\ UNCHANGED <<deployment, registry, request>>
      /\ \E new : run' = [run EXCEPT ![r] = new]
  <2>1. CASE Mint(r)
    BY <2>1 DEF Mint, Moves, Fail, Strand
  <2>2. CASE RunTask(r)
    BY <2>2 DEF RunTask, Moves, Fail, Strand, Launch
  <2>3. CASE AgentCore(r)
    BY <2>3 DEF AgentCore, Moves, Fail, Strand, Launch
  <2>4. CASE InProcess(r) \/ AgentEngine(r)
    BY <2>4 DEF InProcess, AgentEngine, Moves, Fail, Strand, Launch
  <2>5. CASE Starts(r) \/ Ends(r) \/ Abandons(r)
    BY <2>5 DEF Starts, Ends, Abandons, Strand, Moves
  <2> QED BY <2>1, <2>2, <2>3, <2>4, <2>5 DEF Executes, Route
<1>2. request[r].pc = "done"
  BY <1>1 DEF HandInv, NoRun
<1>3. /\ DOMAIN run' = Requests /\ run' = [q \in Requests |-> run'[q]]
      /\ \A q \in Requests \ {r} : run'[q] = run[q]
  BY <1>1 DEF HandInv
<1>4. ASSUME NEW q \in Requests
      PROVE  /\ Placed(request'[q])
             /\ Current(request[q])'
             /\ request'[q].pc # "done" => run'[q] = NoRun
  BY <1>1, <1>2, <1>3 DEF HandInv, Current
<1> QED BY <1>1, <1>3, <1>4 DEF HandInv

(* What neither writes an agent nor moves a request or a run changes nothing. *)
LEMMA Idling ==
  ASSUME HandInv, UNCHANGED <<deployment, registry, request, run>>
  PROVE  HandInv'
BY DEF HandInv, Current

(* Every step keeps what is known. *)
LEMMA HandStep == HandInv /\ [Next]_vars => HandInv'
<1> SUFFICES ASSUME HandInv, [Next]_vars PROVE HandInv'
  OBVIOUS
<1>1. ASSUME NEW r \in Requests, Handles(r) PROVE HandInv'
  BY <1>1, Arriving, Handling, LookingUp, Writing DEF Handles
<1>2. ASSUME NEW r \in Requests, Executes(r) PROVE HandInv'
  BY <1>2, Executing
<1>3. ASSUME NEW r \in Requests, Watches(r) PROVE HandInv'
  BY <1>3, Idling DEF Watches, ConsolePolls, AgentPolls, AgentDisconnects
<1>4. ASSUME NEW n \in Agents, Edit(n) PROVE HandInv'
  BY <1>4, Editing
<1>5. CASE UNCHANGED vars
  BY <1>5, Idling DEF vars
<1> QED BY <1>1, <1>2, <1>3, <1>4, <1>5 DEF Next

RunShaped(rec) ==
  rec = [at |-> rec.at, status |-> rec.status, mode |-> rec.mode, lane |-> rec.lane, as |-> rec.as]

(***************************************************************************)
(* What a step does to a request, to its run and to the quota: each place  *)
(* of the handler has its own effect.                                      *)
(***************************************************************************)
Handled == {"read", "lookup", "admit", "create", "write"}

(* It is answered: served, refused, or broken off. *)
Ended(r) ==
  /\ request[r].pc \in Handled /\ request'[r].pc = "done"
  /\ request'[r].reply \in {200, 402, 403, 404, 429, 500}
  /\ request'[r].reply = 200 => request[r].pc = "read"
  /\ request'[r].kind = "loop" /\ request'[r].seen = NoSpec
  /\ request'[r].slot = request[r].slot
  /\ request[r].slot => request'[r].reply = 500
  /\ UNCHANGED <<used, run, watch>>

(* It has seen its agent. *)
LookedUp(r) ==
  /\ request[r].pc = "lookup" /\ request'[r].pc \in {"admit", "write"}
  /\ request'[r].seen = registry[request[r].agent]
  /\ request'[r].reply = request[r].reply /\ request'[r].kind = request[r].kind
  /\ request'[r].slot = request[r].slot
  /\ UNCHANGED <<used, run, watch>>

(* It is admitted, on a slot of the quota or without. *)
Admitted(r) ==
  /\ request[r].pc = "admit" /\ request'[r].pc = "create"
  /\ request'[r].seen = request[r].seen
  /\ request'[r].reply = request[r].reply /\ request'[r].kind = request[r].kind
  /\ request[r].slot = FALSE
  /\ \/ request'[r].slot = FALSE /\ UNCHANGED used
     \/ /\ request'[r].slot /\ Fits(request[r].who)
        /\ used' = [used EXCEPT ![request[r].who] = @ + 1]
  /\ UNCHANGED <<run, watch>>

(* Its run is created, and dispatched unless the answer is lost. *)
Created(r) ==
  /\ request[r].pc = "create" /\ request'[r].pc = "done"
  /\ request'[r].kind = "loop" /\ request'[r].seen = NoSpec
  /\ request'[r].slot = request[r].slot
  /\ \E born :
       /\ run' = [run EXCEPT ![r] = born]
       /\ RunShaped(born) /\ born.status = "queued" /\ born.as = "none"
       /\ born.lane = "quota" <=> request[r].seen # NoSpec /\ request[r].seen.kind = "claude-code"
       /\ \/ /\ born.at = "mint" /\ request'[r].reply = 202
             /\ watch' = [watch EXCEPT ![r].at = "polling"]
          \/ /\ born.at = "orphan" /\ request'[r].reply = 500
             /\ UNCHANGED watch
  /\ UNCHANGED used

(* Its agent is written, and whoever has looked it up is out of date. *)
Written(r) ==
  LET n == request[r].agent
  IN  /\ request[r].pc = "write" /\ request'[r].pc = "done" /\ n \in Agents
      /\ request'[r].reply \in {200, 201}
      /\ request'[r].kind = request[r].kind /\ request'[r].slot = request[r].slot
      /\ \A q \in Requests \ {r} : request'[q] = Stale(n)[q]
      /\ \E spec \in {NoSpec, [kind |-> request[r].kind, tenant |-> request[r].who]} :
           registry' = [registry EXCEPT ![n] = spec]
      /\ UNCHANGED <<deployment, used, run, watch>>

(* A handler's step has one of these effects. *)
LEMMA Answers ==
  ASSUME HandInv, NEW r \in Requests, NEW code, Reply(r, code)
  PROVE  /\ \A q \in Requests \ {r} : request'[q] = request[q]
         /\ Kept(request'[r], request[r]) /\ request'[r].moved = request[r].moved
         /\ request'[r].pc = "done" /\ request'[r].reply = code
         /\ request'[r].kind = "loop" /\ request'[r].seen = NoSpec
         /\ request'[r].slot = request[r].slot
<1>1. Placed(request[r]) /\ DOMAIN request = Requests
  BY DEF HandInv
<1> DEFINE new == Answered(request[r], code)
<1>2. request' = [request EXCEPT ![r] = new]
  BY DEF Reply, Becomes
<1>3. /\ Kept(new, request[r]) /\ new.moved = request[r].moved /\ new.pc = "done" /\ new.reply = code
      /\ new.kind = "loop" /\ new.seen = NoSpec /\ new.slot = request[r].slot
  BY <1>1, Answering
<1> HIDE DEF new
<1>4. request'[r] = new /\ \A q \in Requests \ {r} : request'[q] = request[q]
  BY <1>1, <1>2
<1> QED BY <1>3, <1>4

Born(mode, lane, place) ==
  [[NoRun EXCEPT !.status = "queued", !.mode = mode, !.lane = lane] EXCEPT !.at = place]

(* A run as it is created. *)
LEMMA Birth ==
  ASSUME NEW mode, NEW lane, NEW place
  PROVE  LET new == Born(mode, lane, place)
         IN  /\ RunShaped(new) /\ new.at = place /\ new.status = "queued" /\ new.as = "none"
             /\ new.lane = lane /\ new.mode = mode
<1> DEFINE queued == "queued"
           b1 == [NoRun EXCEPT !.status = queued]
           b2 == [b1 EXCEPT !.mode = mode]
           b3 == [b2 EXCEPT !.lane = lane]
           b4 == [b3 EXCEPT !.at = place]
<1>0. RunShaped(NoRun) /\ NoRun.as = "none"
  BY DEF NoRun, RunShaped
<1> HIDE DEF queued
<1>1. RunShaped(b1) /\ b1.as = "none" /\ b1.status = queued
  BY <1>0 DEF RunShaped
<1> HIDE DEF b1
<1>2. RunShaped(b2) /\ b2.as = "none" /\ b2.status = queued /\ b2.mode = mode
  BY <1>1 DEF RunShaped
<1> HIDE DEF b2
<1>3. RunShaped(b3) /\ b3.as = "none" /\ b3.status = queued /\ b3.mode = mode /\ b3.lane = lane
  BY <1>2 DEF RunShaped
<1> HIDE DEF b3
<1>4. /\ RunShaped(b4) /\ b4.as = "none" /\ b4.status = queued /\ b4.mode = mode /\ b4.lane = lane
      /\ b4.at = place
  BY <1>3 DEF RunShaped
<1>5. b4 = Born(mode, lane, place)
  BY DEF b3, b2, b1, queued, Born
<1> HIDE DEF b4
<1> QED BY <1>4, <1>5 DEF queued

LEMMA HandlerEffect ==
  ASSUME HandInv, NEW r \in Requests, Read(r) \/ Lookup(r) \/ Admit(r) \/ Create(r) \/ Breaks(r)
  PROVE  /\ \A q \in Requests \ {r} : request'[q] = request[q]
         /\ Kept(request'[r], request[r]) /\ request'[r].moved = request[r].moved
         /\ UNCHANGED <<deployment, registry>>
         /\ Ended(r) \/ LookedUp(r) \/ Admitted(r) \/ Created(r)
<1> DEFINE rec == request[r]
           Goal == /\ \A q \in Requests \ {r} : request'[q] = request[q]
                   /\ Kept(request'[r], rec) /\ request'[r].moved = rec.moved
                   /\ UNCHANGED <<deployment, registry>>
                   /\ Ended(r) \/ LookedUp(r) \/ Admitted(r) \/ Created(r)
<1>1. Placed(rec) /\ DOMAIN request = Requests
  BY DEF HandInv
<1>2. ASSUME NEW new, Becomes(r, new)
      PROVE  request'[r] = new /\ \A q \in Requests \ {r} : request'[q] = request[q]
  BY <1>1, <1>2 DEF Becomes
<1>3. ASSUME NEW code \in {200, 402, 403, 404, 429, 500}, Reply(r, code), rec.pc \in Handled,
             code = 200 => rec.pc = "read", rec.slot => code = 500,
             UNCHANGED <<deployment, registry, used, run, watch>>
      PROVE  Goal
  BY <1>3, Answers DEF Ended
<1>4. rec.pc \notin {"create", "done"} => rec.slot = FALSE
  BY <1>1 DEF Placed
<1>5. CASE Read(r)
  BY <1>3, <1>4, <1>5 DEF Read, At, Handled
<1>6. CASE Breaks(r)
  BY <1>3, <1>6 DEF Breaks, Handled
<1>7. CASE Create(r)
  <2> DEFINE quota == rec.seen # NoSpec /\ rec.seen.kind = "claude-code"
             lane  == IF quota THEN "quota" ELSE "dollar"
             fresh == [NoRun EXCEPT !.status = "queued", !.mode = rec.mode, !.lane = lane]
  <2>1. /\ rec.pc = "create" /\ UNCHANGED <<deployment, registry, used>>
        /\ \/ /\ run' = [run EXCEPT ![r] = [fresh EXCEPT !.at = "mint"]]
              /\ watch' = [watch EXCEPT ![r].at = "polling"]
              /\ Reply(r, 202)
           \/ /\ run' = [run EXCEPT ![r] = [fresh EXCEPT !.at = "orphan"]]
              /\ Reply(r, 500)
              /\ UNCHANGED watch
    BY <1>7 DEF Create, At
  <2>2. lane = "quota" <=> quota
    OBVIOUS
  <2> HIDE DEF lane
  <2> HIDE DEF quota
  <2>4. ASSUME NEW place, NEW code, Reply(r, code), NEW new, new = Born(rec.mode, lane, place),
               run' = [run EXCEPT ![r] = new],
               \/ /\ place = "mint" /\ code = 202
                  /\ watch' = [watch EXCEPT ![r].at = "polling"]
               \/ place = "orphan" /\ code = 500 /\ UNCHANGED watch
        PROVE  Goal
    <3>1. /\ request'[r].pc = "done" /\ request'[r].kind = "loop" /\ request'[r].seen = NoSpec
          /\ request'[r].slot = rec.slot /\ request'[r].reply = code
      BY <2>4, Answers
    <3>2. /\ RunShaped(new) /\ new.at = place /\ new.status = "queued" /\ new.as = "none"
          /\ new.lane = "quota" <=> rec.seen # NoSpec /\ rec.seen.kind = "claude-code"
      BY <2>2, <2>4, Birth DEF quota
    <3>3. Created(r)
      <4>1. \/ /\ new.at = "mint" /\ request'[r].reply = 202
               /\ watch' = [watch EXCEPT ![r].at = "polling"]
            \/ /\ new.at = "orphan" /\ request'[r].reply = 500
               /\ UNCHANGED watch
        BY <2>4, <3>1, <3>2
      <4>2. \E born :
              /\ run' = [run EXCEPT ![r] = born]
              /\ RunShaped(born) /\ born.status = "queued" /\ born.as = "none"
              /\ born.lane = "quota" <=> request[r].seen # NoSpec /\ request[r].seen.kind = "claude-code"
              /\ \/ /\ born.at = "mint" /\ request'[r].reply = 202
                    /\ watch' = [watch EXCEPT ![r].at = "polling"]
                 \/ /\ born.at = "orphan" /\ request'[r].reply = 500
                    /\ UNCHANGED watch
        <5>1. run' = [run EXCEPT ![r] = new]
          BY <2>4
        <5> WITNESS new
        <5> QED BY <3>2, <4>1, <5>1
      <4> QED BY <2>1, <3>1, <4>2 DEF Created
    <3> QED BY <2>1, <2>4, <3>3, Answers
  <2> QED BY <2>1, <2>4 DEF Born
<1>8. CASE Admit(r)
  <2>1. rec.pc = "admit" /\ rec.slot = FALSE /\ UNCHANGED <<deployment, registry, run, watch>>
    BY <1>4, <1>8 DEF Admit, At
  <2>2. \/ \E code \in {402, 429} : Reply(r, code) /\ UNCHANGED used
        \/ Proceed(r, "create") /\ UNCHANGED used
        \/ /\ Becomes(r, [rec EXCEPT !.pc = "create", !.slot = TRUE]) /\ Fits(rec.who)
           /\ used' = [used EXCEPT ![rec.who] = @ + 1]
    BY <1>8 DEF Admit, ReserveRun, CheckBudget
  <2>3. CASE \E code \in {402, 429} : Reply(r, code) /\ UNCHANGED used
    BY <1>3, <2>1, <2>3 DEF Handled
  <2>4. CASE Proceed(r, "create") /\ UNCHANGED used
    <3> DEFINE new == [rec EXCEPT !.pc = "create"]
    <3>1. /\ Kept(new, rec) /\ new.pc = "create" /\ new.reply = rec.reply /\ new.kind = rec.kind
          /\ new.seen = rec.seen /\ new.slot = rec.slot /\ new.moved = rec.moved
      BY <1>1, <2>1, Proceeding
    <3>2. Becomes(r, new)
      BY <2>4 DEF Proceed
    <3> HIDE DEF new
    <3> QED BY <1>2, <2>1, <2>4, <3>1, <3>2 DEF Admitted
  <2>5. CASE /\ Becomes(r, [rec EXCEPT !.pc = "create", !.slot = TRUE]) /\ Fits(rec.who)
             /\ used' = [used EXCEPT ![rec.who] = @ + 1]
    <3> DEFINE new == [rec EXCEPT !.pc = "create", !.slot = TRUE]
    <3>1. /\ Kept(new, rec) /\ new.pc = "create" /\ new.reply = rec.reply /\ new.kind = rec.kind
          /\ new.seen = rec.seen /\ new.slot /\ new.moved = rec.moved
      BY <1>1, Slotting
    <3>2. Becomes(r, new)
      BY <2>5
    <3> HIDE DEF new
    <3> QED BY <1>2, <2>1, <2>5, <3>1, <3>2 DEF Admitted
  <2> QED BY <2>2, <2>3, <2>4, <2>5
<1>9. CASE Lookup(r)
  <2> DEFINE spec  == registry[rec.agent]
             place == IF rec.op = "run" THEN "admit" ELSE "write"
             new   == [rec EXCEPT !.seen = spec, !.pc = place]
  <2>1. /\ rec.pc = "lookup" /\ place \in {"admit", "write"}
        /\ UNCHANGED <<deployment, registry, used, run, watch>>
    BY <1>9 DEF Lookup, At
  <2>2. Reply(r, 404) \/ Reply(r, 403) \/ Becomes(r, new)
    BY <1>9 DEF Lookup
  <2>3. new = Seen(rec, spec, place)
    BY DEF Seen
  <2> HIDE DEF place, new
  <2>4. /\ Kept(new, rec) /\ new.seen = spec /\ new.pc = place /\ new.reply = rec.reply
        /\ new.kind = rec.kind /\ new.slot = rec.slot /\ new.moved = rec.moved
    BY <1>1, <2>1, <2>3, Seeing
  <2>5. CASE Becomes(r, new)
    BY <1>2, <2>1, <2>4, <2>5 DEF LookedUp
  <2>6. CASE Reply(r, 404) \/ Reply(r, 403)
    BY <1>3, <1>4, <2>1, <2>6 DEF Handled
  <2> QED BY <2>2, <2>5, <2>6
<1> QED BY <1>5, <1>6, <1>7, <1>8, <1>9

LEMMA WriteEffect ==
  ASSUME HandInv, NEW r \in Requests, Write(r)
  PROVE  Written(r) /\ Kept(request'[r], request[r]) /\ request'[r].moved = request[r].moved
<1> DEFINE rec  == request[r]
           n    == rec.agent
           place == "done"
           code == IF rec.op = "register" /\ rec.seen = NoSpec THEN 201 ELSE 200
           a1   == [rec EXCEPT !.pc = place]
           a2   == [a1 EXCEPT !.reply = code]
           Same(x) == /\ Shaped(x) /\ Kept(x, rec) /\ x.pc = "done" /\ x.kind = rec.kind
                      /\ x.slot = rec.slot /\ x.moved = rec.moved
<1>1. /\ rec.pc = "write" /\ UNCHANGED <<deployment, used, run, watch>>
      /\ request' = [Stale(n) EXCEPT ![r] = a2]
      /\ registry' = [registry EXCEPT ![n] =
           IF rec.op = "delete" THEN NoSpec ELSE [kind |-> rec.kind, tenant |-> rec.who]]
  BY DEF Write, At
<1>2. Placed(rec) /\ n \in Agents
  BY <1>1 DEF HandInv, Placed
<1>3. Same(a1)
  BY <1>2 DEF Placed, Shaped, Kept
<1> HIDE DEF a1
<1>4. Same(a2) /\ a2.reply \in {200, 201}
  BY <1>3 DEF Shaped, Kept
<1> HIDE DEF a2
<1>5. request'[r] = a2 /\ \A q \in Requests \ {r} : request'[q] = Stale(n)[q]
  BY <1>1 DEF Stale
<1>6. \E spec \in {NoSpec, [kind |-> rec.kind, tenant |-> rec.who]} :
        registry' = [registry EXCEPT ![n] = spec]
  BY <1>1
<1> QED BY <1>1, <1>2, <1>4, <1>5, <1>6 DEF Written

(* Only a read and a write are answered with 200 or 201. *)
LEMMA Replying ==
  ASSUME HandInv, NEW r \in Requests, Lookup(r) \/ Admit(r) \/ Create(r) \/ Breaks(r),
         request[r].reply = 0
  PROVE  request'[r].reply \notin {200, 201}
<1> DEFINE rec == request[r]
<1>1. Placed(rec) /\ rec.reply = 0 /\ DOMAIN request = Requests
  BY DEF HandInv
<1>2. ASSUME NEW new, Becomes(r, new) PROVE request'[r] = new
  BY <1>1, <1>2 DEF Becomes
<1>3. ASSUME NEW code, code \notin {200, 201}, Reply(r, code)
      PROVE  request'[r].reply \notin {200, 201}
  BY <1>1, <1>2, <1>3, Answering DEF Reply
<1>4. CASE Create(r) \/ Breaks(r)
  BY <1>3, <1>4 DEF Create, Breaks
<1>5. CASE Admit(r)
  <2>1. rec.slot = FALSE
    BY <1>1, <1>5 DEF Admit, At, Placed
  <2>2. \/ Reply(r, 429) \/ Reply(r, 402)
        \/ Proceed(r, "create")
        \/ Becomes(r, [rec EXCEPT !.pc = "create", !.slot = TRUE])
    BY <1>5 DEF Admit, ReserveRun, CheckBudget
  <2>3. CASE Reply(r, 429) \/ Reply(r, 402)
    BY <1>3, <2>3
  <2>4. CASE Proceed(r, "create")
    <3> DEFINE new == [rec EXCEPT !.pc = "create"]
    <3>1. new.reply = 0
      BY <1>1, <2>1, Proceeding
    <3>2. Becomes(r, new)
      BY <2>4 DEF Proceed
    <3> HIDE DEF new
    <3> QED BY <1>2, <3>1, <3>2
  <2>5. CASE Becomes(r, [rec EXCEPT !.pc = "create", !.slot = TRUE])
    <3> DEFINE new == [rec EXCEPT !.pc = "create", !.slot = TRUE]
    <3>1. new.reply = 0
      BY <1>1, Slotting
    <3>2. Becomes(r, new)
      BY <2>5
    <3> HIDE DEF new
    <3> QED BY <1>2, <3>1, <3>2
  <2> QED BY <2>2, <2>3, <2>4, <2>5
<1>6. CASE Lookup(r)
  <2> DEFINE spec  == registry[rec.agent]
             place == IF rec.op = "run" THEN "admit" ELSE "write"
             new   == [rec EXCEPT !.seen = spec, !.pc = place]
  <2>1. rec.pc = "lookup" /\ place \in {"admit", "write"}
    BY <1>6 DEF Lookup, At
  <2>2. Reply(r, 404) \/ Reply(r, 403) \/ Becomes(r, new)
    BY <1>6 DEF Lookup
  <2>3. new = Seen(rec, spec, place)
    BY DEF Seen
  <2> HIDE DEF spec, place, new
  <2>4. new.reply = 0
    BY <1>1, <2>1, <2>3, Seeing
  <2> QED BY <1>2, <1>3, <2>2, <2>4
<1> QED BY <1>4, <1>5, <1>6

(* Who takes an agent from its owner wrote it in that step, and had been      *)
(* told otherwise before somebody else wrote it.                             *)
LEMMA TakingStep ==
  ASSUME HandInv, [Next]_vars, NEW n \in Agents, NEW r \in Requests,
         request[r].agent = n, request[r].reply = 0, request'[r].reply \in {200, 201},
         Foreign(registry[n], request[r].who)
  PROVE  request[r].moved
<1>1. request'[r] # request[r] /\ n # NoAgent /\ DOMAIN request = Requests
  BY FrontDoorAssumption DEF HandInv
<1>2. ASSUME NEW q \in Requests, Handles(q) PROVE q = r /\ Write(r)
  <2>1. CASE Write(q)
    <3>1. q # r => request'[r] = Stale(request[q].agent)[r]
      BY <2>1 DEF Write, Stale
    <3>2. Stale(request[q].agent)[r].reply = 0
      BY Staling
    <3> QED BY <2>1, <3>1, <3>2
  <2>2. CASE ~Write(q)
    <3>1. \E new : Becomes(q, new)
      <4>1. CASE Arrives(q)
        BY <4>1, Arriving
      <4>2. CASE Lookup(q)
        <5> DEFINE seen == [request[q] EXCEPT !.seen = registry[request[q].agent],
                                              !.pc = IF request[q].op = "run" THEN "admit" ELSE "write"]
        <5>1. Reply(q, 404) \/ Reply(q, 403) \/ Becomes(q, seen)
          BY <4>2 DEF Lookup
        <5> HIDE DEF seen
        <5> QED BY <5>1, Zenon DEF Reply
      <4>3. CASE Admit(q)
        BY <4>3, Zenon DEF Admit, ReserveRun, CheckBudget, Reply, Proceed
      <4>4. CASE Read(q) \/ Create(q) \/ Breaks(q)
        BY <4>4, Zenon DEF Read, Create, Breaks, Reply
      <4> QED BY <1>2, <2>2, <4>1, <4>2, <4>3, <4>4 DEF Handles
    <3>2. q = r
      BY <1>1, <3>1 DEF Becomes
    <3>3. request[r].pc \notin {"idle", "read"}
      BY <1>1 DEF HandInv, Placed
    <3>4. ~Arrives(r)
      BY <3>3 DEF Arrives, At
    <3>5. ~Read(r)
      BY <3>3 DEF Read, At
    <3>6. Lookup(r) \/ Admit(r) \/ Create(r) \/ Breaks(r)
      BY <1>2, <2>2, <3>2, <3>4, <3>5 DEF Handles
    <3> QED BY <3>6, Replying
  <2> QED BY <2>1, <2>2
<1>3. ASSUME NEW q \in Requests PROVE ~Executes(q) /\ ~Watches(q)
  BY <1>1, Executing DEF Watches, ConsolePolls, AgentPolls, AgentDisconnects
<1>4. ASSUME NEW m \in Agents PROVE ~Edit(m)
  BY Staling DEF Edit
<1>5. Write(r)
  BY <1>1, <1>2, <1>3, <1>4 DEF Next, vars
<1>6. request[r].pc = "write"
  BY <1>5 DEF Write, At
<1> QED BY <1>6 DEF HandInv, Current

(* An agent changes hands through the front door only unawares (app.ts, the   *)
(* register and delete routes: the owner is looked up in one step and the    *)
(* agent written in a later one).                                            *)
THEOREM TakenUnawaresHolds == Spec => TakenUnawares
<1> DEFINE Unawares ==
      \A n \in Agents, r \in Requests :
        /\ request[r].agent = n /\ request[r].reply = 0 /\ request'[r].reply \in {200, 201}
        /\ registry[n] # NoSpec /\ registry[n].tenant \notin {NoTenant, request[r].who}
        => request[r].moved
<1>1. HandInv /\ [Next]_vars => [Unawares]_vars
  BY TakingStep DEF Foreign
<1>2. Init => HandInv
  BY HandStart
<1>3. HandInv /\ [Next]_vars => HandInv'
  BY HandStep
<1> QED BY <1>1, <1>2, <1>3, PTL DEF Spec, TakenUnawares

(***************************************************************************)
(* The credential decides.                                                 *)
(***************************************************************************)
Served(r) ==
  \/ request[r].pc \in Handled
  \/ request[r].reply \in {200, 201, 202}
  \/ run[r].at # "none"

CredentialDecides(r) == (Served(r) => Vouched(request[r])) /\ Earned(request[r])

GovernInv == \A r \in Requests : CredentialDecides(r)

LEMMA GovernStart == Init => GovernInv
<1> SUFFICES ASSUME Init, NEW r \in Requests PROVE CredentialDecides(r)
  BY DEF GovernInv
<1>1. request[r].pc = "idle" /\ request[r].reply = 0 /\ run[r].at = "none"
  BY DEF Init, Idle, NoRun
<1> QED BY <1>1 DEF CredentialDecides, Served, Earned, Handled

(* A request that only moves on stays its caller's. *)
LEMMA StaysTheirs ==
  ASSUME GovernInv, NEW r \in Requests, UNCHANGED deployment,
         Kept(request'[r], request[r]),
         request'[r].reply \in {request[r].reply, 200, 201, 202, 402, 403, 404, 429, 500},
         Served(r)' => Served(r)
  PROVE  CredentialDecides(r)'
<1>1. /\ CredentialDecides(r)
      /\ request'[r].op = request[r].op /\ request'[r].ctx = request[r].ctx
      /\ request'[r].who = request[r].who /\ request'[r].deaf = request[r].deaf
  BY DEF GovernInv, Kept
<1>2. Served(r)' => Vouched(request[r])'
  BY <1>1 DEF CredentialDecides, Vouched
<1>3. Earned(request[r])'
  BY <1>1 DEF CredentialDecides, Earned
<1> QED BY <1>2, <1>3 DEF CredentialDecides

(* And so does one that nothing happens to. *)
LEMMA StaysUntouched ==
  ASSUME HandInv, GovernInv, NEW r \in Requests, UNCHANGED deployment,
         request'[r] = request[r] \/ \E n : request'[r] = Stale(n)[r],
         run'[r] = run[r] \/ run[r].at # "none"
  PROVE  CredentialDecides(r)'
<1>1. /\ Kept(request'[r], request[r]) /\ request'[r].pc = request[r].pc
      /\ request'[r].reply = request[r].reply
  BY Staling DEF Kept
<1> QED BY <1>1, StaysTheirs DEF Served

LEMMA GovernStep == HandInv /\ GovernInv /\ [Next]_vars => GovernInv'
<1> SUFFICES ASSUME HandInv, GovernInv, [Next]_vars, NEW q \in Requests
             PROVE  CredentialDecides(q)'
  BY DEF GovernInv
<1>1. ASSUME NEW r \in Requests, Arrives(r) PROVE CredentialDecides(q)'
  <2>1. UNCHANGED <<deployment, run>> /\ request[r].pc = "idle"
    BY <1>1 DEF Arrives, At
  <2>2. PICK new : Becomes(r, new) /\ Arrived(new)
    BY <1>1, Arriving
  <2>3. request'[r] = new /\ \A p \in Requests \ {r} : request'[p] = request[p]
    BY <2>2 DEF Becomes, HandInv
  <2>4. CASE q = r
    <3>1. run'[q] = NoRun
      BY <2>1, <2>4 DEF HandInv
    <3>2. Served(q)' => new.pc # "done"
      BY <2>2, <2>3, <2>4, <3>1 DEF Served, Arrived, NoRun, Handled
    <3>3. Vouched(new)' <=> Vouched(new)
      BY <2>1 DEF Vouched
    <3>4. Earned(new)' <=> Earned(new)
      BY <2>1 DEF Earned
    <3>5. (new.pc # "done" => Vouched(new)) /\ Earned(new)
      BY <2>2 DEF Arrived
    <3> QED BY <2>1, <2>3, <2>4, <3>2, <3>5 DEF CredentialDecides, Vouched, Earned
  <2>5. CASE q # r
    BY <2>1, <2>3, <2>5, StaysUntouched
  <2> QED BY <2>4, <2>5
<1>2. ASSUME NEW r \in Requests, Read(r) \/ Lookup(r) \/ Admit(r) \/ Create(r) \/ Breaks(r)
      PROVE  CredentialDecides(q)'
  <2>1. /\ \A p \in Requests \ {r} : request'[p] = request[p]
        /\ Kept(request'[r], request[r])
        /\ UNCHANGED <<deployment, registry>>
        /\ Ended(r) \/ LookedUp(r) \/ Admitted(r) \/ Created(r)
    BY <1>2, HandlerEffect
  <2>2. CASE q = r
    <3>1. request[r].pc \in Handled
      BY <2>1 DEF Ended, LookedUp, Admitted, Created, Handled
    <3>2. request'[r].reply \in {request[r].reply, 200, 201, 202, 402, 403, 404, 429, 500}
      BY <2>1 DEF Ended, LookedUp, Admitted, Created
    <3> QED BY <2>1, <2>2, <3>1, <3>2, StaysTheirs DEF Served
  <2>3. CASE q # r
    <3>1. run'[q] = run[q]
      BY <2>1, <2>3 DEF Ended, LookedUp, Admitted, Created, HandInv
    <3> QED BY <2>1, <2>3, <3>1, StaysUntouched
  <2> QED BY <2>2, <2>3
<1>3. ASSUME NEW r \in Requests, Write(r) PROVE CredentialDecides(q)'
  <2>1. Written(r) /\ Kept(request'[r], request[r])
    BY <1>3, WriteEffect
  <2>2. CASE q = r
    BY <2>1, <2>2, StaysTheirs DEF Written, Served, Handled
  <2>3. CASE q # r
    BY <2>1, <2>3, StaysUntouched DEF Written
  <2> QED BY <2>2, <2>3
<1>4. ASSUME NEW r \in Requests, Executes(r) PROVE CredentialDecides(q)'
  <2>1. UNCHANGED <<deployment, request>> /\ (run'[q] = run[q] \/ run[q].at # "none")
    BY <1>4, Executing
  <2> QED BY <2>1, StaysUntouched
<1>5. ASSUME NEW r \in Requests, Watches(r) PROVE CredentialDecides(q)'
  BY <1>5, StaysUntouched DEF Watches, ConsolePolls, AgentPolls, AgentDisconnects
<1>6. ASSUME NEW n \in Agents, Edit(n) PROVE CredentialDecides(q)'
  BY <1>6, StaysUntouched DEF Edit
<1>7. CASE UNCHANGED vars
  BY <1>7, StaysUntouched DEF vars
<1> QED BY <1>1, <1>2, <1>3, <1>4, <1>5, <1>6, <1>7 DEF Next, Handles

(* What a request brings about is its tenant's, by the word of somebody       *)
(* answerable and with the policy's consent, and a governed request is        *)
(* rejected only for its credential (app.ts, router.ts, the authenticators    *)
(* and OpaAuthorizer).                                                        *)
THEOREM GovernedHolds == Spec => []Governed
<1>1. Init => HandInv /\ GovernInv
  BY HandStart, GovernStart
<1>2. HandInv /\ GovernInv /\ [Next]_vars => (HandInv /\ GovernInv)'
  BY HandStep, GovernStep
<1>3. GovernInv => Governed
  <2> SUFFICES ASSUME GovernInv PROVE Governed
    OBVIOUS
  <2>1. ServedIsVouched
    BY DEF GovernInv, CredentialDecides, Served, Vouched, Handled, ServedIsVouched
  <2>2. RejectionIsEarned
    BY DEF GovernInv, CredentialDecides, Earned, RejectionIsEarned
  <2> QED BY <2>1, <2>2 DEF Governed
<1> QED BY <1>1, <1>2, <1>3, PTL DEF Spec

(***************************************************************************)
(* A run and its lane.                                                     *)
(***************************************************************************)
RunSound(rec) ==
  /\ RunShaped(rec)
  /\ rec.at = "ended" <=> rec.status \in Terminal
  /\ rec.status = "queued" =>
       rec.at \in {"mint", "route", "fallback", "launched", "orphan", "stranded"}
  /\ rec.at \in {"none", "orphan", "mint", "route", "fallback"} => rec.as = "none"

RunInv == \A r \in Requests : RunSound(run[r])

LEMMA NoRunIsSound == RunSound(NoRun)
BY DEF RunSound, RunShaped, NoRun, Terminal

Going(rec, place)           == [rec EXCEPT !.at = place]
Telling(rec, place, status) == [rec EXCEPT !.at = place, !.status = status]
Launching(rec, place, kind) == [rec EXCEPT !.at = place, !.as = kind]

(* A run moves to another place, and may be told a status or a kind. *)
LEMMA Moving ==
  ASSUME NEW rec, RunShaped(rec), NEW place
  PROVE  /\ Going(rec, place) =
              [at |-> place, status |-> rec.status, mode |-> rec.mode, lane |-> rec.lane, as |-> rec.as]
         /\ \A status : Telling(rec, place, status) =
              [at |-> place, status |-> status, mode |-> rec.mode, lane |-> rec.lane, as |-> rec.as]
         /\ \A kind : Launching(rec, place, kind) =
              [at |-> place, status |-> rec.status, mode |-> rec.mode, lane |-> rec.lane, as |-> kind]
<1> DEFINE went == [at |-> place, status |-> rec.status, mode |-> rec.mode, lane |-> rec.lane, as |-> rec.as]
<1>1. Going(rec, place) = went
  BY DEF RunShaped, Going
<1>2. ASSUME NEW status
      PROVE  Telling(rec, place, status) =
               [at |-> place, status |-> status, mode |-> rec.mode, lane |-> rec.lane, as |-> rec.as]
  <2>1. Telling(rec, place, status) = [Going(rec, place) EXCEPT !.status = status]
    BY DEF Telling, Going
  <2> QED BY <1>1, <2>1
<1>3. ASSUME NEW kind
      PROVE  Launching(rec, place, kind) =
               [at |-> place, status |-> rec.status, mode |-> rec.mode, lane |-> rec.lane, as |-> kind]
  <2>1. Launching(rec, place, kind) = [Going(rec, place) EXCEPT !.as = kind]
    BY DEF Launching, Going
  <2> QED BY <1>1, <2>1
<1> QED BY <1>1, <1>2, <1>3

(* What the executor's side does to a run: it stays what it was admitted as, *)
(* and is launched as its agent's kind of that moment, or on the loop where   *)
(* the substrate knows nothing else.                                         *)
RunMoved(r) ==
  LET old == run[r]
      new == run'[r]
  IN  /\ RunSound(new) /\ new.lane = old.lane /\ new.mode = old.mode
      /\ old.at \notin {"none", "orphan", "ended"} /\ new.at \notin {"none", "orphan"}
      /\ \/ new.as = old.as
         \/ /\ old.as = "none"
            /\ \/ new.as = "loop" /\ (KindNow(r) # "claude-code" \/ old.mode \in {"inprocess", "agentengine"})
               \/ new.as = "claude-code" /\ KindNow(r) = "claude-code"

LEMMA ExecutorEffect ==
  ASSUME HandInv, RunInv, NEW r \in Requests, Executes(r)
  PROVE  /\ RunMoved(r) /\ \A q \in Requests \ {r} : run'[q] = run[q]
         /\ UNCHANGED <<deployment, registry, used, request, watch>>
<1> DEFINE old == run[r]
           Goal == /\ RunMoved(r) /\ \A q \in Requests \ {r} : run'[q] = run[q]
                   /\ UNCHANGED <<deployment, registry, used, request, watch>>
<1>1. RunSound(old) /\ RunShaped(old) /\ DOMAIN run = Requests
  BY DEF RunInv, HandInv, RunSound
<1>2. ASSUME NEW new, Moves(r, new), RunSound(new), new.lane = old.lane, new.mode = old.mode,
             old.at \notin {"none", "orphan", "ended"}, new.at \notin {"none", "orphan"},
             \/ new.as = old.as
             \/ /\ old.as = "none"
                /\ \/ /\ new.as = "loop"
                      /\ KindNow(r) # "claude-code" \/ old.mode \in {"inprocess", "agentengine"}
                   \/ new.as = "claude-code" /\ KindNow(r) = "claude-code"
      PROVE  Goal
  <2>1. run'[r] = new /\ \A q \in Requests \ {r} : run'[q] = run[q]
    BY <1>1, <1>2 DEF Moves
  <2>2. UNCHANGED <<deployment, registry, used, request, watch>>
    BY <1>2 DEF Moves
  <2> QED BY <1>2, <2>1, <2>2 DEF RunMoved
<1>13. ASSUME Strand(r), old.at \notin {"none", "orphan", "ended"} PROVE Goal
  <2> DEFINE new == Going(old, "stranded")
  <2>1. new = [at |-> "stranded", status |-> old.status, mode |-> old.mode, lane |-> old.lane,
               as |-> old.as]
    BY <1>1, Moving
  <2>2. old.status \notin Terminal
    BY <1>1, <1>13 DEF RunSound
  <2>3. RunSound(new) /\ new.lane = old.lane /\ new.mode = old.mode /\ new.at = "stranded" /\ new.as = old.as
    <3> HIDE DEF new
    <3> QED BY <2>1, <2>2 DEF RunSound, RunShaped, Terminal
  <2>4. Moves(r, new)
    BY <1>13 DEF Strand, Going
  <2> HIDE DEF new, Goal
  <2> QED BY <1>2, <1>13, <2>3, <2>4
<1>3. ASSUME Fail(r), old.at \notin {"none", "orphan", "ended"} PROVE Goal
  <2> DEFINE new == Telling(old, "ended", "failed")
  <2>1. new = [at |-> "ended", status |-> "failed", mode |-> old.mode, lane |-> old.lane, as |-> old.as]
    BY <1>1, Moving
  <2>2. RunSound(new) /\ new.lane = old.lane /\ new.mode = old.mode /\ new.at = "ended" /\ new.as = old.as
    <3> HIDE DEF new
    <3> QED BY <2>1 DEF RunSound, RunShaped, Terminal
  <2>3. Moves(r, new) \/ Strand(r)
    BY <1>3 DEF Fail, Telling
  <2> HIDE DEF new, Goal
  <2> QED BY <1>2, <1>3, <1>13, <2>2, <2>3
<1>4. ASSUME NEW kind, Launch(r, kind), old.at \in {"route", "fallback"},
             \/ /\ kind = "loop"
                /\ KindNow(r) # "claude-code" \/ old.mode \in {"inprocess", "agentengine"}
             \/ kind = "claude-code" /\ KindNow(r) = "claude-code"
      PROVE  Goal
  <2> DEFINE new == Launching(old, "launched", kind)
  <2>1. new = [at |-> "launched", status |-> old.status, mode |-> old.mode, lane |-> old.lane, as |-> kind]
    BY <1>1, Moving
  <2>2. old.as = "none" /\ old.status \notin Terminal
    BY <1>1, <1>4 DEF RunSound
  <2>3. RunSound(new) /\ new.lane = old.lane /\ new.mode = old.mode /\ new.at = "launched" /\ new.as = kind
    <3> HIDE DEF new
    <3> QED BY <2>1, <2>2 DEF RunSound, RunShaped, Terminal
  <2>4. Moves(r, new)
    BY <1>4 DEF Launch, Launching
  <2> HIDE DEF new, Goal
  <2> QED BY <1>2, <1>4, <2>2, <2>3, <2>4
<1>5. ASSUME NEW place \in {"route", "fallback"}, Moves(r, Going(old, place)),
             old.at \in {"mint", "route"}
      PROVE  Goal
  <2> DEFINE new == Going(old, place)
  <2>1. new = [at |-> place, status |-> old.status, mode |-> old.mode, lane |-> old.lane, as |-> old.as]
    BY <1>1, Moving
  <2>2. old.as = "none" /\ old.status \notin Terminal
    BY <1>1, <1>5 DEF RunSound
  <2>3. RunSound(new) /\ new.lane = old.lane /\ new.mode = old.mode /\ new.at = place /\ new.as = old.as
    <3> HIDE DEF new
    <3> QED BY <2>1, <2>2 DEF RunSound, RunShaped, Terminal
  <2>4. Moves(r, new)
    BY <1>5
  <2> HIDE DEF new, Goal
  <2> QED BY <1>2, <1>5, <2>3, <2>4
<1>6. ASSUME NEW place, NEW status, Moves(r, Telling(old, place, status)),
             \/ old.at = "launched" /\ place = "running" /\ status = "running"
             \/ old.at = "running" /\ place = "ended" /\ status \in Terminal
      PROVE  Goal
  <2> DEFINE new == Telling(old, place, status)
  <2>1. new = [at |-> place, status |-> status, mode |-> old.mode, lane |-> old.lane, as |-> old.as]
    BY <1>1, Moving
  <2>2. RunSound(new) /\ new.lane = old.lane /\ new.mode = old.mode /\ new.at = place /\ new.as = old.as
    <3> HIDE DEF new
    <3> QED BY <1>6, <2>1 DEF RunSound, RunShaped, Terminal
  <2>3. Moves(r, new)
    BY <1>6
  <2> HIDE DEF new, Goal
  <2> QED BY <1>2, <1>6, <2>2, <2>3
<1> HIDE DEF Goal
<1>7. ASSUME Mint(r) PROVE Goal
  BY <1>3, <1>5, <1>7, SMT DEF Mint, Going
<1>8. ASSUME RunTask(r) PROVE Goal
  BY <1>3, <1>4, <1>8 DEF RunTask
<1>9. ASSUME AgentCore(r) PROVE Goal
  <2>1. /\ old.at = "route"
        /\ \/ KindNow(r) # "claude-code" /\ Launch(r, "loop")
           \/ Moves(r, Going(old, "fallback"))
           \/ Fail(r)
    BY <1>9 DEF AgentCore, Going
  <2> QED BY <1>3, <1>4, <1>5, <2>1
<1>10. ASSUME InProcess(r) \/ AgentEngine(r) PROVE Goal
  BY <1>3, <1>4, <1>10 DEF InProcess, AgentEngine
<1>11. ASSUME Starts(r) PROVE Goal
  <2>1. old.at = "launched" /\ Moves(r, Telling(old, "running", "running"))
    BY <1>11 DEF Starts, Telling
  <2> QED BY <1>6, <2>1
<1>12. ASSUME Ends(r) PROVE Goal
  <2>1. old.at = "running" /\ \E status \in Terminal : Moves(r, Telling(old, "ended", status))
    BY <1>12 DEF Ends, Telling
  <2> QED BY <1>6, <2>1
<1>14. ASSUME Abandons(r) PROVE Goal
  BY <1>13, <1>14 DEF Abandons
<1> QED BY <1>7, <1>8, <1>9, <1>10, <1>11, <1>12, <1>14 DEF Executes, Route, Goal

LEMMA RunStep == HandInv /\ RunInv /\ [Next]_vars => RunInv'
<1> SUFFICES ASSUME HandInv, RunInv, [Next]_vars, NEW q \in Requests PROVE RunSound(run'[q])
  BY DEF RunInv
<1>1. ASSUME run'[q] = run[q] PROVE RunSound(run'[q])
  BY <1>1 DEF RunInv
<1>2. ASSUME NEW r \in Requests, Handles(r) PROVE RunSound(run'[q])
  <2>1. CASE Arrives(r) \/ Write(r)
    BY <1>1, <2>1 DEF Arrives, Write
  <2>2. CASE ~(Arrives(r) \/ Write(r))
    <3>1. Ended(r) \/ LookedUp(r) \/ Admitted(r) \/ Created(r)
      BY <1>2, <2>2, HandlerEffect DEF Handles
    <3>2. CASE Created(r)
      <4>1. PICK born : /\ run' = [run EXCEPT ![r] = born] /\ RunShaped(born)
                        /\ born.status = "queued" /\ born.as = "none" /\ born.at \in {"mint", "orphan"}
        <5>1. PICK born :
                   /\ run' = [run EXCEPT ![r] = born]
                   /\ RunShaped(born) /\ born.status = "queued" /\ born.as = "none"
                   /\ born.lane = "quota" <=> request[r].seen # NoSpec /\ request[r].seen.kind = "claude-code"
                   /\ \/ /\ born.at = "mint" /\ request'[r].reply = 202
                         /\ watch' = [watch EXCEPT ![r].at = "polling"]
                      \/ /\ born.at = "orphan" /\ request'[r].reply = 500
                         /\ UNCHANGED watch
          BY ONLY <3>2, Zenon DEF Created
        <5>2. born.at \in {"mint", "orphan"}
          BY ONLY <5>1
        <5> QED BY ONLY <5>1, <5>2, Zenon
      <4>2. RunSound(born)
        BY <4>1 DEF RunSound, Terminal
      <4> QED BY <1>1, <4>1, <4>2 DEF HandInv
    <3>3. CASE Ended(r) \/ LookedUp(r) \/ Admitted(r)
      BY <1>1, <3>3 DEF Ended, LookedUp, Admitted
    <3> QED BY <3>1, <3>2, <3>3
  <2> QED BY <2>1, <2>2
<1>3. ASSUME NEW r \in Requests, Executes(r) PROVE RunSound(run'[q])
  BY <1>1, <1>3, ExecutorEffect DEF RunMoved
<1>4. ASSUME NEW r \in Requests, Watches(r) PROVE RunSound(run'[q])
  BY <1>1, <1>4 DEF Watches, ConsolePolls, AgentPolls, AgentDisconnects
<1>5. ASSUME NEW n \in Agents, Edit(n) PROVE RunSound(run'[q])
  BY <1>1, <1>5 DEF Edit
<1>6. CASE UNCHANGED vars
  BY <1>1, <1>6 DEF vars
<1> QED BY <1>2, <1>3, <1>4, <1>5, <1>6 DEF Next

(* What a request knows of its agent while nobody writes it, and what its run  *)
(* was made of that.                                                          *)
Known(n) == IF n = NoAgent THEN NoSpec ELSE registry[n]

OnItsLane(rec) ==
  /\ rec.as = "claude-code" => rec.lane = "quota"
  /\ rec.lane = "quota" /\ rec.mode \in {"runtask", "agentcore"} => rec.as = "claude-code"

Laned(r) ==
  /\ request[r].pc \in {"idle", "lookup"} => request[r].seen = NoSpec
  /\ request[r].pc = "admit" \/ request[r].pc = "create" =>
       request[r].moved \/ request[r].seen = Known(request[r].agent)
  /\ run[r].at # "none" /\ run[r].as = "none" =>
       request[r].moved \/ (run[r].lane = "quota" <=> KindNow(r) = "claude-code")
  /\ run[r].as # "none" => request[r].moved \/ OnItsLane(run[r])

LaneInv == \A r \in Requests : Laned(r)

LEMMA LaneStart == Init => RunInv /\ LaneInv
<1> SUFFICES ASSUME Init, NEW r \in Requests PROVE RunSound(run[r]) /\ Laned(r)
  BY DEF RunInv, LaneInv
<1>1. run[r] = NoRun /\ request[r] = Idle
  BY DEF Init
<1>2. /\ Idle.pc = "idle" /\ Idle.seen = NoSpec /\ NoRun.at = "none" /\ NoRun.as = "none"
  BY DEF Idle, NoRun
<1> QED BY <1>1, <1>2, NoRunIsSound DEF Laned

(* A request or a run nothing happens to, though the registry may be written. *)
LEMMA LaneUntouched ==
  ASSUME HandInv, RunInv, LaneInv, NEW q \in Requests, run'[q] = run[q],
         \/ UNCHANGED registry /\ request'[q] = request[q]
         \/ \E n \in Agents : \E spec : /\ registry' = [registry EXCEPT ![n] = spec]
                                    /\ request'[q] = Stale(n)[q]
  PROVE  Laned(q)'
<1>1. CASE UNCHANGED registry /\ request'[q] = request[q]
  BY <1>1 DEF LaneInv, Laned, KindNow, Known
<1>2. CASE \E n \in Agents : \E spec : /\ registry' = [registry EXCEPT ![n] = spec]
                                    /\ request'[q] = Stale(n)[q]
  <2>1. PICK n \in Agents :
                            \E spec : /\ registry' = [registry EXCEPT ![n] = spec]
                                  /\ request'[q] = Stale(n)[q]
    BY <1>2
  <2> DEFINE old == request[q]
             new == request'[q]
  <2>2. /\ new.pc = old.pc /\ new.agent = old.agent /\ new.seen = old.seen
        /\ new.moved <=> \/ old.moved
                         \/ old.agent = n /\ old.pc # "idle" /\ run[q].as = "none"
    BY <2>1, Staling
  <2>3. \A m : m # n => registry'[m] = registry[m]
    BY <2>1 DEF HandInv
  <2>4. old.pc # "done" => run[q] = NoRun
    BY DEF HandInv
  <2>5. NoRun.as = "none" /\ NoRun.at = "none"
    BY DEF NoRun
  <2> HIDE DEF old, new
  <2>6. Laned(q)
    BY DEF LaneInv
  <2>7. ASSUME ~new.moved, old.pc # "idle", run[q].as = "none"
        PROVE  ~old.moved /\ old.agent # n
    BY <2>2, <2>7
  <2>8. new.pc \in {"idle", "lookup"} => new.seen = NoSpec
    BY <2>2, <2>6 DEF Laned, old
  <2>9. ASSUME new.pc = "admit" \/ new.pc = "create", ~new.moved
        PROVE  new.seen = IF new.agent = NoAgent THEN NoSpec ELSE registry'[new.agent]
    BY <2>2, <2>3, <2>4, <2>5, <2>6, <2>7, <2>9 DEF Laned, Known, old
  <2>10. ASSUME run[q].at # "none", run[q].as = "none", ~new.moved
         PROVE  run[q].lane = "quota" <=> KindNow(q)' = "claude-code"
    BY <2>2, <2>3, <2>4, <2>5, <2>6, <2>7, <2>10 DEF Laned, KindNow, old, new
  <2>11. ASSUME run[q].as # "none", ~new.moved PROVE OnItsLane(run[q])
    BY <2>2, <2>6, <2>11 DEF Laned, old
  <2> QED BY <2>1, <2>8, <2>9, <2>10, <2>11 DEF Laned, Known, new
<1> QED BY <1>1, <1>2

LEMMA LaneStep == HandInv /\ RunInv /\ LaneInv /\ [Next]_vars => LaneInv'
<1> SUFFICES ASSUME HandInv, RunInv, LaneInv, [Next]_vars, NEW q \in Requests
             PROVE  Laned(q)'
  BY DEF LaneInv
<1>1. ASSUME NEW r \in Requests, Arrives(r) PROVE Laned(q)'
  <2>1. UNCHANGED <<registry, run>> /\ request[r].pc = "idle"
    BY <1>1 DEF Arrives, At
  <2>2. PICK new : Becomes(r, new) /\ Arrived(new)
    BY <1>1, Arriving
  <2>3. request'[r] = new /\ \A p \in Requests \ {r} : request'[p] = request[p]
    BY <2>2 DEF Becomes, HandInv
  <2>4. CASE q = r
    <3>1. run'[q] = NoRun /\ NoRun.at = "none" /\ NoRun.as = "none"
      BY <2>1, <2>4 DEF HandInv, NoRun
    <3> QED BY <2>2, <2>3, <2>4, <3>1 DEF Laned, Arrived, Known
  <2>5. CASE q # r
    BY <2>1, <2>3, <2>5, LaneUntouched
  <2> QED BY <2>4, <2>5
<1>2. ASSUME NEW r \in Requests, Read(r) \/ Lookup(r) \/ Admit(r) \/ Create(r) \/ Breaks(r)
      PROVE  Laned(q)'
  <2>1. /\ \A p \in Requests \ {r} : request'[p] = request[p]
        /\ Kept(request'[r], request[r]) /\ request'[r].moved = request[r].moved
        /\ UNCHANGED <<deployment, registry>>
        /\ Ended(r) \/ LookedUp(r) \/ Admitted(r) \/ Created(r)
    BY <1>2, HandlerEffect
  <2>2. CASE q # r
    <3>1. run'[q] = run[q]
      BY <2>1, <2>2 DEF Ended, LookedUp, Admitted, Created, HandInv
    <3> QED BY <2>1, <2>2, <3>1, LaneUntouched
  <2>3. CASE q = r
    <3>0. /\ Laned(r) /\ Placed(request[r]) /\ (request[r].pc # "done" => run[r] = NoRun)
          /\ NoRun.at = "none" /\ NoRun.as = "none"
      BY DEF LaneInv, HandInv, NoRun
    <3>1. request'[r].agent = request[r].agent
      BY <2>1 DEF Kept
    <3>2. CASE Ended(r)
      BY <2>3, <3>0, <3>2 DEF Ended, Laned, Handled
    <3>3. CASE LookedUp(r)
      <4>1. request[r].agent \in Agents
        BY <3>0, <3>3 DEF LookedUp, Placed
      <4>2. request'[r].seen = registry'[request'[r].agent] /\ request'[r].agent # NoAgent
        BY <2>1, <3>1, <3>3, <4>1, FrontDoorAssumption DEF LookedUp
      <4>3. run'[r] = NoRun
        BY <3>0, <3>3 DEF LookedUp
      <4> QED BY <2>3, <3>0, <3>3, <4>2, <4>3 DEF LookedUp, Laned, Known
    <3>4. CASE Admitted(r)
      BY <2>1, <2>3, <3>0, <3>1, <3>4 DEF Admitted, Laned, Known
    <3>5. CASE Created(r)
      <4>1. PICK born : /\ run' = [run EXCEPT ![r] = born]
                        /\ born.as = "none"
                        /\ born.lane = "quota" <=> request[r].seen # NoSpec /\ request[r].seen.kind = "claude-code"
        BY <3>5 DEF Created
      <4>2. run'[r] = born
        BY <4>1 DEF HandInv
      <4>3. request[r].moved \/ request[r].seen = Known(request[r].agent)
        BY <3>0, <3>5 DEF Created, Laned
      <4>4. request[r].moved \/ (born.lane = "quota" <=> KindNow(r)' = "claude-code")
        BY <2>1, <3>1, <4>1, <4>3 DEF Known, KindNow
      <4> QED BY <2>1, <2>3, <3>5, <4>1, <4>2, <4>4 DEF Created, Laned
    <3> QED BY <2>1, <3>2, <3>3, <3>4, <3>5
  <2> QED BY <2>2, <2>3
<1>3. ASSUME NEW r \in Requests, Write(r) PROVE Laned(q)'
  <2>1. Written(r) /\ Kept(request'[r], request[r]) /\ request'[r].moved = request[r].moved
    BY <1>3, WriteEffect
  <2>2. CASE q = r
    <3>1. run'[q] = NoRun /\ NoRun.at = "none" /\ NoRun.as = "none"
      BY <2>1, <2>2 DEF HandInv, NoRun, Written
    <3> QED BY <2>1, <2>2, <3>1 DEF Written, Laned
  <2>3. CASE q # r
    <3>1. \E n \in Agents : \E spec : registry' = [registry EXCEPT ![n] = spec] /\ request'[q] = Stale(n)[q]
      BY <2>1, <2>3 DEF Written
    <3> QED BY <2>1, <3>1, LaneUntouched DEF Written
  <2> QED BY <2>2, <2>3
<1>4. ASSUME NEW r \in Requests, Executes(r) PROVE Laned(q)'
  <2>1. /\ RunMoved(r) /\ \A p \in Requests \ {r} : run'[p] = run[p]
        /\ UNCHANGED <<deployment, registry, used, request, watch>>
    BY <1>4, ExecutorEffect
  <2>2. CASE q # r
    BY <2>1, <2>2, LaneUntouched
  <2>3. CASE q = r
    <3>1. Laned(r) /\ KindNow(r)' = KindNow(r)
      BY <2>1 DEF LaneInv, KindNow
    <3> QED BY <2>1, <2>3, <3>1 DEF RunMoved, Laned, OnItsLane, Known
  <2> QED BY <2>2, <2>3
<1>5. ASSUME NEW r \in Requests, Watches(r) PROVE Laned(q)'
  BY <1>5, LaneUntouched DEF Watches, ConsolePolls, AgentPolls, AgentDisconnects
<1>6. ASSUME NEW n \in Agents, Edit(n) PROVE Laned(q)'
  <2>1. UNCHANGED run /\ request' = Stale(n) /\ \E spec : registry' = [registry EXCEPT ![n] = spec]
    BY <1>6 DEF Edit
  <2> QED BY <2>1, LaneUntouched
<1>7. CASE UNCHANGED vars
  BY <1>7, LaneUntouched DEF vars
<1> QED BY <1>1, <1>2, <1>3, <1>4, <1>5, <1>6, <1>7 DEF Next, Handles

(* A claude-code task runs on the quota and everything else on the dollar     *)
(* gate, unless the agent was written between the request's look at it and    *)
(* the launch (app.ts picks the admission control by the kind it looked up,    *)
(* the dispatchers pick the substrate by the kind they look up).              *)
THEOREM LaneMatchesHolds == Spec => []LaneMatches
<1> DEFINE Inv == HandInv /\ RunInv /\ LaneInv
<1>1. Init => Inv
  BY HandStart, LaneStart
<1>2. Inv /\ [Next]_vars => Inv'
  BY HandStep, RunStep, LaneStep
<1>3. Inv => LaneMatches
  BY DEF LaneInv, Laned, OnItsLane, LaneMatches
<1> HIDE DEF Inv
<1> QED BY <1>1, <1>2, <1>3, PTL DEF Spec

(***************************************************************************)
(* The places of a request, its run and its watcher agree, and the quota's *)
(* row counts the slots taken.                                             *)
(***************************************************************************)
WatchShaped(rec) == rec = [at |-> rec.at, polls |-> rec.polls]

Ordered(r) ==
  /\ request[r].pc \in {"idle", "done"} \cup Handled
  /\ request[r].pc = "done" <=> request[r].reply # 0
  /\ request[r].kind \in Kinds
  /\ request[r].reply = 202 <=> run[r].at \notin {"none", "orphan"}
  /\ request[r].reply = 202 => watch[r].at # "off"
  /\ watch[r].at \in {"polling", "told", "gave up"} => request[r].reply = 202
  /\ WatchShaped(watch[r])

(* A slot is a run's, or its request's that is about to create one or broke. *)
Justified(slot, now, pc, reply) == slot => now # "none" \/ pc = "create" \/ reply = 500

SlotPlaced(r) == Justified(request[r].slot, run[r].at, request[r].pc, request[r].reply)

OrderInv ==
  /\ registry \in [Agents -> Specs \cup {NoSpec}]
  /\ DOMAIN watch = Requests
  /\ \A r \in Requests : Ordered(r)

LEMMA OrderStart == Init => OrderInv
<1> SUFFICES ASSUME Init PROVE OrderInv
  OBVIOUS
<1>1. /\ registry \in [Agents -> Specs \cup {NoSpec}] /\ DOMAIN watch = Requests
  BY FrontDoorAssumption DEF Init
<1>2. /\ Idle.pc = "idle" /\ Idle.reply = 0 /\ Idle.kind = "loop" /\ Idle.slot = FALSE
      /\ NoRun.at = "none"
  BY DEF Idle, NoRun
<1>3. ASSUME NEW r \in Requests PROVE Ordered(r)
  <2>1. request[r] = Idle /\ run[r] = NoRun /\ watch[r] = [at |-> "off", polls |-> 0]
    BY DEF Init
  <2> QED BY <1>2, <2>1 DEF Ordered, Kinds, WatchShaped, Handled
<1> QED BY <1>1, <1>3 DEF OrderInv

(* What an arriving request or an answered one is ordered by. *)
LEMMA ArrivedOrder ==
  ASSUME NEW new, Arrived(new)
  PROVE  /\ new.pc \in {"done", "read", "admit", "lookup"}
         /\ new.pc = "done" <=> new.reply # 0
         /\ new.kind \in Kinds /\ new.reply # 202
BY DEF Arrived

LEMMA AnsweredOrder ==
  ASSUME NEW r, request'[r].pc = "done", request'[r].reply # 0, request'[r].kind \in Kinds,
         request'[r].reply = 202 <=> run'[r].at \notin {"none", "orphan"},
         request'[r].reply = 202 => watch'[r].at # "off",
         watch'[r].at \in {"polling", "told", "gave up"} => request'[r].reply = 202,
         WatchShaped(watch'[r])
  PROVE  Ordered(r)'
BY DEF Ordered

(* A watcher is told something. *)
LEMMA ToldSo ==
  ASSUME OrderInv, NEW r \in Requests, NEW place, watch' = [watch EXCEPT ![r].at = place]
  PROVE  /\ DOMAIN watch' = Requests
         /\ WatchShaped(watch'[r]) /\ watch'[r].at = place
         /\ \A q \in Requests \ {r} : watch'[q] = watch[q]
<1> DEFINE new == [watch[r] EXCEPT !.at = place]
<1>1. WatchShaped(watch[r]) /\ DOMAIN watch = Requests
  BY DEF OrderInv, Ordered
<1>2. WatchShaped(new) /\ new.at = place
  BY <1>1 DEF WatchShaped
<1>3. watch' = [watch EXCEPT ![r] = new]
  OBVIOUS
<1> HIDE DEF new
<1> QED BY <1>1, <1>2, <1>3

(* A request or a run nothing happens to. *)
LEMMA OrderUntouched ==
  ASSUME HandInv, OrderInv, NEW q \in Requests,
         request'[q] = request[q] \/ \E n : request'[q] = Stale(n)[q],
         run'[q] = run[q] \/ /\ run[q].at \notin {"none", "orphan"}
                             /\ run'[q].at \notin {"none", "orphan"},
         watch'[q] = watch[q]
  PROVE  Ordered(q)'
<1>1. /\ request'[q].pc = request[q].pc /\ request'[q].reply = request[q].reply
      /\ request'[q].kind = request[q].kind /\ request'[q].slot = request[q].slot
  BY Staling
<1>2. Ordered(q)
  BY DEF OrderInv
<1>3. /\ run'[q].at \in {"none", "orphan"} <=> run[q].at \in {"none", "orphan"}
      /\ run[q].at # "none" => run'[q].at # "none"
  OBVIOUS
<1> DEFINE was == run[q].at
           now == run'[q].at
<1>4. /\ now \in {"none", "orphan"} <=> was \in {"none", "orphan"}
      /\ watch'[q] = watch[q]
  BY <1>3
<1> HIDE DEF was, now
<1> QED BY <1>1, <1>2, <1>4 DEF Ordered, was, now

LEMMA OrderStep == HandInv /\ RunInv /\ GovernInv /\ OrderInv /\ [Next]_vars => OrderInv'
<1> SUFFICES ASSUME HandInv, RunInv, GovernInv, OrderInv, [Next]_vars
             PROVE  OrderInv'
  OBVIOUS
<1> DEFINE Typed == registry \in [Agents -> Specs \cup {NoSpec}]
           Goal  == OrderInv'
<1>0. ASSUME NEW n \in Agents, NEW spec \in Specs \cup {NoSpec}, registry' = [registry EXCEPT ![n] = spec]
      PROVE  Typed'
  BY <1>0 DEF OrderInv
<1>1. ASSUME NEW r \in Requests, Arrives(r) PROVE Goal
  <2>1. UNCHANGED <<deployment, registry, run>> /\ request[r].pc = "idle"
    BY <1>1 DEF Arrives, At
  <2>2. PICK new : Becomes(r, new) /\ Arrived(new)
    BY <1>1, Arriving
  <2>3. request'[r] = new /\ \A p \in Requests \ {r} : request'[p] = request[p]
    BY <2>2 DEF Becomes, HandInv
  <2>4. PICK shown \in {"signed out", "off"} : watch' = [watch EXCEPT ![r].at = shown]
    BY <1>1, Arriving
  <2>5. /\ DOMAIN watch' = Requests /\ WatchShaped(watch'[r]) /\ watch'[r].at = shown
        /\ \A q \in Requests \ {r} : watch'[q] = watch[q]
    BY <2>4, ToldSo
  <2>6. run'[r] = NoRun /\ NoRun.at = "none"
    BY <2>1 DEF HandInv, NoRun
  <2>7. Ordered(r)'
    <3>0. /\ new.pc \in {"done", "read", "admit", "lookup"}
          /\ new.pc = "done" <=> new.reply # 0
          /\ new.kind \in Kinds
          /\ new.reply # 202
      BY <2>2, ArrivedOrder
    <3>1. /\ request'[r].pc \in {"done", "read", "admit", "lookup"}
          /\ request'[r].pc = "done" <=> request'[r].reply # 0
          /\ request'[r].kind \in Kinds
          /\ request'[r].reply # 202
      BY <3>0, <2>3
    <3>2. /\ run'[r].at = "none" /\ watch'[r].at \in {"signed out", "off"}
          /\ WatchShaped(watch'[r])
      BY <2>5, <2>6
    <3> QED BY <3>1, <3>2 DEF Ordered, Handled
  <2>8. ASSUME NEW q \in Requests \ {r} PROVE Ordered(q)'
    BY <2>1, <2>3, <2>5, OrderUntouched
  <2> QED BY <2>1, <2>5, <2>7, <2>8 DEF OrderInv
<1>2. ASSUME NEW r \in Requests, Read(r) \/ Lookup(r) \/ Admit(r) \/ Create(r) \/ Breaks(r)
      PROVE  Goal
  <2>1. /\ \A p \in Requests \ {r} : request'[p] = request[p]
        /\ Kept(request'[r], request[r])
        /\ UNCHANGED <<deployment, registry>>
        /\ Ended(r) \/ LookedUp(r) \/ Admitted(r) \/ Created(r)
    BY <1>2, HandlerEffect
  <2>2. Ordered(r) /\ Placed(request[r]) /\ (request[r].pc # "done" => run[r].at = "none")
    BY DEF OrderInv, HandInv, NoRun
  <2>3. CASE Ended(r) \/ LookedUp(r) \/ Admitted(r)
    <3>1. UNCHANGED <<run, watch>>
      BY <2>3 DEF Ended, LookedUp, Admitted
    <3>5. Ordered(r)'
      <4>1. CASE Ended(r)
        <5>1. /\ request'[r].pc = "done" /\ request'[r].reply # 0 /\ request'[r].reply # 202
              /\ request'[r].kind = "loop" /\ request[r].pc # "done"
          BY <4>1 DEF Ended, Handled
        <5>2. run'[r].at = "none" /\ watch'[r] = watch[r]
          BY <2>2, <3>1, <5>1
        <5>3. request[r].reply # 202
          BY <2>2, <5>1 DEF Ordered
        <5> QED BY <2>2, <5>1, <5>2, <5>3 DEF Ordered, Kinds
      <4>2. CASE LookedUp(r)
        BY <2>2, <3>1, <4>2 DEF LookedUp, Ordered, Handled, Placed
      <4>3. CASE Admitted(r)
        BY <2>2, <3>1, <4>3 DEF Admitted, Ordered, Handled
      <4> QED BY <2>3, <4>1, <4>2, <4>3
    <3>6. ASSUME NEW q \in Requests \ {r} PROVE Ordered(q)'
      BY <2>1, <3>1, OrderUntouched
    <3> QED BY <2>1, <3>1, <3>5, <3>6 DEF OrderInv
  <2>4. CASE Created(r)
    <3>0. PICK born :
            /\ run' = [run EXCEPT ![r] = born]
            /\ RunShaped(born) /\ born.status = "queued" /\ born.as = "none"
            /\ born.lane = "quota" <=> request[r].seen # NoSpec /\ request[r].seen.kind = "claude-code"
            /\ \/ /\ born.at = "mint" /\ request'[r].reply = 202
                  /\ watch' = [watch EXCEPT ![r].at = "polling"]
               \/ /\ born.at = "orphan" /\ request'[r].reply = 500
                  /\ UNCHANGED watch
      BY ONLY <2>4, Zenon DEF Created
    <3>1. /\ run' = [run EXCEPT ![r] = born]
          /\ \/ /\ born.at = "mint" /\ request'[r].reply = 202
                /\ watch' = [watch EXCEPT ![r].at = "polling"]
             \/ /\ born.at = "orphan" /\ request'[r].reply = 500
                /\ UNCHANGED watch
      BY ONLY <3>0, Zenon
    <3>2. run'[r] = born /\ \A q \in Requests \ {r} : run'[q] = run[q]
      BY <3>1 DEF HandInv
    <3>3. DOMAIN watch' = Requests /\ \A q \in Requests \ {r} : watch'[q] = watch[q]
      BY <3>1, ToldSo DEF OrderInv
    <3>4. /\ request'[r].pc = "done" /\ request'[r].kind = "loop" /\ request[r].pc = "create"
      BY <2>4 DEF Created
    <3>7. Ordered(r)'
      <4>1. CASE born.at = "mint" /\ request'[r].reply = 202 /\ watch' = [watch EXCEPT ![r].at = "polling"]
        <5>1. WatchShaped(watch'[r]) /\ watch'[r].at = "polling"
          <6> DEFINE place == "polling"
          <6>1. watch' = [watch EXCEPT ![r].at = place]
            BY <4>1
          <6> HIDE DEF place
          <6>2. WatchShaped(watch'[r]) /\ watch'[r].at = place
            BY <6>1, ToldSo
          <6> QED BY <6>2 DEF place
        <5> QED BY <3>2, <3>4, <4>1, <5>1 DEF Ordered, Kinds
      <4>2. CASE born.at = "orphan" /\ request'[r].reply = 500 /\ UNCHANGED watch
        <5>1. request[r].reply # 202 /\ watch'[r] = watch[r]
          BY <2>2, <3>4, <4>2 DEF Ordered
        <5>2. run'[r].at = "orphan"
          BY <3>2, <4>2
        <5>3. request'[r].pc = "done" /\ request'[r].reply = 500 /\ request'[r].kind = "loop"
          BY <3>4, <4>2
        <5>4. watch[r].at \notin {"polling", "told", "gave up"} /\ WatchShaped(watch[r])
          BY <2>2, <5>1 DEF Ordered
        <5>5. watch'[r] = watch[r] /\ "loop" \in Kinds
          BY <5>1 DEF Kinds
        <5>6. request'[r].reply # 0 /\ request'[r].reply # 202
          BY <5>3
        <5> QED BY <5>2, <5>3, <5>4, <5>5, <5>6, AnsweredOrder
      <4> QED BY <3>1, <4>1, <4>2
    <3>8. ASSUME NEW q \in Requests \ {r} PROVE Ordered(q)'
      BY <2>1, <3>2, <3>3, OrderUntouched
    <3> QED BY <2>1, <3>3, <3>7, <3>8 DEF OrderInv
  <2> QED BY <2>1, <2>3, <2>4
<1>3. ASSUME NEW r \in Requests, Write(r) PROVE Goal
  <2>1. Written(r) /\ Kept(request'[r], request[r])
    BY <1>3, WriteEffect
  <2>2. Ordered(r) /\ Placed(request[r]) /\ run[r].at = "none" /\ UNCHANGED <<run, watch>>
    BY <2>1 DEF OrderInv, HandInv, NoRun, Written
  <2>3. Typed'
    <3>1. request[r].who \in Tenants /\ request[r].kind \in Kinds
      BY <2>1, <2>2 DEF GovernInv, CredentialDecides, Served, Vouched, Handled, Written, Ordered
    <3>2. [kind |-> request[r].kind, tenant |-> request[r].who] \in Specs
      BY <3>1 DEF Specs
    <3>3. PICK spec \in {NoSpec, [kind |-> request[r].kind, tenant |-> request[r].who]} :
            registry' = [registry EXCEPT ![request[r].agent] = spec]
      BY <2>1 DEF Written
    <3>4. spec \in Specs \cup {NoSpec} /\ request[r].agent \in Agents
      BY <2>1, <3>2 DEF Written
    <3> HIDE DEF Typed
    <3> QED BY <1>0, <3>3, <3>4
  <2>4. Ordered(r)'
    <3>1. /\ request'[r].pc = "done" /\ request'[r].reply \in {200, 201}
          /\ request'[r].kind = request[r].kind /\ request[r].pc = "write"
      BY <2>1 DEF Written
    <3>2. request[r].reply # 202
      BY <2>2, <3>1 DEF Ordered
    <3>3. run'[r].at = "none" /\ watch'[r] = watch[r]
      BY <2>2
    <3>4. /\ request[r].kind \in Kinds /\ WatchShaped(watch[r])
          /\ watch[r].at \notin {"polling", "told", "gave up"}
      BY <2>2, <3>2 DEF Ordered
    <3>5. request'[r].reply # 0 /\ request'[r].reply # 202
      BY <3>1
    <3> QED BY <3>1, <3>3, <3>4, <3>5, AnsweredOrder
  <2>5. ASSUME NEW q \in Requests \ {r} PROVE Ordered(q)'
    BY <2>1, <2>2, OrderUntouched DEF Written
  <2> QED BY <2>2, <2>3, <2>4, <2>5 DEF OrderInv
<1>4. ASSUME NEW r \in Requests, Executes(r) PROVE Goal
  <2>1. /\ RunMoved(r) /\ \A q \in Requests \ {r} : run'[q] = run[q]
        /\ UNCHANGED <<deployment, registry, used, request, watch>>
    BY <1>4, ExecutorEffect
  <2>2. ASSUME NEW q \in Requests PROVE Ordered(q)'
    BY <2>1, OrderUntouched DEF RunMoved
  <2> QED BY <2>1, <2>2 DEF OrderInv
<1>5. ASSUME NEW r \in Requests, Watches(r) PROVE Goal
  <2>1. UNCHANGED <<registry, request, run>> /\ watch[r].at = "polling"
    BY <1>5 DEF Watches, ConsolePolls, AgentPolls, AgentDisconnects
  <2>2. /\ DOMAIN watch' = Requests /\ WatchShaped(watch'[r]) /\ watch'[r].at # "off"
        /\ \A q \in Requests \ {r} : watch'[q] = watch[q]
    <3>1. CASE ConsolePolls(r) \/ AgentDisconnects(r)
      <4>1. \E place : place # "off" /\ watch' = [watch EXCEPT ![r].at = place]
        BY <3>1 DEF ConsolePolls, AgentDisconnects, Told
      <4> QED BY <4>1, ToldSo
    <3>2. CASE AgentPolls(r)
      <4> DEFINE w == watch[r]
                 more == w.polls + 1
                 w1 == [w EXCEPT !.polls = more]
      <4>1. PICK place : place # "off" /\ watch' = [watch EXCEPT ![r].polls = @ + 1, ![r].at = place]
        BY <3>2 DEF AgentPolls
      <4> DEFINE w2 == [w1 EXCEPT !.at = place]
      <4>2. WatchShaped(w) /\ DOMAIN watch = Requests
        BY DEF OrderInv, Ordered
      <4>3. watch' = [watch EXCEPT ![r] = w2]
        BY <4>1, <4>2
      <4> HIDE DEF w, more
      <4>4. WatchShaped(w1)
        BY <4>2 DEF WatchShaped
      <4> HIDE DEF w1
      <4>5. WatchShaped(w2) /\ w2.at = place
        BY <4>4 DEF WatchShaped
      <4> HIDE DEF w2
      <4> QED BY <4>1, <4>2, <4>3, <4>5
    <3> QED BY <1>5, <3>1, <3>2 DEF Watches
  <2>3. Ordered(r)'
    <3>1. Ordered(r)
      BY DEF OrderInv
    <3> QED BY <2>1, <2>2, <3>1 DEF Ordered
  <2>4. ASSUME NEW q \in Requests \ {r} PROVE Ordered(q)'
    BY <2>1, <2>2, OrderUntouched
  <2> QED BY <2>1, <2>2, <2>3, <2>4 DEF OrderInv
<1>6. ASSUME NEW n \in Agents, Edit(n) PROVE Goal
  <2>1. UNCHANGED <<run, watch>> /\ request' = Stale(n)
        /\ \E spec \in Specs \cup {NoSpec} : registry' = [registry EXCEPT ![n] = spec]
    BY <1>6, FrontDoorAssumption DEF Edit
  <2>2. Typed'
    BY <1>0, <2>1
  <2>3. ASSUME NEW q \in Requests PROVE Ordered(q)'
    BY <2>1, OrderUntouched
  <2> QED BY <2>1, <2>2, <2>3 DEF OrderInv
<1>7. ASSUME UNCHANGED vars PROVE Goal
  <2>1. ASSUME NEW q \in Requests PROVE Ordered(q)'
    BY <1>7, OrderUntouched DEF vars
  <2> QED BY <1>7, <2>1 DEF OrderInv, vars
<1> QED BY <1>1, <1>2, <1>3, <1>4, <1>5, <1>6, <1>7 DEF Next, Handles

(***************************************************************************)
(* No refused request keeps a slot.                                        *)
(***************************************************************************)
PlaceInv == \A r \in Requests : SlotPlaced(r)

LEMMA PlaceStart == Init => PlaceInv
BY DEF Init, PlaceInv, SlotPlaced, Justified, Idle

(* Nothing happens to its place, unless its run begins or goes on. *)
LEMMA PlaceUntouched ==
  ASSUME HandInv, PlaceInv, NEW q \in Requests,
         request'[q] = request[q] \/ \E n : request'[q] = Stale(n)[q],
         run[q].at # "none" => run'[q].at # "none"
  PROVE  SlotPlaced(q)'
<1>1. /\ request'[q].pc = request[q].pc /\ request'[q].reply = request[q].reply
      /\ request'[q].slot = request[q].slot
  BY Staling
<1>2. SlotPlaced(q)
  BY DEF PlaceInv
<1> QED BY <1>1, <1>2 DEF SlotPlaced, Justified

LEMMA PlaceStep == HandInv /\ RunInv /\ PlaceInv /\ [Next]_vars => PlaceInv'
<1> SUFFICES ASSUME HandInv, RunInv, PlaceInv, [Next]_vars, NEW q \in Requests
             PROVE  SlotPlaced(q)'
  BY DEF PlaceInv
<1> DEFINE Goal == SlotPlaced(q)'
<1>1. ASSUME NEW r \in Requests, Arrives(r) PROVE Goal
  <2>1. UNCHANGED run
    BY <1>1 DEF Arrives
  <2>2. PICK new : Becomes(r, new) /\ Arrived(new)
    BY <1>1, Arriving
  <2>3. request'[r] = new /\ \A p \in Requests \ {r} : request'[p] = request[p]
    BY <2>2 DEF Becomes, HandInv
  <2>4. CASE q = r
    BY <2>2, <2>3, <2>4 DEF Arrived, SlotPlaced, Justified
  <2>5. CASE q # r
    BY <2>1, <2>3, <2>5, PlaceUntouched
  <2> QED BY <2>4, <2>5
<1>2. ASSUME NEW r \in Requests, Read(r) \/ Lookup(r) \/ Admit(r) \/ Create(r) \/ Breaks(r)
      PROVE  Goal
  <2>1. /\ \A p \in Requests \ {r} : request'[p] = request[p]
        /\ Ended(r) \/ LookedUp(r) \/ Admitted(r) \/ Created(r)
    BY <1>2, HandlerEffect
  <2>2. \A p \in Requests \ {r} : run'[p] = run[p]
    BY <2>1 DEF Ended, LookedUp, Admitted, Created, HandInv
  <2>3. CASE q # r
    BY <2>1, <2>2, <2>3, PlaceUntouched
  <2>4. CASE q = r
    <3>1. CASE Ended(r)
      BY <2>4, <3>1 DEF Ended, SlotPlaced, Justified
    <3>2. CASE LookedUp(r)
      BY <2>4, <3>2 DEF LookedUp, HandInv, Placed, SlotPlaced, Justified
    <3>3. CASE Admitted(r)
      BY <2>4, <3>3 DEF Admitted, SlotPlaced, Justified
    <3>4. CASE Created(r)
      BY <2>4, <3>4 DEF Created, HandInv, SlotPlaced, Justified
    <3> QED BY <2>1, <3>1, <3>2, <3>3, <3>4
  <2> QED BY <2>3, <2>4
<1>3. ASSUME NEW r \in Requests, Write(r) PROVE Goal
  <2>1. Written(r)
    BY <1>3, WriteEffect
  <2>2. CASE q # r
    BY <2>1, <2>2, PlaceUntouched DEF Written
  <2>3. CASE q = r
    BY <2>1, <2>3 DEF Written, HandInv, Placed, SlotPlaced, Justified
  <2> QED BY <2>2, <2>3
<1>4. ASSUME NEW r \in Requests, Executes(r) PROVE Goal
  <2>1. /\ RunMoved(r) /\ \A p \in Requests \ {r} : run'[p] = run[p]
        /\ UNCHANGED request
    BY <1>4, ExecutorEffect
  <2> QED BY <2>1, PlaceUntouched DEF RunMoved
<1>5. ASSUME NEW r \in Requests, Watches(r) PROVE Goal
  BY <1>5, PlaceUntouched DEF Watches, ConsolePolls, AgentPolls, AgentDisconnects
<1>6. ASSUME NEW n \in Agents, Edit(n) PROVE Goal
  BY <1>6, PlaceUntouched DEF Edit
<1>7. ASSUME UNCHANGED vars PROVE Goal
  BY <1>7, PlaceUntouched DEF vars
<1> QED BY <1>1, <1>2, <1>3, <1>4, <1>5, <1>6, <1>7 DEF Next, Handles

(* The requests that took a slot of a tenant's quota. *)
Holding(t) == {r \in Requests : request[r].slot /\ request[r].who = t}

Counted(t) == used[t] = Cardinality(Holding(t)) /\ used[t] <= deployment.quota

SlotInv ==
  /\ DOMAIN used = Tenants /\ used = [t \in Tenants |-> used[t]]
  /\ \A t \in Tenants : Counted(t)

LEMMA HoldingIsFinite ==
  ASSUME NEW t
  PROVE  IsFiniteSet(Holding(t)) /\ Cardinality(Holding(t)) \in 0..Cardinality(Requests)
<1>1. Holding(t) \subseteq Requests /\ IsFiniteSet(Requests)
  BY FrontDoorAssumption DEF Holding
<1> QED BY <1>1, FS_Subset, FS_CardinalityType

LEMMA EachCounted ==
  ASSUME NEW t, Counted(t)', \A s \in Tenants \ {t} : Counted(s)'
  PROVE  \A s \in Tenants : Counted(s)'
<1> SUFFICES ASSUME NEW s \in Tenants PROVE Counted(s)'
  OBVIOUS
<1>1. CASE s = t
  BY <1>1, Zenon DEF Counted
<1>2. CASE s # t
  BY <1>2
<1> QED BY <1>1, <1>2

LEMMA SlotStart == Init => SlotInv
<1> SUFFICES ASSUME Init PROVE SlotInv
  OBVIOUS
<1>1. Idle.slot = FALSE
  BY DEF Idle
<1>2. ASSUME NEW t \in Tenants PROVE Counted(t)
  <2>1. Holding(t) = {}
    BY <1>1 DEF Init, Holding
  <2>2. used[t] = 0 /\ deployment.quota \in Nat
    BY FrontDoorAssumption DEF Init
  <2> QED BY <2>1, <2>2, FS_EmptySet DEF Counted
<1> QED BY <1>2 DEF SlotInv, Init

(* Nobody takes a slot or gives one back. *)
LEMMA SlotsUntouched ==
  ASSUME SlotInv, UNCHANGED <<deployment, used>>,
         \A q \in Requests : \/ request'[q].slot = request[q].slot /\ request'[q].who = request[q].who
                             \/ ~request'[q].slot /\ ~request[q].slot
  PROVE  SlotInv'
<1>1. ASSUME NEW t \in Tenants PROVE Holding(t)' = Holding(t)
  BY DEF Holding
<1> QED BY <1>1 DEF SlotInv, Counted

LEMMA SlotStep == HandInv /\ RunInv /\ GovernInv /\ OrderInv /\ SlotInv /\ [Next]_vars => SlotInv'
<1> SUFFICES ASSUME HandInv, RunInv, GovernInv, OrderInv, SlotInv, [Next]_vars
             PROVE  SlotInv'
  OBVIOUS
<1> DEFINE Goal == SlotInv'
<1>1. ASSUME NEW r \in Requests, Arrives(r) PROVE Goal
  <2>1. UNCHANGED <<deployment, used>> /\ request[r].pc = "idle"
    BY <1>1 DEF Arrives, At
  <2>2. PICK new : Becomes(r, new) /\ Arrived(new)
    BY <1>1, Arriving
  <2>3. request'[r] = new /\ \A p \in Requests \ {r} : request'[p] = request[p]
    BY <2>2 DEF Becomes, HandInv
  <2>4. request[r].slot = FALSE
    BY <2>1 DEF HandInv, Placed
  <2> QED BY <2>1, <2>2, <2>3, <2>4, SlotsUntouched DEF Arrived
<1>2. ASSUME NEW r \in Requests, Read(r) \/ Lookup(r) \/ Admit(r) \/ Create(r) \/ Breaks(r)
      PROVE  Goal
  <2>1. /\ \A p \in Requests \ {r} : request'[p] = request[p]
        /\ Kept(request'[r], request[r])
        /\ UNCHANGED <<deployment, registry>>
        /\ Ended(r) \/ LookedUp(r) \/ Admitted(r) \/ Created(r)
    BY <1>2, HandlerEffect
  <2>2. request'[r].who = request[r].who
    BY <2>1 DEF Kept
  <2>3. CASE Ended(r) \/ LookedUp(r) \/ Created(r)
    BY <2>1, <2>2, <2>3, SlotsUntouched DEF Ended, LookedUp, Created
  <2>4. CASE Admitted(r)
    <3>0. PICK t : t = request[r].who
      OBVIOUS
    <3>1. request[r].pc = "admit" /\ request[r].slot = FALSE
      BY <2>4 DEF Admitted
    <3>2. CASE request'[r].slot = FALSE /\ UNCHANGED used
      BY <2>1, <3>1, <3>2, SlotsUntouched
    <3>3. CASE request'[r].slot /\ Fits(t) /\ used' = [used EXCEPT ![t] = @ + 1]
      <4>1. t \in Tenants
        BY <3>0, <3>1 DEF GovernInv, CredentialDecides, Served, Vouched, Handled
      <4>2. Holding(t)' = Holding(t) \cup {r} /\ r \notin Holding(t)
        BY <2>1, <2>2, <3>0, <3>1, <3>3 DEF Holding
      <4>3. \A s \in Tenants \ {t} : Holding(s)' = Holding(s)
        BY <2>1, <2>2, <3>0, <3>1 DEF Holding
      <4>4. IsFiniteSet(Holding(t)) /\ Cardinality(Holding(t)) \in Nat
        BY HoldingIsFinite, FS_CardinalityType
      <4>5. Cardinality(Holding(t)') = Cardinality(Holding(t)) + 1
        BY <4>2, <4>4, FS_AddElement
      <4>6. used'[t] = used[t] + 1 /\ DOMAIN used' = Tenants /\ \A s \in Tenants \ {t} : used'[s] = used[s]
        BY <3>3, <4>1 DEF SlotInv
      <4>7. used[t] + 1 <= deployment.quota
        BY <3>3 DEF Fits
      <4>8. Counted(t)'
        <5>1. used[t] = Cardinality(Holding(t))
          BY <4>1 DEF SlotInv, Counted
        <5>2. used'[t] = Cardinality(Holding(t)') /\ used'[t] <= deployment'.quota
          BY <2>1, <4>5, <4>6, <4>7, <5>1
        <5> QED BY <5>2 DEF Counted
      <4>9. ASSUME NEW s \in Tenants \ {t} PROVE Counted(s)'
        <5>1. used'[s] = used[s] /\ Holding(s)' = Holding(s) /\ deployment' = deployment
          BY <2>1, <4>3, <4>6
        <5> QED BY <5>1 DEF SlotInv, Counted
      <4>10. used' = [s \in Tenants |-> used'[s]]
        BY <3>3 DEF SlotInv
      <4>11. \A s \in Tenants : Counted(s)'
        BY <4>8, <4>9, EachCounted
      <4> QED BY <4>6, <4>10, <4>11 DEF SlotInv
    <3> QED BY <2>4, <3>0, <3>2, <3>3 DEF Admitted
  <2> QED BY <2>1, <2>3, <2>4
<1>3. ASSUME NEW r \in Requests, Write(r) PROVE Goal
  <2>1. Written(r) /\ Kept(request'[r], request[r])
    BY <1>3, WriteEffect
  <2>2. ASSUME NEW q \in Requests
        PROVE  request'[q].slot = request[q].slot /\ request'[q].who = request[q].who
    BY <2>1, Staling DEF Written, Kept
  <2> QED BY <2>1, <2>2, SlotsUntouched DEF Written
<1>4. ASSUME NEW r \in Requests, Executes(r) PROVE Goal
  BY <1>4, ExecutorEffect, SlotsUntouched
<1>5. ASSUME NEW r \in Requests, Watches(r) PROVE Goal
  BY <1>5, SlotsUntouched DEF Watches, ConsolePolls, AgentPolls, AgentDisconnects
<1>6. ASSUME NEW n \in Agents, Edit(n) PROVE Goal
  <2>1. UNCHANGED <<deployment, used>> /\ request' = Stale(n)
    BY <1>6 DEF Edit
  <2>2. ASSUME NEW q \in Requests
        PROVE  request'[q].slot = request[q].slot /\ request'[q].who = request[q].who
    BY <2>1, Staling
  <2> QED BY <2>1, <2>2, SlotsUntouched
<1>7. ASSUME UNCHANGED vars PROVE Goal
  BY <1>7, SlotsUntouched DEF vars
<1> QED BY <1>1, <1>2, <1>3, <1>4, <1>5, <1>6, <1>7 DEF Next, Handles

(* The quota row counts the slots taken and never passes the quota, and a     *)
(* slot belongs to a run, to a request about to create one, or to one that    *)
(* broke (LocalGate.reserveRun() and the routes that await it).               *)
THEOREM SlotsAreHeldAlways == Spec => []SlotsAreHeld
<1> DEFINE Inv == HandInv /\ RunInv /\ GovernInv /\ OrderInv /\ PlaceInv /\ SlotInv
<1>1. Init => Inv
  BY HandStart, LaneStart, GovernStart, OrderStart, PlaceStart, SlotStart
<1>2. Inv /\ [Next]_vars => Inv'
  BY HandStep, RunStep, GovernStep, OrderStep, PlaceStep, SlotStep
<1>3. Inv => SlotsAreHeld
  <2> SUFFICES ASSUME Inv PROVE SlotsAreHeld
    OBVIOUS
  <2>1. ASSUME NEW t \in Tenants
        PROVE  used[t] \in 0..Cardinality(Requests)
    BY HoldingIsFinite DEF SlotInv, Counted
  <2>2. used = [t \in Tenants |-> used[t]]
    BY DEF SlotInv
  <2>3. TypeOK
    BY <2>1, <2>2 DEF TypeOK, OrderInv, Ordered, RunInv, RunSound, Handled
  <2>4. ASSUME NEW t \in Tenants
        PROVE  /\ used[t] = Cardinality({r \in Requests : request[r].slot /\ request[r].who = t})
               /\ used[t] <= deployment.quota
    BY DEF SlotInv, Counted, Holding
  <2>5. ASSUME NEW r \in Requests
        PROVE  request[r].slot => run[r].at # "none" \/ request[r].pc = "create" \/ request[r].reply = 500
    BY DEF PlaceInv, SlotPlaced, Justified
  <2> QED BY <2>3, <2>4, <2>5 DEF SlotsAreHeld
<1> HIDE DEF Inv
<1> QED BY <1>1, <1>2, <1>3, PTL DEF Spec
===============================================================================
