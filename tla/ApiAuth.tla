------------------------------ MODULE ApiAuth -------------------------------
(***************************************************************************)
(* How a request to the client or the management API is let in             *)
(* (pkg/httpauth/policy.go, cmd/hypercache-server/oidc.go): the identity   *)
(* its credential resolves to, and the scope the route asks for.  A header *)
(* is a credential [kind, name, good]; a certificate has no header.        *)
(***************************************************************************)
EXTENDS Integers, Sequences

CONSTANT Policy   \* the policy every node runs with

Scopes == {"read", "write", "admin"}

\* tokens, users, certs: the configured identities, in order; claims: what the
\* OIDC provider says of a bearer token, absent when there is none; plain:
\* AllowBasicWithoutTLS; tls: the listener has TLS.
Identity == [name : STRING, scopes : SUBSET Scopes]
ASSUME PolicyAssumption ==
    /\ Policy.tokens \in Seq(Identity) /\ Policy.users \in Seq(Identity)
    /\ Policy.certs \in Seq(Identity)
    /\ Policy.claims \subseteq Identity
    /\ Policy.anonymous \in BOOLEAN /\ Policy.plain \in BOOLEAN /\ Policy.tls \in BOOLEAN

Credential == [kind : {"none", "bearer", "basic", "cert"}, name : STRING, good : BOOLEAN]

Nobody == [name |-> "", scopes |-> {}]

Named(list, name) == {i \in DOMAIN list : list[i].name = name}
First(S) == CHOOSE i \in S : \A j \in S : i <= j
Last(S) == CHOOSE i \in S : \A j \in S : i >= j

\* All tokens are compared and the last that matches counts.
resolveBearer(cred) ==
    LET m == Named(Policy.tokens, cred.name)
    IN  IF cred.kind = "bearer" /\ m # {} THEN Policy.tokens[Last(m)] ELSE Nobody

\* The first user of that name counts, password right or wrong.
resolveBasic(cred) ==
    LET m == Named(Policy.users, cred.name)
    IN  IF cred.kind = "basic" /\ (Policy.plain \/ Policy.tls) /\ m # {} /\ cred.good
        THEN Policy.users[First(m)] ELSE Nobody

resolveCert(cred) ==
    LET m == Named(Policy.certs, cred.name)
    IN  IF cred.kind = "cert" /\ Policy.tls /\ m # {} THEN Policy.certs[First(m)] ELSE Nobody

\* A token the provider knows, whose claims name somebody; scopes the cache
\* does not know are left out.
ServerVerify(cred) ==
    LET c == {d \in Policy.claims : d.name = cred.name}
    IN  IF cred.kind = "bearer" /\ cred.good /\ c # {} THEN CHOOSE d \in c : TRUE ELSE Nobody

\* The first that knows the caller.
resolve(cred) ==
    LET anonymous == IF Policy.anonymous THEN [name |-> "anonymous", scopes |-> Scopes]
                     ELSE Nobody
        known == SelectSeq(<<resolveBearer(cred), resolveBasic(cred), resolveCert(cred),
                             ServerVerify(cred), anonymous>>, LAMBDA id : id # Nobody)
    IN  IF known = <<>> THEN Nobody ELSE Head(known)

\* The status the middleware ends the request with, 200 to let it through.
Verify(cred, required) ==
    IF resolve(cred) = Nobody THEN 401
    ELSE IF required \notin resolve(cred).scopes THEN 403 ELSE 200

\* Capabilities are the scopes under another name.
HasCapability(cred, scope) == scope \in resolve(cred).scopes
=============================================================================
