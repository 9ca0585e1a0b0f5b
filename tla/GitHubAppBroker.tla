-------------------------- MODULE GitHubAppBroker --------------------------
(***************************************************************************)
(* GitHubAppCredential (packages/k8s-baseline/src/                         *)
(* github-app-credential.ts): a secret with the key of a GitHub App, and a *)
(* Lambda broker that mints tokens with it, each for one repository and    *)
(* the permissions of the component.  The scope is agreed twice: Pulumi    *)
(* builds it into the broker, an operator stores it with the key.          *)
(*                                                                         *)
(* The broker waits for the secret, for the installation and for the       *)
(* token; deployments, the operator, the App's owner and GitHub go on      *)
(* meanwhile.  A digest is the canonical scope itself, a private key the   *)
(* name of a key pair, and a JWT the key it is signed with.                *)
(***************************************************************************)
EXTENDS Integers, Sequences, SequencesExt

CONSTANTS
    Calls,            \* invocations of the broker
    Requests,         \* what a caller may ask for: <<owner, repository>>
    Scopes,           \* repos and permissions the component may be given
    Keys,             \* key pairs of the App
    Owners,           \* names the account of the installation may have
    Grants,           \* what the account may grant the App
    Limit             \* bound on what others change

Wildcard == <<"*", "*">>
Nothing == [repos |-> {}, permissions |-> {}]

VARIABLES
    tag,              \* the scope digest among the secret's tags
    functions,        \* the scopes of the brokers deployed
    update,           \* the scope a deployment is bringing about, or Nothing
    secret,           \* the secret's value: a scope and a key
    population,       \* the value an operator is about to store
    keys,             \* the key pairs GitHub knows
    installation,     \* of the App: its number, its account, repositories, grants
    calls,
    left              \* what is left of Limit

vars == <<tag, functions, update, secret, population, keys, installation, calls, left>>
world == <<tag, functions, update, secret, population, keys, installation>>

Value(scope, key) == [scope |-> scope, key |-> key]
NoKey == "none"
Empty == Value(Nothing, NoKey)
NoToken == [repository |-> <<>>, permissions |-> {}, expires |-> "past"]
Idle == [at |-> "idle", broker |-> Nothing, request |-> <<>>, value |-> Empty, id |-> 0,
         token |-> NoToken, agreeable |-> FALSE, disturbed |-> FALSE]

-----------------------------------------------------------------------------
(***************************************************************************)
(* Scopes                                                                  *)
(***************************************************************************)
\* normalizeScope, which throws for any other; normalizeRuntimeScope and the
\* population script ask for the same.
Normal(a) ==
    /\ a.repos # <<>> /\ IsInjective(a.repos)
    /\ Wildcard \in ToSet(a.repos) => Len(a.repos) = 1
    /\ a.permissions # {}

\* Sorted, so that the order of the arguments does not count.
Canonical(a) == [repos |-> ToSet(a.repos), permissions |-> a.permissions]

Digest(scope) == scope

Allows(scope, request) == Wildcard \in scope.repos \/ request \in scope.repos

TypeOK ==
    /\ LET scopes == {Canonical(a) : a \in {b \in Scopes : Normal(b)}}
       IN  /\ {tag} \cup functions \subseteq scopes
           /\ {update, secret.scope, population.scope} \subseteq scopes \cup {Nothing}
           /\ \A c \in Calls : calls[c].at # "idle" => calls[c].broker \in scopes
    /\ installation.id \in 1..(Limit + 1) /\ keys \subseteq Keys /\ left \in 0..Limit

Init ==
    /\ \E a \in Scopes : Normal(a) /\ tag = Canonical(a)
    /\ functions = {tag}
    /\ update = Nothing
    /\ secret = Empty /\ population = Empty
    /\ keys \in {{k} : k \in Keys}
    /\ installation \in [id : {1}, owner : Owners, repos : {{q[2] : q \in Requests}}, grants : Grants]
    /\ calls = [c \in Calls |-> Idle]
    /\ left = Limit

\* What somebody else changes reaches every call that is under way.
Disturbed == [c \in Calls |-> [calls[c] EXCEPT !.disturbed = TRUE]]
Changes ==
    /\ left > 0 /\ left' = left - 1
    /\ calls' = Disturbed

-----------------------------------------------------------------------------
(***************************************************************************)
(* Deployments                                                             *)
(***************************************************************************)
\* The tag changes in place.  The name of the broker has the digest in it: the
\* broker of another scope is another function, created before the old one goes.
Deploy == \E a \in Scopes :
    /\ Normal(a) /\ Canonical(a) # update
    /\ tag' = Canonical(a)
    /\ update' = Canonical(a)
    /\ Changes
    /\ UNCHANGED <<functions, secret, population, keys, installation>>

CreateBroker ==
    /\ update \notin functions \cup {Nothing}
    /\ functions' = functions \cup {update}
    /\ calls' = Disturbed
    /\ UNCHANGED <<tag, update, secret, population, keys, installation, left>>

\* What runs in an old broker goes on.
DeleteOldBrokers ==
    /\ update \in functions
    /\ functions' = {update}
    /\ update' = Nothing
    /\ calls' = Disturbed
    /\ UNCHANGED <<tag, secret, population, keys, installation, left>>

-----------------------------------------------------------------------------
(***************************************************************************)
(* The operator and the App                                                *)
(***************************************************************************)
\* populate-github-app-secret.sh compares the scope it is given with the tag...
Populate == \E a \in Scopes, k \in Keys :
    /\ population = Empty
    /\ Normal(a) /\ Digest(Canonical(a)) = tag
    /\ population' = Value(Canonical(a), k)
    /\ Changes
    /\ UNCHANGED <<tag, functions, update, secret, keys, installation>>

\* ...and stores it some time later.
PutSecret ==
    /\ population # Empty
    /\ secret' = population /\ population' = Empty
    /\ calls' = Disturbed
    /\ UNCHANGED <<tag, functions, update, keys, installation, left>>

ChangeKeys == \E ks \in {{k} : k \in Keys} \cup {Keys} :
    /\ ks # keys /\ keys' = ks
    /\ Changes
    /\ UNCHANGED <<tag, functions, update, secret, population, installation>>

\* The account is renamed, grants something else, or installs the App anew.
ChangeInstallation ==
    /\ \/ \E o \in Owners \ {installation.owner} :
             installation' = [installation EXCEPT !.owner = o]
       \/ \E g \in Grants \ {installation.grants} :
             installation' = [installation EXCEPT !.grants = g]
       \/ installation' = [installation EXCEPT !.id = @ + 1]
    /\ Changes
    /\ UNCHANGED <<tag, functions, update, secret, population, keys>>

-----------------------------------------------------------------------------
(***************************************************************************)
(* A call of a broker                                                      *)
(***************************************************************************)
Fit(scope) ==
    /\ scope.permissions \subseteq installation.grants
    /\ secret.key \in keys

\* Everybody agrees to what the caller is asking for.
Agreeable(f, q) ==
    /\ Allows(f, q) /\ secret.scope = f
    /\ q = <<installation.owner, q[2]>>
    /\ Fit(f)

With(k, changes) == [f \in DOMAIN k |-> IF f \in DOMAIN changes THEN changes[f] ELSE k[f]]
Goes(c, changes) == calls' = [calls EXCEPT ![c] = With(@, changes)] /\ UNCHANGED <<world, left>>
Throws(c) == Goes(c, [at |-> "failed"])

\* Any wait may end in an error, a timeout of ten seconds, or the end of the
\* Lambda's fifteen: what GitHub did by then stands.
Fails(c) ==
    /\ calls[c].at \in {"read", "lookup", "mint"}
    /\ left > 0 /\ left' = left - 1
    /\ calls' = [calls EXCEPT ![c].at = "failed", ![c].disturbed = TRUE]
    /\ UNCHANGED world

Invoke(c) == \E f \in functions, q \in Requests :
    /\ calls[c].at = "idle"
    /\ Goes(c, [at |-> IF Allows(f, q) THEN "read" ELSE "failed", broker |-> f, request |-> q,
                agreeable |-> Agreeable(f, q), disturbed |-> FALSE])

\* The stored scope must be valid and have its own digest, and that must be the
\* broker's.
\* Variant: a stored scope that is sound is accepted.
AcceptedIfSound(c) == secret.scope # Nothing

Accepted(c) == secret.scope # Nothing /\ Digest(secret.scope) = Digest(calls[c].broker)

\* The JWT is signed at once, with the key that was read.
ReadSecret(c) ==
    /\ calls[c].at = "read"
    /\ IF Accepted(c) THEN Goes(c, [at |-> "lookup", value |-> secret]) ELSE Throws(c)

\* GitHub knows a repository by the present name of its owner; a redirect is an
\* error.
Lookup(c) ==
    /\ calls[c].at = "lookup"
    /\ LET q == calls[c].request
       IN  IF /\ calls[c].value.key \in keys
              /\ q[1] = installation.owner /\ q[2] \in installation.repos
           THEN Goes(c, [at |-> "mint", id |-> installation.id]) ELSE Throws(c)

\* What GitHub may make of the demand for one repository of the installation and
\* the broker's permissions: a token for them, or one with more than was asked.
Asked(c) ==
    [repository |-> <<installation.owner, calls[c].request[2]>>,
     permissions |-> calls[c].broker.permissions, expires |-> "in an hour"]
Answers(c) ==
    {Asked(c), [Asked(c) EXCEPT !.permissions = installation.grants],
     [Asked(c) EXCEPT !.expires = "past"], [Asked(c) EXCEPT !.expires = "later"]}

Minted(c) ==
    /\ calls[c].value.key \in keys /\ calls[c].id = installation.id
    /\ calls[c].broker.permissions \subseteq installation.grants

\* The token must be for the one repository, by its full name, with exactly the
\* permissions, and expire within the hour.
InScope(c, t) ==
    /\ t.repository = calls[c].request
    /\ t.permissions = calls[c].broker.permissions
    /\ t.expires = "in an hour"

Mint(c) ==
    /\ calls[c].at = "mint"
    /\ \/ ~Minted(c) /\ Throws(c)
       \/ /\ Minted(c)
          /\ \E t \in Answers(c) :
                \/ InScope(c, t) /\ Goes(c, [at |-> "done", token |-> t])
                \/ /\ ~InScope(c, t)
                   /\ Goes(c, [at |-> "failed", disturbed |-> calls[c].disturbed \/ t # Asked(c)])

Next ==
    \/ Deploy \/ CreateBroker \/ DeleteOldBrokers
    \/ Populate \/ PutSecret \/ ChangeKeys \/ ChangeInstallation
    \/ \E c \in Calls : Invoke(c) \/ ReadSecret(c) \/ Lookup(c) \/ Mint(c) \/ Fails(c)

Spec == Init /\ [][Next]_vars

-----------------------------------------------------------------------------
\* A token is handed out only for the repository that was asked for, with the
\* permissions of the broker that was asked, and only if the operator had stored
\* that very scope: whatever is deployed, stored, rotated or renamed during the
\* call (createGitHubAppTokenBrokerHandler).  A call that nothing disturbs is
\* refused only if its request is not agreed to on every side.
CallsGetWhatWasAgreed ==
    \A c \in Calls :
        LET k == calls[c]
        IN  /\ k.at = "done" =>
                  /\ Allows(k.broker, k.request) /\ k.value.scope = k.broker
                  /\ k.token.repository = k.request
                  /\ k.token.permissions = k.broker.permissions /\ k.token.expires = "in an hour"
            /\ k.at = "failed" /\ ~k.disturbed => ~k.agreeable
=============================================================================
