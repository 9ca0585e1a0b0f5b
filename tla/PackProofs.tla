----------------------------- MODULE PackProofs -----------------------------
(***************************************************************************)
(* What two policy packs of Delivery let through, and what comes of it: the*)
(* review of a brokered boundary, for every argument and whichever         *)
(* resources a program touches, and the endpoint of a cluster, for every   *)
(* set of programs and every width of an address.  At the end, with the    *)
(* invariants of DeliveryProofs, the types of all of Delivery.             *)
(***************************************************************************)
EXTENDS DeliveryProofs

-----------------------------------------------------------------------------
(***************************************************************************)
(* The review of a brokered boundary                                       *)
(***************************************************************************)
\* The module's own cardinality is the library's.
LEMMA Cards == ASSUME NEW S PROVE Boundary!Cardinality(S) = Cardinality(S)
BY DEF Boundary!Cardinality, Cardinality

\* A set of which there is one has one element.
LEMMA OneIs == ASSUME NEW S, IsFiniteSet(S), Boundary!One(S) PROVE \E x : S = {x}
<1>1. Cardinality(S) = 1
  BY Cards DEF Boundary!One
<1>. QED
  BY <1>1, FS_Singleton

\* As many elements as a set has are all of them.
LEMMA AllOf ==
    ASSUME NEW S, IsFiniteSet(S), NEW T \in SUBSET S, Cardinality(T) = Cardinality(S)
    PROVE  T = S
BY FS_Subset

\* Two, three, four and five elements that differ.
LEMMA FewAre ==
    ASSUME NEW a, NEW b, a # b
    PROVE  /\ Cardinality({a, b}) = 2
           /\ \A c : c \notin {a, b} => /\ Cardinality({a, b, c}) = 3
                 /\ \A d : d \notin {a, b, c} => /\ Cardinality({a, b, c, d}) = 4
                       /\ \A e : e \notin {a, b, c, d} => Cardinality({a, b, c, d, e}) = 5
<1>1. IsFiniteSet({a, b}) /\ Cardinality({a, b}) = 2
  <2>1. IsFiniteSet({a}) /\ Cardinality({a}) = 1 /\ {a} \cup {b} = {a, b} /\ b \notin {a}
    BY FS_Singleton
  <2>. QED
    BY <2>1, FS_AddElement
<1>2. ASSUME NEW c, c \notin {a, b}  PROVE IsFiniteSet({a, b, c}) /\ Cardinality({a, b, c}) = 3
  <2>1. {a, b} \cup {c} = {a, b, c}
    OBVIOUS
  <2>. QED
    BY <1>1, <1>2, <2>1, FS_AddElement
<1>3. ASSUME NEW c, c \notin {a, b}, NEW d, d \notin {a, b, c}
      PROVE  IsFiniteSet({a, b, c, d}) /\ Cardinality({a, b, c, d}) = 4
  <2>1. {a, b, c} \cup {d} = {a, b, c, d}
    OBVIOUS
  <2>2. IsFiniteSet({a, b, c}) /\ Cardinality({a, b, c}) = 3
    BY <1>2, <1>3
  <2>. DEFINE S == {a, b, c}
  <2>3. IsFiniteSet(S) /\ Cardinality(S) = 3 /\ d \notin S /\ S \cup {d} = {a, b, c, d}
    BY <2>1, <2>2, <1>3
  <2>. HIDE DEF S
  <2>. QED
    BY <2>3, FS_AddElement
<1>4. ASSUME NEW c, c \notin {a, b}, NEW d, d \notin {a, b, c}, NEW e, e \notin {a, b, c, d}
      PROVE  Cardinality({a, b, c, d, e}) = 5
  <2>1. {a, b, c, d} \cup {e} = {a, b, c, d, e}
    OBVIOUS
  <2>2. IsFiniteSet({a, b, c, d}) /\ Cardinality({a, b, c, d}) = 4
    BY <1>3, <1>4
  <2>. DEFINE S == {a, b, c, d}
  <2>3. IsFiniteSet(S) /\ Cardinality(S) = 4 /\ e \notin S /\ S \cup {e} = {a, b, c, d, e}
    BY <2>1, <2>2, <1>4
  <2>. HIDE DEF S
  <2>. QED
    BY <2>3, FS_AddElement
<1>. QED
  BY <1>1, <1>2, <1>3, <1>4

LEMMA FourAre ==
    ASSUME NEW k, NEW l, NEW m, NEW n, k # l, m \notin {k, l}, n \notin {k, l, m}
    PROVE  Cardinality({k, l, m, n}) = 4
<1>1. IsFiniteSet({k}) /\ Cardinality({k}) = 1 /\ l \notin {k}
  BY FS_Singleton
<1>2. IsFiniteSet({k} \cup {l}) /\ Cardinality({k} \cup {l}) = 2
  BY <1>1, FS_AddElement
<1>3. IsFiniteSet(({k} \cup {l}) \cup {m}) /\ Cardinality(({k} \cup {l}) \cup {m}) = 3
  BY <1>2, FS_AddElement
<1>4. Cardinality((({k} \cup {l}) \cup {m}) \cup {n}) = 4
  BY <1>3, FS_AddElement
<1>5. (({k} \cup {l}) \cup {m}) \cup {n} = {k, l, m, n}
  OBVIOUS
<1>. QED
  BY <1>4, <1>5

LEMMA FewAreFinite ==
    ASSUME NEW k, NEW l, NEW m, NEW n
    PROVE  /\ IsFiniteSet({k}) /\ IsFiniteSet({k, l})
           /\ IsFiniteSet({k, l, m}) /\ IsFiniteSet({k, l, m, n})
<1>1. IsFiniteSet({k})
  BY FS_Singleton
<1>2. IsFiniteSet({k} \cup {l})
  BY <1>1, FS_AddElement
<1>3. IsFiniteSet(({k} \cup {l}) \cup {m})
  BY <1>2, FS_AddElement
<1>4. IsFiniteSet((({k} \cup {l}) \cup {m}) \cup {n})
  BY <1>3, FS_AddElement
<1>5. /\ {k} \cup {l} = {k, l} /\ ({k} \cup {l}) \cup {m} = {k, l, m}
      /\ (({k} \cup {l}) \cup {m}) \cup {n} = {k, l, m, n}
  OBVIOUS
<1>. QED
  BY <1>1, <1>2, <1>3, <1>4, <1>5

\* The images under a function.
LEMMA ImageIsFinite ==
    ASSUME NEW f, NEW S, IsFiniteSet(S), DOMAIN f = S, f = [x \in S |-> f[x]]
    PROVE  IsFiniteSet({f[x] : x \in S})
<1>. DEFINE T == {f[x] : x \in S}
<1>1. f \in Surjection(S, T)
  BY DEF Surjection
<1>. QED
  BY <1>1, FS_Surjection

\* With one more element a set has one more at most.
LEMMA OneMore ==
    ASSUME NEW S, NEW T, NEW j, IsFiniteSet(S), T \subseteq S \cup {j}
    PROVE  Cardinality(T) <= Cardinality(S) + 1
<1>1. /\ IsFiniteSet(S \cup {j})
      /\ Cardinality(S \cup {j}) = Cardinality(S) \/ Cardinality(S \cup {j}) = Cardinality(S) + 1
  BY FS_AddElement
<1>2. IsFiniteSet(T) /\ Cardinality(T) <= Cardinality(S \cup {j})
  <2>. DEFINE U == S \cup {j}
  <2>1. IsFiniteSet(U) /\ T \in SUBSET U
    BY <1>1
  <2>. HIDE DEF U
  <2>2. IsFiniteSet(T) /\ Cardinality(T) <= Cardinality(U)
    BY <2>1, FS_Subset
  <2>. QED
    BY <2>2 DEF U
<1>3. Cardinality(S) \in Nat /\ Cardinality(T) \in Nat
  BY <1>2, FS_CardinalityType
<1>. QED
  BY <1>1, <1>2, <1>3

-----------------------------------------------------------------------------
\* What a resource of the boundary keeps, whoever edits the stack: its kind and what it is
\* known by.  Nothing is said of what the pack looks at.
Fine(f, x) ==
    /\ f \in {"roles", "workloads"} => "kind" \in DOMAIN x /\ x.kind \in Boundary!Kinds
    /\ f = "accounts" => /\ {"kind", "name"} \subseteq DOMAIN x
                         /\ x.kind \in Boundary!Kinds /\ x.name = args.accounts[x.kind]
    /\ f = "groups" => /\ {"kind", "id"} \subseteq DOMAIN x
                       /\ x.kind \in Boundary!Kinds /\ x.id = Boundary!SgOf[x.kind]
    /\ f = "tables" => "arn" \in DOMAIN x /\ x.arn = Boundary!ReplayTable(args)
    /\ f = "policies" => "statements" \in DOMAIN x /\ IsFiniteSet(x.statements)

CountedTypes ==
    {"roles", "accounts", "groups", "workloads", "tables", "secrets", "secureSecrets", "policies"}

Formed ==
    /\ stack = [f \in Boundary!Types |-> stack[f]]
    /\ \A f \in CountedTypes : IsFiniteSet(stack[f])
    /\ \A f \in Boundary!Types : \A x \in stack[f] : Fine(f, x)

\* Type by type.
Named ==
    /\ \A r \in stack.roles : "kind" \in DOMAIN r /\ r.kind \in Boundary!Kinds
    /\ \A x \in stack.accounts : /\ {"kind", "name"} \subseteq DOMAIN x
                                 /\ x.kind \in Boundary!Kinds /\ x.name = args.accounts[x.kind]
    /\ \A g \in stack.groups : /\ {"kind", "id"} \subseteq DOMAIN g
                               /\ g.kind \in Boundary!Kinds /\ g.id = Boundary!SgOf[g.kind]
    /\ \A w \in stack.workloads : "kind" \in DOMAIN w /\ w.kind \in Boundary!Kinds
    /\ \A t \in stack.tables : "arn" \in DOMAIN t /\ t.arn = Boundary!ReplayTable(args)
    /\ \A p \in stack.policies : "statements" \in DOMAIN p /\ IsFiniteSet(p.statements)

Finite == \A f \in CountedTypes : IsFiniteSet(stack[f])

LEMMA FormedIs == ASSUME Formed PROVE Named /\ Finite
<1>1. Named
  <2>1. CountedTypes \subseteq Boundary!Types
    BY DEF CountedTypes, Boundary!Types
  <2>2. \A f \in CountedTypes : \A x \in stack[f] : Fine(f, x)
    BY <2>1 DEF Formed
  <2>. QED
    BY <2>2 DEF Named, Fine, CountedTypes
<1>. QED
  BY <1>1 DEF Formed, Finite

LEMMA Passed == ASSUME NEW checks, Boundary!Failed(checks) = {} PROVE \A n \in DOMAIN checks : checks[n]
BY DEF Boundary!Failed

LEMMA PairOf ==
    ASSUME Formed, NEW k \in Boundary!Kinds, Boundary!Paired(stack, k)
    PROVE  /\ \E r : Boundary!Of(stack.roles, k) = {r}
           /\ \E x : Boundary!Of(stack.accounts, k) = {x}
<1>1. IsFiniteSet(stack.roles) /\ IsFiniteSet(stack.accounts)
  BY FormedIs DEF Finite, CountedTypes
<1>2. Boundary!Of(stack.roles, k) \in SUBSET stack.roles /\ Boundary!Of(stack.accounts, k) \in SUBSET stack.accounts
  BY DEF Boundary!Of
<1>3. IsFiniteSet(Boundary!Of(stack.roles, k)) /\ IsFiniteSet(Boundary!Of(stack.accounts, k))
  BY <1>1, <1>2, FS_Subset
<1>. QED
  BY <1>3, OneIs DEF Boundary!Paired

\* What an empty report of the last validation says.
LEMMA NothingReported ==
    ASSUME Boundary!Report(stack, args, FALSE) = {}
    PROVE  /\ Boundary!NoStandalonePod(stack, args)
           /\ Boundary!SecretsExact(stack, args, FALSE)
           /\ \A k \in Boundary!Kinds : Boundary!ExactTrust(stack, args, k, FALSE)
           /\ \A k \in Boundary!Kinds :
                 /\ Boundary!Paired(stack, k)
                 /\ Boundary!Unmanaged(stack, k) /\ Boundary!InlineSafe(stack, k)
           /\ Boundary!BrokerReads(stack, args)
           /\ \A k \in Boundary!Privileged : Boundary!ExactAuthority(stack, args, k)
           /\ Boundary!ValidPlacement(args.placement)
           /\ \A k \in Boundary!Kinds :
                 /\ Boundary!GroupExact(stack, args, k) /\ Boundary!WorkloadExact(stack, args, k)
                 /\ Boundary!NetworkExact(stack, args, k) /\ Boundary!GroupPolicyExact(stack, args, k)
           /\ Boundary!StaysInert(stack, args) /\ Boundary!One(stack.tables)
           /\ Boundary!ReplayExact(stack, args)
           /\ Boundary!AdmissionExact(stack, args) /\ Boundary!BindingExact(stack, args)
<1>1. Boundary!Early(stack, args, FALSE) = {} /\ Boundary!Late(stack, args) = {}
  BY DEF Boundary!Report
<1>2. /\ Boundary!NoStandalonePod(stack, args) /\ Boundary!SecretsExact(stack, args, FALSE)
      /\ \A k \in Boundary!Kinds : Boundary!ExactTrust(stack, args, k, FALSE)
  <2>. DEFINE checks == [pods |-> Boundary!NoStandalonePod(stack, args), arns |-> Boundary!OneArnContext(args),
              secrets |-> Boundary!SecretsExact(stack, args, FALSE),
              trust |-> \A k \in Boundary!Kinds : Boundary!ExactTrust(stack, args, k, FALSE)]
  <2>1. Boundary!Failed(checks) = {}
    BY <1>1 DEF Boundary!Early
  <2>2. \A n \in {"pods", "secrets", "trust"} : n \in DOMAIN checks
    OBVIOUS
  <2>3. /\ checks["pods"] <=> Boundary!NoStandalonePod(stack, args)
        /\ checks["secrets"] <=> Boundary!SecretsExact(stack, args, FALSE)
        /\ checks["trust"] <=> \A k \in Boundary!Kinds : Boundary!ExactTrust(stack, args, k, FALSE)
    BY Zenon
  <2>. HIDE DEF checks
  <2>. QED
    BY <2>1, <2>2, <2>3, Passed
<1>3. ASSUME NEW k \in Boundary!Kinds
      PROVE  Boundary!Paired(stack, k) /\ Boundary!Unmanaged(stack, k) /\ Boundary!InlineSafe(stack, k)
  <2>. DEFINE checks ==
           [identities |-> Boundary!Paired(stack, k),
            iacRole |-> Boundary!Paired(stack, k) => \A r \in Boundary!Of(stack.roles, k) : ~r.iacRole,
            account |-> Boundary!Paired(stack, k) => Boundary!AccountBound(stack, args, k),
            managed |-> Boundary!Paired(stack, k) => Boundary!Unmanaged(stack, k),
            inline |-> Boundary!Paired(stack, k) => Boundary!InlineSafe(stack, k)]
  <2>1. Boundary!Identity(stack, args, k) = {}
    BY <1>1 DEF Boundary!Late
  <2>2. Boundary!Failed(checks) = {}
    BY <2>1 DEF Boundary!Identity
  <2>3. \A n \in {"identities", "managed", "inline"} : n \in DOMAIN checks
    OBVIOUS
  <2>4. /\ checks["identities"] <=> Boundary!Paired(stack, k)
        /\ checks["managed"] <=> (Boundary!Paired(stack, k) => Boundary!Unmanaged(stack, k))
        /\ checks["inline"] <=> (Boundary!Paired(stack, k) => Boundary!InlineSafe(stack, k))
    BY Zenon
  <2>. HIDE DEF checks
  <2>. QED
    BY <2>2, <2>3, <2>4, Passed
<1>4. /\ Boundary!BrokerReads(stack, args)
      /\ \A k \in Boundary!Privileged : Boundary!ExactAuthority(stack, args, k)
      /\ Boundary!ValidPlacement(args.placement)
      /\ \A k \in Boundary!Kinds :
            /\ Boundary!GroupExact(stack, args, k) /\ Boundary!WorkloadExact(stack, args, k)
            /\ Boundary!NetworkExact(stack, args, k) /\ Boundary!GroupPolicyExact(stack, args, k)
      /\ Boundary!StaysInert(stack, args) /\ Boundary!One(stack.tables)
      /\ Boundary!ReplayExact(stack, args)
      /\ Boundary!AdmissionExact(stack, args) /\ Boundary!BindingExact(stack, args)
  <2>. DEFINE checks ==
           [broker |-> Boundary!BrokerReads(stack, args), masterWrites |-> Boundary!NoMasterWrites(stack, args),
            authority |-> \A k \in Boundary!Privileged : Boundary!ExactAuthority(stack, args, k),
            paths |-> Boundary!BrokerPaths(stack, args), apart |-> Boundary!ValidPlacement(args.placement),
            groups |-> \A k \in Boundary!Kinds : Boundary!GroupExact(stack, args, k),
            workloads |-> \A k \in Boundary!Kinds : Boundary!WorkloadExact(stack, args, k),
            networks |-> \A k \in Boundary!Kinds : Boundary!NetworkExact(stack, args, k),
            groupPolicies |-> \A k \in Boundary!Kinds : Boundary!GroupPolicyExact(stack, args, k),
            inert |-> Boundary!StaysInert(stack, args), tables |-> Boundary!One(stack.tables),
            replay |-> Boundary!ReplayExact(stack, args),
            admission |-> Boundary!AdmissionExact(stack, args), bindings |-> Boundary!BindingExact(stack, args),
            values |-> stack.secretValues = {}]
  <2>. DEFINE identities == UNION {Boundary!Identity(stack, args, k) : k \in Boundary!Kinds}
  <2>a. Boundary!Late(stack, args) = identities \cup Boundary!Failed(checks)
    BY DEF Boundary!Late
  <2>b. \A s, t : s \cup t = {} => t = {}
    OBVIOUS
  <2>1. Boundary!Failed(checks) = {}
    <3>. HIDE DEF checks, identities
    <3>. QED
      BY <1>1, <2>a, <2>b
  <2>2. \A n \in {"broker", "authority", "apart", "groups", "workloads", "networks", "groupPolicies",
                  "inert", "tables", "replay", "admission", "bindings"} : n \in DOMAIN checks
    OBVIOUS
  <2>3. /\ checks["broker"] <=> Boundary!BrokerReads(stack, args)
        /\ checks["authority"] <=> \A k \in Boundary!Privileged : Boundary!ExactAuthority(stack, args, k)
        /\ checks["apart"] <=> Boundary!ValidPlacement(args.placement)
        /\ checks["groups"] <=> \A k \in Boundary!Kinds : Boundary!GroupExact(stack, args, k)
        /\ checks["workloads"] <=> \A k \in Boundary!Kinds : Boundary!WorkloadExact(stack, args, k)
        /\ checks["networks"] <=> \A k \in Boundary!Kinds : Boundary!NetworkExact(stack, args, k)
        /\ checks["groupPolicies"] <=> \A k \in Boundary!Kinds : Boundary!GroupPolicyExact(stack, args, k)
        /\ checks["inert"] <=> Boundary!StaysInert(stack, args)
        /\ checks["tables"] <=> Boundary!One(stack.tables)
        /\ checks["replay"] <=> Boundary!ReplayExact(stack, args)
        /\ checks["admission"] <=> Boundary!AdmissionExact(stack, args)
        /\ checks["bindings"] <=> Boundary!BindingExact(stack, args)
    BY Zenon
  <2>. HIDE DEF checks
  <2>. QED
    BY <2>1, <2>2, <2>3, Passed
<1>. QED
  BY <1>2, <1>3, <1>4

-----------------------------------------------------------------------------
\* The two secrets are the application's (secretsAreExact, lines of the pack).
LEMMA SecretsAre ==
    ASSUME Formed, args \in BoundaryArgs, Boundary!ValidArgs(args), NEW late \in BOOLEAN,
           Boundary!SecretsExact(stack, args, late)
    PROVE  \A x \in stack.secrets : \E n \in Boundary!AppSecretNames(args) :
              /\ x.kms = args.key
              /\ x.parent \in {p.name : p \in stack.secureSecrets}
              /\ late \/ x.arn = Boundary!Arn(args.account, n)
<1>. DEFINE m == args.secretNames[1]  n == args.secretNames[2]
<1>1. Boundary!AppSecretNames(args) = {m, n} /\ m # n
  <2>1. DOMAIN args.secretNames = {1, 2}
    BY BoundaryAssumption
  <2>2. Boundary!Distinct(args.secretNames)
    BY DEF Boundary!ValidArgs
  <2>3. m # n
    <3>1. 1 \in DOMAIN args.secretNames /\ 2 \in DOMAIN args.secretNames /\ 1 # 2
      BY <2>1
    <3>. QED
      BY <2>2, <3>1 DEF Boundary!Distinct
  <2>4. Boundary!AppSecretNames(args) = {m, n}
    BY <2>1 DEF Boundary!AppSecretNames
  <2>. QED
    BY <2>3, <2>4
<1>. HIDE DEF m, n
<1>2. IsFiniteSet(stack.secrets) /\ Cardinality(stack.secrets) = 2
  BY Cards, FormedIs DEF Finite, CountedTypes, Boundary!SecretsExact
<1>. DEFINE Is(x, z) == /\ x \in stack.secrets /\ x.name = z /\ x.kms = args.key
                        /\ x.parent \in {p.name : p \in stack.secureSecrets}
                        /\ late \/ x.arn = Boundary!Arn(args.account, z)
<1>3. \A z \in {m, n} : \E x : Is(x, z)
  BY <1>1 DEF Boundary!SecretsExact
<1>4. PICK x : Is(x, m)
  BY <1>3
<1>5. PICK y : Is(y, n)
  BY <1>3
<1>6. x # y /\ {x, y} \in SUBSET stack.secrets
  BY <1>1, <1>4, <1>5
<1>7. stack.secrets = {x, y}
  <2>1. Cardinality({x, y}) = 2
    BY <1>6, FewAre
  <2>. QED
    BY <1>2, <1>6, <2>1, AllOf
<1>. QED
  BY <1>1, <1>4, <1>5, <1>7

LEMMA SecretArns ==
    ASSUME Formed, args \in BoundaryArgs, Boundary!ValidArgs(args),
           Boundary!SecretsExact(stack, args, FALSE)
    PROVE  {x.arn : x \in stack.secrets} = Boundary!AppSecrets(args)
<1>1. \A x \in stack.secrets : x.arn \in Boundary!AppSecrets(args)
  BY SecretsAre DEF Boundary!AppSecrets
<1>2. \A n \in Boundary!AppSecretNames(args) : \E x \in stack.secrets : x.arn = Boundary!Arn(args.account, n)
  BY DEF Boundary!SecretsExact
<1>. QED
  BY <1>1, <1>2 DEF Boundary!AppSecrets

LEMMA StatementsAreFinite ==
    ASSUME Formed, NEW k \in Boundary!Kinds  PROVE IsFiniteSet(Boundary!AllowFor(stack, k))
<1>. DEFINE P == Boundary!PoliciesFor(stack, k)
            Tagged == [p \in P |-> {[policy |-> p.name, is |-> t] : t \in p.statements}]
<1>1. IsFiniteSet(P) /\ \A p \in P : IsFiniteSet(p.statements)
  <2>1. P \in SUBSET stack.policies /\ IsFiniteSet(stack.policies)
    BY FormedIs DEF Boundary!PoliciesFor, Finite, CountedTypes
  <2>. QED
    BY <2>1, FS_Subset, FormedIs DEF Named
<1>2. ASSUME NEW p \in P  PROVE IsFiniteSet(Tagged[p])
  <2>. DEFINE f == [t \in p.statements |-> [policy |-> p.name, is |-> t]]
  <2>1. IsFiniteSet({f[t] : t \in p.statements})
    BY <1>1, ImageIsFinite
  <2>2. {f[t] : t \in p.statements} = Tagged[p]
    OBVIOUS
  <2>. QED
    BY <2>1, <2>2
<1>3. IsFiniteSet({Tagged[p] : p \in P})
  BY <1>1, ImageIsFinite
<1>4. IsFiniteSet(UNION {Tagged[p] : p \in P})
  BY <1>2, <1>3, FS_UNION
<1>5. UNION {Tagged[p] : p \in P} = Boundary!StatementsFor(stack, k)
  BY DEF Boundary!StatementsFor
<1>6. Boundary!AllowFor(stack, k) \in SUBSET Boundary!StatementsFor(stack, k)
  BY DEF Boundary!AllowFor
<1>. QED
  BY <1>4, <1>5, <1>6, FS_Subset

\* Each privileged identity has exactly the statements of the table (exactAuthority), so
\* what it is granted is what it is meant to have; the runtime is granted nothing.
LEMMA Grants ==
    ASSUME Formed, args \in BoundaryArgs, Boundary!ValidArgs(args),
           NEW k \in Boundary!Kinds, Boundary!InlineSafe(stack, k),
           k \in Boundary!Privileged => Boundary!ExactAuthority(stack, args, k),
           Boundary!ReplayExact(stack, args),
           NEW u \in Boundary!AllowFor(stack, k),
           NEW action \in u.is.actions, NEW resource \in u.is.resources
    PROVE  Boundary!Intended(k, action, resource, u.is.condition)
<1>1. CASE k = "runtime"
  BY <1>1 DEF Boundary!InlineSafe, Boundary!AllowFor, Boundary!StatementsFor
<1>2. CASE k # "runtime"
  <2>. DEFINE allow == Boundary!AllowFor(stack, k)
              app == Boundary!AppSecrets(args)
              readable == Boundary!Readable(k)
              Is(t, actions, resources, condition) ==
                 /\ t \in allow /\ t.is.actions = actions
                 /\ t.is.resources = resources /\ t.is.condition = condition
  <2>1. k \in Boundary!Privileged /\ Boundary!ExactAuthority(stack, args, k)
    BY <1>2 DEF Boundary!Privileged
  <2>2. {x.arn : x \in stack.secrets} = app
    BY <2>1, SecretArns DEF Boundary!ExactAuthority
  <2>3. readable = IF k = "broker" THEN app ELSE app \cup {args.master}
    BY DEF Boundary!Readable
  <2>4. IsFiniteSet(allow)
    BY StatementsAreFinite
  <2>5. /\ \E t : Is(t, {"Decrypt"}, {args.key}, Boundary!ForSecrets(readable))
        /\ \E t : Is(t, {"GetSecretValue"}, readable, Boundary!CurrentStage)
        /\ \E t : Is(t, {"DescribeSecret"}, readable, {})
        /\ k = "rotation" =>
              /\ \E t : Is(t, {"GenerateDataKey"}, {args.key}, Boundary!ForSecrets(app))
              /\ \E t : Is(t, {"PutSecretValue", "UpdateSecretVersionStage"}, app, {})
    <3>. DEFINE Only(actions, resources, condition) ==
            \E t \in allow :
                /\ {v \in allow : v.is.actions = actions} = {t}
                /\ t.is.resources = resources /\ t.is.condition = condition
    <3>1. \A x, y, z : Only(x, y, z) => \E t : Is(t, x, y, z)
      OBVIOUS
    <3>. HIDE DEF Is
    <3>2. /\ Only({"Decrypt"}, {args.key}, Boundary!ForSecrets(readable))
          /\ Only({"GetSecretValue"}, readable, Boundary!CurrentStage)
          /\ Only({"DescribeSecret"}, readable, {})
          /\ k = "rotation" =>
                /\ Only({"GenerateDataKey"}, {args.key}, Boundary!ForSecrets(app))
                /\ Only({"PutSecretValue", "UpdateSecretVersionStage"}, app, {})
      <4>. HIDE DEF app, readable
      <4>. QED
        BY <2>1, <2>2, <2>3 DEF Boundary!ExactAuthority
    <3>. HIDE DEF Only
    <3>. QED
      BY <3>1, <3>2
  <2>6. Cardinality(allow) = CASE k = "broker" -> 4 [] k = "migrator" -> 3 [] OTHER -> 5
    BY <2>1, Cards DEF Boundary!ExactAuthority
  <2>7. PICK d : Is(d, {"Decrypt"}, {args.key}, Boundary!ForSecrets(readable))
    BY <2>5
  <2>8. PICK g : Is(g, {"GetSecretValue"}, readable, Boundary!CurrentStage)
    BY <2>5
  <2>9. PICK s : Is(s, {"DescribeSecret"}, readable, {})
    BY <2>5
  <2>10. d # g /\ s \notin {d, g} /\ {d, g, s} \in SUBSET allow
    BY <2>7, <2>8, <2>9
  <2>a. /\ \A c : c \notin {d, g} => /\ Cardinality({d, g, c}) = 3
              /\ \A e : e \notin {d, g, c} => /\ Cardinality({d, g, c, e}) = 4
                    /\ \A f : f \notin {d, g, c, e} => Cardinality({d, g, c, e, f}) = 5
    <3>1. d # g
      BY <2>10
    <3>. HIDE DEF Is, allow, readable, app
    <3>. QED
      BY <3>1, FewAre, Zenon
  <2>11. \A t \in {d, g, s} : \A a \in t.is.actions : \A r \in t.is.resources :
            Boundary!Intended(k, a, r, t.is.condition)
    <3>1. ASSUME NEW r  PROVE r \in {args.key} => Boundary!Intended(k, "Decrypt", r, Boundary!ForSecrets(readable))
      BY <2>1 DEF Boundary!Intended
    <3>2. ASSUME NEW r \in readable  PROVE Boundary!Intended(k, "GetSecretValue", r, Boundary!CurrentStage)
      BY <2>1 DEF Boundary!Intended
    <3>3. ASSUME NEW r \in readable  PROVE Boundary!Intended(k, "DescribeSecret", r, {})
      BY <2>1 DEF Boundary!Intended
    <3>. HIDE DEF readable
    <3>. QED
      BY <2>7, <2>8, <2>9, <3>1, <3>2, <3>3
  <2>12. CASE k = "migrator"
    <3>1. Cardinality(allow) = 3
      BY <2>6, <2>12
    <3>2. Cardinality({d, g, s}) = 3
      BY <2>a, <2>10
    <3>3. allow = {d, g, s}
      <4>. HIDE DEF allow
      <4>. QED
        BY <2>4, <2>10, <3>1, <3>2, AllOf
    <3>. QED
      BY <2>11, <3>3
  <2>13. CASE k = "broker"
    <3>1. Cardinality(allow) = 4
      BY <2>6, <2>13
    <3>2. PICK t \in allow : /\ t.is.actions = {"PutItem", "GetItem", "DescribeTable"}
                             /\ \E x \in stack.tables : t.is.resources = {x.arn}
                             /\ <<"StringEquals", "SourceVpce", {<<"AWS", args.vpce>>}>> \in t.is.condition
      BY <2>13 DEF Boundary!ReplayExact
    <3>3. t.is.resources = {Boundary!ReplayTable(args)}
      BY <3>2, FormedIs DEF Named
    <3>4. t \notin {d, g, s} /\ {d, g, s, t} \in SUBSET allow
      <4>1. "PutItem" \in t.is.actions /\ \A v \in {d, g, s} : "PutItem" \notin v.is.actions
        BY <2>7, <2>8, <2>9, <3>2
      <4>. QED
        BY <2>10, <4>1
    <3>5. Cardinality({d, g, s, t}) = 4
      BY <2>a, <2>10, <3>4
    <3>6. allow = {d, g, s, t}
      <4>. HIDE DEF allow
      <4>. QED
        BY <2>4, <3>1, <3>4, <3>5, AllOf
    <3>7. \A a \in t.is.actions : \A r \in t.is.resources : Boundary!Intended(k, a, r, t.is.condition)
      BY <2>13, <3>2, <3>3 DEF Boundary!Intended
    <3>. QED
      BY <2>11, <3>6, <3>7
  <2>14. CASE k = "rotation"
    <3>1. Cardinality(allow) = 5
      BY <2>6, <2>14
    <3>2. PICK w : Is(w, {"GenerateDataKey"}, {args.key}, Boundary!ForSecrets(app))
      BY <2>5, <2>14
    <3>3. PICK t : Is(t, {"PutSecretValue", "UpdateSecretVersionStage"}, app, {})
      BY <2>5, <2>14
    <3>4. w \notin {d, g, s} /\ t \notin {d, g, s, w} /\ {d, g, s, w, t} \in SUBSET allow
      <4>1. "PutSecretValue" \in t.is.actions /\ \A v \in {d, g, s, w} : "PutSecretValue" \notin v.is.actions
        BY <2>7, <2>8, <2>9, <3>2, <3>3
      <4>2. "GenerateDataKey" \in w.is.actions /\ \A v \in {d, g, s} : "GenerateDataKey" \notin v.is.actions
        BY <2>7, <2>8, <2>9, <3>2
      <4>. QED
        BY <2>10, <3>2, <3>3, <4>1, <4>2
    <3>5. Cardinality({d, g, s, w, t}) = 5
      BY <2>a, <2>10, <3>4
    <3>6. allow = {d, g, s, w, t}
      <4>. HIDE DEF allow
      <4>. QED
        BY <2>4, <3>1, <3>4, <3>5, AllOf
    <3>7. \A v \in {w, t} : \A a \in v.is.actions : \A r \in v.is.resources :
             Boundary!Intended(k, a, r, v.is.condition)
      BY <2>14, <3>2, <3>3 DEF Boundary!Intended
    <3>. QED
      BY <2>11, <3>6, <3>7
  <2>. QED
    BY <1>2, <2>12, <2>13, <2>14 DEF Boundary!Kinds
<1>. QED
  BY <1>1, <1>2

LEMMA OwnName ==
    ASSUME args \in BoundaryArgs, Boundary!ValidArgs(args),
           NEW k \in Boundary!Kinds, NEW l \in Boundary!Kinds, args.accounts[k] = args.accounts[l]
    PROVE  k = l
<1>1. Boundary!Distinct(args.accounts) /\ DOMAIN args.accounts = Boundary!Kinds
  BY BoundaryAssumption DEF Boundary!ValidArgs
<1>. QED
  BY <1>1 DEF Boundary!Distinct

\* Who may act as whom, and what each may do.
LEMMA AuthorityIsContained ==
    ASSUME Formed, args \in BoundaryArgs, Boundary!ValidArgs(args),
           \A k \in Boundary!Kinds :
              /\ Boundary!Paired(stack, k) /\ Boundary!Unmanaged(stack, k)
              /\ Boundary!InlineSafe(stack, k) /\ Boundary!ExactTrust(stack, args, k, FALSE),
           \A k \in Boundary!Privileged : Boundary!ExactAuthority(stack, args, k),
           Boundary!ReplayExact(stack, args)
    PROVE  Boundary!AuthorityContained
<1>. SUFFICES ASSUME NEW r \in stack.roles
              PROVE  /\ ~r.managed /\ \A t \in stack.attachments : t.role # r.name
                     /\ \A x \in stack.accounts :
                           (\E t \in r.trust : t.sub = <<x.namespace, x.name>>) => x.kind = r.kind
                     /\ \A p \in stack.policies : p.role = r.name => \A t \in p.statements :
                           t.effect = "Allow" =>
                              /\ ~t.except
                              /\ \A action \in t.actions : \A resource \in t.resources :
                                    Boundary!Intended(r.kind, action, resource, t.condition)
  BY DEF Boundary!AuthorityContained
<1>1. r.kind \in Boundary!Kinds /\ r \in Boundary!Of(stack.roles, r.kind)
  BY FormedIs DEF Named, Boundary!Of
<1>2. ~r.managed /\ \A t \in stack.attachments : t.role # r.name
  BY <1>1 DEF Boundary!Unmanaged
<1>3. ASSUME NEW x \in stack.accounts, NEW t \in r.trust, t.sub = <<x.namespace, x.name>>
      PROVE  x.kind = r.kind
  <2>1. PICK y : Boundary!Of(stack.accounts, r.kind) = {y}
    BY <1>1, PairOf
  <2>2. r.trust = {[federated |-> args.oidc, aud |-> "sts", sub |-> <<args.namespace, y.name>>]}
    BY <1>1, <2>1 DEF Boundary!ExactTrust
  <2>3. t = [federated |-> args.oidc, aud |-> "sts", sub |-> <<args.namespace, y.name>>]
    BY <2>2
  <2>4. t.sub = <<args.namespace, y.name>>
    BY <2>3
  <2>5. x.name = y.name
    BY <1>3, <2>4
  <2>6. y \in stack.accounts /\ y.kind = r.kind
    BY <2>1 DEF Boundary!Of
  <2>7. /\ x.kind \in Boundary!Kinds /\ x.name = args.accounts[x.kind]
        /\ y.name = args.accounts[y.kind]
    BY <2>6, FormedIs DEF Named
  <2>. QED
    BY <1>1, <2>5, <2>6, <2>7, OwnName
<1>4. ASSUME NEW p \in stack.policies, p.role = r.name, NEW t \in p.statements, t.effect = "Allow"
      PROVE  /\ ~t.except
             /\ \A action \in t.actions : \A resource \in t.resources :
                   Boundary!Intended(r.kind, action, resource, t.condition)
  <2>. DEFINE k == r.kind  u == [policy |-> p.name, is |-> t]
  <2>1. p \in Boundary!PoliciesFor(stack, k)
    BY <1>1, <1>4 DEF Boundary!PoliciesFor
  <2>2. u \in Boundary!StatementsFor(stack, k)
    BY <2>1, <1>4 DEF Boundary!StatementsFor
  <2>3. u.is = t
    OBVIOUS
  <2>. HIDE DEF u
  <2>4. u \in Boundary!AllowFor(stack, k)
    BY <1>4, <2>2, <2>3 DEF Boundary!AllowFor
  <2>5. ~t.except
    BY <1>1, <2>2, <2>3 DEF Boundary!InlineSafe
  <2>6. ASSUME NEW action \in t.actions, NEW resource \in t.resources
        PROVE  Boundary!Intended(k, action, resource, t.condition)
    <3>1. k \in Boundary!Kinds
      BY <1>1
    <3>. HIDE DEF k
    <3>. QED
      BY <2>3, <2>4, <3>1, Grants
  <2>. QED
    BY <2>5, <2>6
<1>. QED
  BY <1>2, <1>3, <1>4

\* Where a kind's packets may go, and come from.
LEMMA FlowsAreContained ==
    ASSUME Formed, args \in BoundaryArgs,
           \A k \in Boundary!Kinds :
              /\ Boundary!GroupExact(stack, args, k) /\ Boundary!GroupPolicyExact(stack, args, k)
              /\ Boundary!NetworkExact(stack, args, k)
    PROVE  Boundary!FlowsContained
<1>1. ASSUME NEW k \in Boundary!Kinds
      PROVE  /\ Boundary!One(Boundary!Of(stack.groups, k))
             /\ Boundary!Ids(stack, k) = {Boundary!SgOf[k]}
             /\ \A g \in Boundary!Of(stack.groups, k) : ~g.inline
             /\ ~\E r \in stack.legacyRules : r.group \in Boundary!Ids(stack, k)
             /\ ~Boundary!EgressOutside(stack, args, k)
             /\ \A r \in stack.ingress : r.to \in Boundary!Ids(stack, k) => Boundary!AllowedIngress(stack, args, k, r)
  <2>1. Boundary!One(Boundary!Of(stack.groups, k))
    BY DEF Boundary!GroupPolicyExact
  <2>2. IsFiniteSet(Boundary!Of(stack.groups, k))
    <3>1. IsFiniteSet(stack.groups) /\ Boundary!Of(stack.groups, k) \in SUBSET stack.groups
      BY FormedIs DEF Finite, CountedTypes, Boundary!Of
    <3>. QED
      BY <3>1, FS_Subset
  <2>3. PICK g : Boundary!Of(stack.groups, k) = {g}
    BY <2>1, <2>2, OneIs
  <2>4. g \in stack.groups /\ g.kind = k
    BY <2>3 DEF Boundary!Of
  <2>5. g.id = Boundary!SgOf[k]
    BY <2>4, FormedIs DEF Named
  <2>6. Boundary!Ids(stack, k) = {Boundary!SgOf[k]}
    BY <2>3, <2>5 DEF Boundary!Ids
  <2>. QED
    BY <2>1, <2>6 DEF Boundary!GroupExact
<1>2. \A k, l \in Boundary!Kinds : Boundary!SgOf[k] = Boundary!SgOf[l] => k = l
  BY DEF Boundary!SgOf, Boundary!Kinds
<1>3. "runtime" \in Boundary!Kinds /\ "broker" \in Boundary!Kinds
  BY DEF Boundary!Kinds
<1>4. ASSUME NEW k \in Boundary!Kinds, NEW r \in stack.egress, r.from = Boundary!SgOf[k]
      PROVE  r.to \in Boundary!Dependencies(k) \cup
                      IF r.port = 53 THEN args.resolvers \cup {args.dnsSg} ELSE {}
  <2>1. Boundary!AllowedTarget(stack, args, k, r)
    BY <1>1, <1>4 DEF Boundary!EgressOutside, Boundary!From
  <2>2. Boundary!Ids(stack, "broker") = {Boundary!SgOf["broker"]}
    BY <1>1, <1>3
  <2>3. CASE k = "runtime"
    <3>1. Boundary!EndpointTargets(k) = {}
      BY <2>3 DEF Boundary!EndpointTargets
    <3>2. CASE r.to \in Boundary!Ids(stack, "broker")
      BY <2>2, <2>3, <3>2 DEF Boundary!Dependencies
    <3>3. CASE r.to \notin Boundary!Ids(stack, "broker")
      BY <2>1, <2>3, <3>1, <3>3 DEF Boundary!AllowedTarget
    <3>. QED
      BY <3>2, <3>3
  <2>4. CASE k # "runtime"
    <3>1. Boundary!EndpointTargets(k) \subseteq DOMAIN args.endpoints
      <4>1. {"secretsManager", "kms", "dynamodb"} \subseteq DOMAIN args.endpoints
        BY BoundaryAssumption
      <4>. QED
        BY <2>4, <4>1 DEF Boundary!EndpointTargets
    <3>2. {args.endpoints[e] : e \in Boundary!EndpointTargets(k)} \subseteq Boundary!Endpoints
      BY <3>1 DEF Boundary!Endpoints
    <3>3. Boundary!Dependencies(k) = {args.database.sg} \cup Boundary!Endpoints
      BY <2>4 DEF Boundary!Dependencies
    <3>. QED
      BY <2>1, <2>4, <3>2, <3>3 DEF Boundary!AllowedTarget
  <2>. QED
    BY <2>3, <2>4
<1>5. ASSUME NEW k \in Boundary!Kinds, NEW r \in stack.ingress, r.to = Boundary!SgOf[k]
      PROVE  r.from = (CASE k = "broker" -> Boundary!SgOf["runtime"] [] k = "runtime" -> args.caller
                         [] OTHER -> Boundary!Undefined)
  <2>1. Boundary!AllowedIngress(stack, args, k, r)
    BY <1>1, <1>5
  <2>2. Boundary!Ids(stack, "runtime") = {Boundary!SgOf["runtime"]}
    BY <1>1, <1>3
  <2>. QED
    BY <2>1, <2>2 DEF Boundary!AllowedIngress
<1>6. ASSUME NEW k \in Boundary!Kinds, NEW g \in stack.groups, g.id = Boundary!SgOf[k]
      PROVE  ~g.inline
  <2>1. g.kind \in Boundary!Kinds /\ Boundary!SgOf[g.kind] = Boundary!SgOf[k]
    BY <1>6, FormedIs DEF Named
  <2>2. g.kind = k
    BY <1>2, <2>1
  <2>3. g \in Boundary!Of(stack.groups, k)
    BY <2>2 DEF Boundary!Of
  <2>. QED
    BY <1>1, <2>3
<1>7. ASSUME NEW k \in Boundary!Kinds, NEW r \in stack.legacyRules  PROVE r.group # Boundary!SgOf[k]
  BY <1>1
<1>8. ASSUME NEW k \in Boundary!Kinds, NEW p \in stack.networkPolicies,
             p.namespace = args.namespace /\ p.selector.labels \subseteq Boundary!PodLabels(k),
             \A e \in p.selector.expressions : Boundary!Matches(e, Boundary!PodLabels(k))
      PROVE  UNION {x.peers : x \in p.egress} \subseteq Boundary!Peers(k)
  <2>1. p = Boundary!ExpectedNetworkPolicy(args, k)
    BY <1>8 DEF Boundary!NetworkExact, Boundary!Selects
  <2>. DEFINE dns == {<<"UDP", 53>>, <<"TCP", 53>>}
              r1 == [peers |-> {"dns pods"}, ports |-> dns]
              r2 == [peers |-> args.resolvers, ports |-> dns]
              r3 == [peers |-> {"broker pods"}, ports |-> {<<"TCP", args.port.broker>>}]
              r4 == [peers |-> args.database.cidrs, ports |-> {<<"TCP", args.database.port>>}]
              r5 == [peers |-> args.endpointCidrs, ports |-> {<<"TCP", 443>>}]
              out == {r1, r2} \cup IF k = "runtime" THEN {r3} ELSE {r4, r5}
  <2>2. p.egress = out
    BY <2>1 DEF Boundary!ExpectedNetworkPolicy
  <2>3. \A x \in out : x.peers \subseteq Boundary!Peers(k)
    <3>1. {"dns pods"} \subseteq Boundary!Peers(k) /\ args.resolvers \subseteq Boundary!Peers(k)
      BY DEF Boundary!Peers
    <3>2. k = "runtime" => {"broker pods"} \subseteq Boundary!Peers(k)
      BY DEF Boundary!Peers
    <3>3. k # "runtime" => /\ args.database.cidrs \subseteq Boundary!Peers(k)
                           /\ args.endpointCidrs \subseteq Boundary!Peers(k)
      BY DEF Boundary!Peers
    <3>5. /\ r1.peers = {"dns pods"} /\ r2.peers = args.resolvers /\ r3.peers = {"broker pods"}
          /\ r4.peers = args.database.cidrs /\ r5.peers = args.endpointCidrs
      OBVIOUS
    <3>. HIDE DEF r1, r2, r3, r4, r5
    <3>4. \A x \in out : \/ x.peers = {"dns pods"} \/ x.peers = args.resolvers
                         \/ k = "runtime" /\ x.peers = {"broker pods"}
                         \/ k # "runtime" /\ x.peers \in {args.database.cidrs, args.endpointCidrs}
      BY <3>5
    <3>. HIDE DEF out
    <3>. QED
      BY <3>1, <3>2, <3>3, <3>4
  <2>. HIDE DEF out
  <2>. QED
    BY <2>2, <2>3
<1>. QED
  BY <1>4, <1>5, <1>6, <1>7, <1>8 DEF Boundary!FlowsContained

\* Nothing of the boundary runs, and its gate holds.
LEMMA NothingIsRun ==
    ASSUME Formed, args \in BoundaryArgs,
           \A k \in Boundary!Kinds : Boundary!Paired(stack, k) /\ Boundary!WorkloadExact(stack, args, k),
           Boundary!NoStandalonePod(stack, args), Boundary!ValidPlacement(args.placement),
           Boundary!StaysInert(stack, args),
           Boundary!AdmissionExact(stack, args), Boundary!BindingExact(stack, args)
    PROVE  Boundary!NothingRuns
<1>1. \A w \in stack.workloads : w.kind \in Boundary!Kinds /\ w \in Boundary!Of(stack.workloads, w.kind)
  BY FormedIs DEF Named, Boundary!Of
<1>2. \A w \in stack.workloads : w.inert
  BY <1>1 DEF Boundary!StaysInert
<1>3. ASSUME NEW p \in stack.pods, p.namespace = args.namespace, NEW k \in Boundary!Kinds
      PROVE  p.account # args.accounts[k]
  <2>1. PICK x : Boundary!Of(stack.accounts, k) = {x}
    BY PairOf
  <2>2. x \in stack.accounts /\ x.kind = k
    BY <2>1 DEF Boundary!Of
  <2>3. x.name = args.accounts[k]
    BY <2>2, FormedIs DEF Named
  <2>. QED
    BY <1>3, <2>2, <2>3 DEF Boundary!NoStandalonePod
<1>4. \E p \in stack.admission, b \in stack.bindings :
          /\ p.failurePolicy = "Fail" /\ "deny" \in p.validations /\ ~p.widened
          /\ b.policy = p.name /\ b.namespace = args.namespace /\ b.actions = {"Deny"}
  <2>1. PICK p \in stack.admission : /\ p.failurePolicy = "Fail" /\ ~p.widened
                                     /\ p.validations = {"envelope", "restricted", "sources", "deny"}
    BY DEF Boundary!AdmissionExact
  <2>2. PICK b \in stack.bindings : /\ b.policy = p.name
                                    /\ b.namespace = args.namespace /\ b.actions = {"Deny"}
    BY DEF Boundary!BindingExact
  <2>. QED
    BY <2>1, <2>2
<1>5. ASSUME NEW w \in stack.workloads, NEW x \in stack.workloads, w.kind = "runtime", x.kind # "runtime"
      PROVE  w.placement.pool # x.placement.pool
  <2>1. \A y \in stack.workloads :
           y.placement = IF y.kind = "runtime" THEN args.placement.runtime ELSE args.placement.privileged
    BY <1>1 DEF Boundary!WorkloadExact
  <2>2. w.placement = args.placement.runtime /\ x.placement = args.placement.privileged
    BY <1>5, <2>1
  <2>. QED
    BY <2>2 DEF Boundary!ValidPlacement
<1>. QED
  BY <1>2, <1>3, <1>4, <1>5 DEF Boundary!NothingRuns

\* What the mandatory pack (validateBoundary) reports nothing of is contained, whatever the
\* resources look like that it was given.
THEOREM ReviewContains ==
    ASSUME Formed, args \in BoundaryArgs, Boundary!ValidArgs(args),
           Boundary!Report(stack, args, FALSE) = {}
    PROVE  Boundary!AuthorityContained /\ Boundary!FlowsContained /\ Boundary!NothingRuns
BY NothingReported, AuthorityIsContained, FlowsAreContained, NothingIsRun

-----------------------------------------------------------------------------
\* Kinds without a role and an account of their own.
Broken == {k \in Boundary!Kinds : ~Boundary!Paired(stack, k)}

LEMMA KindsAre ==
    /\ IsFiniteSet(Boundary!Kinds) /\ Cardinality(Boundary!Kinds) = 4
    /\ IsFiniteSet(Broken) /\ Cardinality(Broken) \in 0..4
    /\ Cardinality(Broken) <= 3 => \E k \in Boundary!Kinds : Boundary!Paired(stack, k)
<1>. DEFINE a == "runtime"  b == "broker"  c == "migrator"  d == "rotation"
<1>1. Boundary!Kinds = {a, b, c, d} /\ a # b /\ c \notin {a, b} /\ d \notin {a, b, c}
  BY DEF Boundary!Kinds
<1>. HIDE DEF a, b, c, d
<1>2. Cardinality(Boundary!Kinds) = 4
  BY <1>1, FourAre
<1>3. IsFiniteSet(Boundary!Kinds)
  <2>1. IsFiniteSet({a})
    BY FS_Singleton
  <2>2. IsFiniteSet({a} \cup {b})
    BY <2>1, FS_AddElement
  <2>3. IsFiniteSet(({a} \cup {b}) \cup {c})
    BY <2>2, FS_AddElement
  <2>4. IsFiniteSet((({a} \cup {b}) \cup {c}) \cup {d})
    BY <2>3, FS_AddElement
  <2>5. Boundary!Kinds = (({a} \cup {b}) \cup {c}) \cup {d}
    BY <1>1
  <2>. QED
    BY <2>4, <2>5
<1>4. Broken \in SUBSET Boundary!Kinds
  BY DEF Broken
<1>5. IsFiniteSet(Broken) /\ Cardinality(Broken) <= 4
  BY <1>2, <1>3, <1>4, FS_Subset
<1>6. Cardinality(Broken) \in Nat
  BY <1>5, FS_CardinalityType
<1>7. Cardinality(Broken) <= 3 => Broken # Boundary!Kinds
  BY <1>2
<1>. QED
  BY <1>2, <1>3, <1>5, <1>6, <1>7 DEF Broken

\* A resource more, a resource less: what it is known by is kept, and no more than one
\* kind loses its role or its account.
LEMMA Edited ==
    ASSUME Formed, NEW f \in Boundary!Types, NEW X, NEW Y, NEW j,
           IsFiniteSet(Y), \A y \in Y : Fine(f, y),
           f \in {"roles", "accounts"} => \A y \in Y \cup (X \cap stack[f]) : y.kind = j,
           stack' = [stack EXCEPT ![f] = (@ \ X) \cup Y], args' = args
    PROVE  Formed' /\ Broken' \subseteq Broken \cup {j}
<1>. DEFINE S == (stack[f] \ X) \cup Y
<1>1. DOMAIN stack = Boundary!Types
  BY DEF Formed
<1>2. /\ stack' = [g \in Boundary!Types |-> stack'[g]]
      /\ stack'[f] = S /\ \A g \in Boundary!Types \ {f} : stack'[g] = stack[g]
  BY <1>1
<1>3. f \in CountedTypes => IsFiniteSet(S)
  <2>1. ASSUME f \in CountedTypes  PROVE IsFiniteSet(S)
    <3>1. IsFiniteSet(stack[f])
      BY <2>1 DEF Formed
    <3>2. stack[f] \ X \in SUBSET stack[f]
      OBVIOUS
    <3>3. IsFiniteSet(stack[f] \ X)
      BY <3>1, <3>2, FS_Subset
    <3>. QED
      BY <3>3, FS_Union
  <2>. QED
    BY <2>1
<1>4. \A x \in S : Fine(f, x)
  BY DEF Formed
<1>5. \A g \in CountedTypes : IsFiniteSet(stack'[g])
  <2>1. CountedTypes \subseteq Boundary!Types
    BY DEF CountedTypes, Boundary!Types
  <2>2. \A g \in CountedTypes : IsFiniteSet(stack[g])
    BY DEF Formed
  <2>. HIDE DEF S
  <2>. QED
    BY <1>2, <1>3, <2>1, <2>2
<1>6. \A g \in Boundary!Types : \A x \in stack'[g] : Fine(g, x)
  <2>1. \A g \in Boundary!Types : \A x \in stack[g] : Fine(g, x)
    BY DEF Formed
  <2>. HIDE DEF S
  <2>. QED
    BY <1>2, <1>4, <2>1
<1>7. \A g, x : Fine(g, x)' <=> Fine(g, x)
  BY DEF Fine
<1>8. Formed'
  BY <1>2, <1>5, <1>6, <1>7 DEF Formed
<1>9. ASSUME NEW k \in Boundary!Kinds, k # j
      PROVE  /\ Boundary!Of(stack'.roles, k) = Boundary!Of(stack.roles, k)
             /\ Boundary!Of(stack'.accounts, k) = Boundary!Of(stack.accounts, k)
  <2>1. ASSUME NEW g \in {"roles", "accounts"}
        PROVE  Boundary!Of(stack'[g], k) = Boundary!Of(stack[g], k)
    <3>1. CASE g = f
      <4>1. \A y \in Y \cup (X \cap stack[f]) : y.kind # k
        BY <1>9, <3>1
      <4>2. stack'[g] = (stack[f] \ X) \cup Y
        BY <1>2, <3>1
      <4>. QED
        BY <3>1, <4>1, <4>2 DEF Boundary!Of
    <3>2. CASE g # f
      <4>1. g \in Boundary!Types
        BY DEF Boundary!Types
      <4>. QED
        BY <1>2, <3>2, <4>1
    <3>. QED
      BY <3>1, <3>2
  <2>. QED
    BY <2>1
<1>10. \A k \in Boundary!Kinds : k # j => (Boundary!Paired(stack', k) <=> Boundary!Paired(stack, k))
  BY <1>9 DEF Boundary!Paired
<1>. QED
  BY <1>8, <1>10 DEF Broken

-----------------------------------------------------------------------------
\* What other code adds or alters to is known by what the pack knows it by.
LEMMA AddedIsFine ==
    ASSUME NEW f \in DOMAIN Boundary!Additions, NEW x \in Boundary!Additions[f]
    PROVE  f \in Boundary!Types /\ Fine(f, x) /\ (f \in {"roles", "accounts"} => x.kind = "broker")
<1>1. f \in {"policies", "egress", "ingress", "networkPolicies", "attachments", "legacyRules", "pods",
             "roles", "secretValues"}
  BY DEF Boundary!Additions
<1>2. CASE f = "policies"
  <2>1. PICK k \in Boundary!Kinds \ {"migrator"} :
           x \in {[name |-> Boundary!Other, role |-> args.roles[k], statements |-> {t}] :
                     t \in Boundary!Foreign(args, k)}
    BY <1>2 DEF Boundary!Additions
  <2>2. PICK t \in Boundary!Foreign(args, k) :
           x = [name |-> Boundary!Other, role |-> args.roles[k], statements |-> {t}]
    BY <2>1
  <2>3. "statements" \in DOMAIN x /\ x.statements = {t}
    BY <2>2
  <2>4. IsFiniteSet({t})
    BY FS_Singleton
  <2>. QED
    BY <1>2, <2>3, <2>4 DEF Fine, Boundary!Types
<1>3. CASE f = "roles"
  <2>1. x.kind = "broker" /\ "kind" \in DOMAIN x
    BY <1>3 DEF Boundary!Additions
  <2>. QED
    BY <1>3, <2>1 DEF Fine, Boundary!Types, Boundary!Kinds
<1>4. CASE f \notin {"policies", "roles"}
  BY <1>1, <1>4 DEF Fine, Boundary!Types
<1>. QED
  BY <1>2, <1>3, <1>4

LEMMA AlteredIsFine ==
    ASSUME NEW f \in Boundary!Types, NEW x, Fine(f, x), NEW y \in Boundary!Alterations(f, x)
    PROVE  Fine(f, y) /\ (f \in {"roles", "accounts"} => y.kind = x.kind)
<1>1. CASE f = "roles"
  <2>1. "kind" \in DOMAIN x /\ x.kind \in Boundary!Kinds
    BY <1>1 DEF Fine
  <2>2. y \in {[x EXCEPT !.managed = TRUE], [x EXCEPT !.iacRole = TRUE]} \cup
            {[x EXCEPT !.known = FALSE, !.trust = {Boundary!Trust(args, "runtime")}]} \cup
            {[x EXCEPT !.trust = t] :
                t \in {{Boundary!Trust(args, "runtime")},
                       {Boundary!Trust(args, "broker"), Boundary!Trust(args, "runtime")}}}
    BY <1>1 DEF Boundary!Alterations
  <2>3. "kind" \in DOMAIN y /\ y.kind = x.kind
    BY <2>1, <2>2
  <2>. QED
    BY <1>1, <2>1, <2>3 DEF Fine
<1>2. CASE f = "accounts"
  <2>1. /\ {"kind", "name"} \subseteq DOMAIN x
        /\ x.kind \in Boundary!Kinds /\ x.name = args.accounts[x.kind]
    BY <1>2 DEF Fine
  <2>2. y \in {[x EXCEPT !.automount = TRUE], [x EXCEPT !.role = Boundary!Arn(args.account, Boundary!Other)],
               [x EXCEPT !.namespace = Boundary!Other]}
    BY <1>2 DEF Boundary!Alterations
  <2>3. {"kind", "name"} \subseteq DOMAIN y /\ y.kind = x.kind /\ y.name = x.name
    BY <2>1, <2>2
  <2>. QED
    BY <1>2, <2>1, <2>3 DEF Fine
<1>3. CASE f = "groups"
  <2>1. y = [x EXCEPT !.inline = TRUE]
    BY <1>3 DEF Boundary!Alterations
  <2>2. {"kind", "id"} \subseteq DOMAIN x
    BY <1>3 DEF Fine
  <2>3. {"kind", "id"} \subseteq DOMAIN y /\ y.kind = x.kind /\ y.id = x.id
    BY <2>1, <2>2
  <2>. QED
    BY <1>3, <2>3 DEF Fine
<1>4. CASE f = "tables"
  <2>1. y \in {[x EXCEPT !.kms = Boundary!Arn(args.account, Boundary!Other)], [x EXCEPT !.ttl = Boundary!Other]}
    BY <1>4 DEF Boundary!Alterations
  <2>2. "arn" \in DOMAIN x
    BY <1>4 DEF Fine
  <2>3. "arn" \in DOMAIN y /\ y.arn = x.arn
    BY <2>1, <2>2
  <2>. QED
    BY <1>4, <2>3 DEF Fine
<1>5. CASE f = "workloads"
  <2>1. \/ y \in {[x EXCEPT !.inert = FALSE], [x EXCEPT !.account = Boundary!Other],
                  [x EXCEPT !.departs = {"host"}], [x EXCEPT !.departs = {"volumes"}]}
        \/ \E p : y = [x EXCEPT !.placement = p]
    BY <1>5 DEF Boundary!Alterations
  <2>2. "kind" \in DOMAIN x
    BY <1>5 DEF Fine
  <2>3. "kind" \in DOMAIN y /\ y.kind = x.kind
    BY <2>1, <2>2
  <2>. QED
    BY <1>5, <2>3 DEF Fine
<1>6. CASE f = "policies"
  <2>1. "statements" \in DOMAIN x /\ IsFiniteSet(x.statements)
    BY <1>6 DEF Fine
  <2>2. PICK t \in x.statements :
           y \in {[x EXCEPT !.statements = @ \ {t}],
                  [x EXCEPT !.statements = (@ \ {t}) \cup {[t EXCEPT !.condition = {}]}],
                  [x EXCEPT !.statements = (@ \ {t}) \cup {[t EXCEPT !.resources = @ \cup {args.master}]}]}
    BY <1>6 DEF Boundary!Alterations
  <2>. DEFINE R == x.statements \ {t}
  <2>3. IsFiniteSet(R)
    <3>1. R \in SUBSET x.statements
      OBVIOUS
    <3>. QED
      BY <2>1, <3>1, FS_Subset
  <2>4. "statements" \in DOMAIN y /\ (y.statements = R \/ \E u : y.statements = R \cup {u})
    BY <2>1, <2>2
  <2>. HIDE DEF R
  <2>5. IsFiniteSet(y.statements)
    BY <2>3, <2>4, FS_AddElement
  <2>. QED
    BY <1>6, <2>4, <2>5 DEF Fine
<1>7. CASE f \notin {"roles", "accounts", "groups", "tables", "workloads", "policies"}
  BY <1>7 DEF Fine
<1>. QED
  BY <1>1, <1>2, <1>3, <1>4, <1>5, <1>6, <1>7

-----------------------------------------------------------------------------
\* Each role policy has finitely many statements, and there are four or five.
LEMMA PoliciesAreFinite ==
    /\ IsFiniteSet(Boundary!RolePolicies(args))
    /\ \A p \in Boundary!RolePolicies(args) : "statements" \in DOMAIN p /\ IsFiniteSet(p.statements)
<1>. DEFINE app == Boundary!AppSecrets(args)
            both == app \cup {args.master}
            s1 == Boundary!Reads(app, args.key)
            s2 == Boundary!Reads(both, args.key)
            s3 == Boundary!RotationStatements(args)
            s4 == Boundary!ReplayStatements(args)
            s5 == Boundary!TransportTlsStatements(args)
            p1 == [name |-> "broker", role |-> args.roles.broker, statements |-> s1]
            p2 == [name |-> "migrator", role |-> args.roles.migrator, statements |-> s2]
            p3 == [name |-> "rotation", role |-> args.roles.rotation, statements |-> s3]
            p4 == [name |-> "replay", role |-> args.roles.broker, statements |-> s4]
            p5 == [name |-> "tls", role |-> args.roles.broker, statements |-> s5]
<1>1. \A secrets, key : IsFiniteSet(Boundary!Reads(secrets, key))
  BY FewAreFinite DEF Boundary!Reads
<1>2. IsFiniteSet(s1) /\ IsFiniteSet(s2)
  BY <1>1
<1>3. IsFiniteSet(s3)
  <2>. DEFINE more == {Boundary!Allow({"PutSecretValue", "UpdateSecretVersionStage"}, app, {}),
                       Boundary!Allow({"GenerateDataKey"}, {args.key}, Boundary!ForSecrets(app))}
  <2>1. IsFiniteSet(more)
    BY FewAreFinite
  <2>2. s3 = s2 \cup more
    BY DEF Boundary!RotationStatements
  <2>. HIDE DEF more, s2, s3
  <2>. QED
    BY <1>2, <2>1, <2>2, FS_Union
<1>4. IsFiniteSet(s4)
  BY FewAreFinite DEF Boundary!ReplayStatements
<1>5. IsFiniteSet(s5)
  BY FewAreFinite DEF Boundary!TransportTlsStatements
<1>6. Boundary!RolePolicies(args) = {p1, p2, p3, p4} \cup IF args.tls = Boundary!NoTls THEN {} ELSE {p5}
  BY DEF Boundary!RolePolicies
<1>7. /\ p1.statements = s1 /\ p2.statements = s2 /\ p3.statements = s3
      /\ p4.statements = s4 /\ p5.statements = s5
      /\ \A p \in {p1, p2, p3, p4, p5} : "statements" \in DOMAIN p
  OBVIOUS
<1>. HIDE DEF p1, p2, p3, p4, p5, s1, s2, s3, s4, s5
<1>8. IsFiniteSet({p1, p2, p3, p4})
  BY FewAreFinite
<1>9. IsFiniteSet(Boundary!RolePolicies(args))
  <2>1. CASE args.tls = Boundary!NoTls
    <3>1. Boundary!RolePolicies(args) = {p1, p2, p3, p4}
      BY <1>6, <2>1
    <3>. QED
      BY <1>8, <3>1
  <2>2. CASE args.tls # Boundary!NoTls
    <3>. DEFINE S == {p1, p2, p3, p4}
    <3>1. Boundary!RolePolicies(args) = S \cup {p5}
      BY <1>6, <2>2
    <3>2. IsFiniteSet(S)
      BY <1>8
    <3>. HIDE DEF S
    <3>. QED
      BY <3>1, <3>2, FS_AddElement
  <2>. QED
    BY <2>1, <2>2
<1>. QED
  BY <1>2, <1>3, <1>4, <1>5, <1>6, <1>7, <1>9

\* What the constructor declares is known by its kinds and names, each kind with a role and
\* an account of its own.
LEMMA DeclaredIsFormed ==
    ASSUME args \in BoundaryArgs, stack' = Boundary!Boundary(args), args' = args
    PROVE  Formed' /\ Broken' = {}
<1>. DEFINE role(k) == [kind |-> k, name |-> args.roles[k], arn |-> Boundary!Arn(args.account, args.roles[k]),
                        trust |-> {Boundary!Trust(args, k)}, known |-> TRUE, iacRole |-> FALSE,
                        managed |-> FALSE]
            account(k) == [kind |-> k, name |-> args.accounts[k], namespace |-> args.namespace,
                           automount |-> FALSE, role |-> Boundary!Arn(args.account, args.roles[k]),
                           regionalSts |-> TRUE]
            group(k) == [kind |-> k, id |-> Boundary!SgOf[k], inline |-> FALSE]
            workload(k) == [kind |-> k, inert |-> TRUE, account |-> args.accounts[k],
                            placement |-> Boundary!Placement(args, k), departs |-> {}]
            login(n) == [name |-> n, parent |-> n, kms |-> args.key, arn |-> Boundary!Arn(args.account, n)]
            parent(n) == [name |-> n, arn |-> Boundary!Arn(args.account, n)]
            table == [arn |-> Boundary!ReplayTable(args), ttl |-> "expiresAt", encrypted |-> TRUE,
                      kms |-> args.key]
            names == Boundary!AppSecretNames(args)
<1>1. /\ stack' = [f \in Boundary!Types |-> stack'[f]]
      /\ stack'["roles"] = {role(k) : k \in Boundary!Kinds}
      /\ stack'["accounts"] = {account(k) : k \in Boundary!Kinds}
      /\ stack'["groups"] = {group(k) : k \in Boundary!Kinds}
      /\ stack'["workloads"] = {workload(k) : k \in Boundary!Kinds}
      /\ stack'["secrets"] = {login(n) : n \in names}
      /\ stack'["secureSecrets"] = {parent(n) : n \in names}
      /\ stack'["tables"] = {table}
      /\ stack'["policies"] = Boundary!RolePolicies(args)
  <2>1. stack' = [f \in Boundary!Types |-> stack'[f]]
    BY DEF Boundary!Boundary, Boundary!Types
  <2>2. /\ stack'["roles"] = Boundary!Roles(args) /\ stack'["accounts"] = Boundary!ServiceAccounts(args)
        /\ stack'["groups"] = Boundary!SecurityGroups /\ stack'["workloads"] = Boundary!Workloads(args)
        /\ stack'["secrets"] = Boundary!Secrets(args)
        /\ stack'["secureSecrets"] = Boundary!SecureSecrets(args)
        /\ stack'["tables"] = Boundary!ReplayTables(args)
        /\ stack'["policies"] = Boundary!RolePolicies(args)
    BY DEF Boundary!Boundary
  <2>. QED
    BY <2>1, <2>2 DEF Boundary!Roles, Boundary!ServiceAccounts, Boundary!SecurityGroups,
       Boundary!Workloads, Boundary!Secrets, Boundary!SecureSecrets, Boundary!ReplayTables
<1>2. \A k \in Boundary!Kinds :
         /\ role(k).kind = k /\ "kind" \in DOMAIN role(k)
         /\ account(k).kind = k /\ account(k).name = args.accounts[k]
         /\ {"kind", "name"} \subseteq DOMAIN account(k)
         /\ group(k).kind = k /\ group(k).id = Boundary!SgOf[k] /\ {"kind", "id"} \subseteq DOMAIN group(k)
         /\ workload(k).kind = k /\ "kind" \in DOMAIN workload(k)
  OBVIOUS
<1>3. "arn" \in DOMAIN table /\ table.arn = Boundary!ReplayTable(args)
  OBVIOUS
<1>4. IsFiniteSet(names)
  <2>. DEFINE f == [i \in {1, 2} |-> args.secretNames[i]]
  <2>1. DOMAIN args.secretNames = {1, 2}
    BY BoundaryAssumption
  <2>2. IsFiniteSet({1, 2})
    BY FewAreFinite
  <2>3. IsFiniteSet({f[i] : i \in {1, 2}})
    BY <2>2, ImageIsFinite
  <2>4. names = {f[i] : i \in {1, 2}}
    BY <2>1 DEF Boundary!AppSecretNames
  <2>. QED
    BY <2>3, <2>4
<1>5. /\ IsFiniteSet({role(k) : k \in Boundary!Kinds}) /\ IsFiniteSet({account(k) : k \in Boundary!Kinds})
      /\ IsFiniteSet({group(k) : k \in Boundary!Kinds}) /\ IsFiniteSet({workload(k) : k \in Boundary!Kinds})
      /\ IsFiniteSet({login(n) : n \in names}) /\ IsFiniteSet({parent(n) : n \in names})
      /\ IsFiniteSet({table})
  <2>. DEFINE f1 == [k \in Boundary!Kinds |-> role(k)]  f2 == [k \in Boundary!Kinds |-> account(k)]
              f3 == [k \in Boundary!Kinds |-> group(k)]  f4 == [k \in Boundary!Kinds |-> workload(k)]
              f5 == [n \in names |-> login(n)]  f6 == [n \in names |-> parent(n)]
  <2>. HIDE DEF role, account, group, workload, login, parent, table, names
  <2>1. /\ {role(k) : k \in Boundary!Kinds} = {f1[k] : k \in Boundary!Kinds}
        /\ {account(k) : k \in Boundary!Kinds} = {f2[k] : k \in Boundary!Kinds}
        /\ {group(k) : k \in Boundary!Kinds} = {f3[k] : k \in Boundary!Kinds}
        /\ {workload(k) : k \in Boundary!Kinds} = {f4[k] : k \in Boundary!Kinds}
        /\ {login(n) : n \in names} = {f5[n] : n \in names}
        /\ {parent(n) : n \in names} = {f6[n] : n \in names}
    OBVIOUS
  <2>2. IsFiniteSet(Boundary!Kinds)
    BY KindsAre
  <2>3. IsFiniteSet({f1[k] : k \in Boundary!Kinds})
    BY <2>2, ImageIsFinite
  <2>4. IsFiniteSet({f2[k] : k \in Boundary!Kinds})
    BY <2>2, ImageIsFinite
  <2>5. IsFiniteSet({f3[k] : k \in Boundary!Kinds})
    BY <2>2, ImageIsFinite
  <2>6. IsFiniteSet({f4[k] : k \in Boundary!Kinds})
    BY <2>2, ImageIsFinite
  <2>7. IsFiniteSet({f5[n] : n \in names})
    BY <1>4, ImageIsFinite
  <2>8. IsFiniteSet({f6[n] : n \in names})
    BY <1>4, ImageIsFinite
  <2>9. IsFiniteSet({table})
    BY FewAreFinite
  <2>. HIDE DEF f1, f2, f3, f4, f5, f6
  <2>. QED
    BY <2>1, <2>3, <2>4, <2>5, <2>6, <2>7, <2>8, <2>9
<1>. HIDE DEF role, account, group, workload, login, parent, table, names
<1>6. \A f \in CountedTypes : IsFiniteSet(stack'[f])
  BY <1>1, <1>5, PoliciesAreFinite DEF CountedTypes
<1>7. \A f \in Boundary!Types : \A x \in stack'[f] : Fine(f, x)
  <2>1. ASSUME NEW f \in Boundary!Types, NEW x \in stack'[f]
        PROVE  Fine(f, x)
    <3>1. CASE f = "roles"
      BY <1>1, <1>2, <2>1, <3>1 DEF Fine
    <3>2. CASE f = "accounts"
      <4>1. PICK k \in Boundary!Kinds : x = account(k)
        BY <1>1, <2>1, <3>2
      <4>. QED
        BY <1>2, <3>2, <4>1 DEF Fine
    <3>3. CASE f = "groups"
      <4>1. PICK k \in Boundary!Kinds : x = group(k)
        BY <1>1, <2>1, <3>3
      <4>. QED
        BY <1>2, <3>3, <4>1 DEF Fine
    <3>4. CASE f = "workloads"
      BY <1>1, <1>2, <2>1, <3>4 DEF Fine
    <3>5. CASE f = "tables"
      BY <1>1, <1>3, <2>1, <3>5 DEF Fine
    <3>6. CASE f = "policies"
      BY <1>1, <2>1, <3>6, PoliciesAreFinite DEF Fine
    <3>7. CASE f \notin {"roles", "accounts", "groups", "workloads", "tables", "policies"}
      BY <3>7 DEF Fine
    <3>. QED
      BY <3>1, <3>2, <3>3, <3>4, <3>5, <3>6, <3>7
  <2>. QED
    BY <2>1
<1>8. \A f, x : Fine(f, x)' <=> Fine(f, x)
  BY DEF Fine
<1>9. Formed'
  BY <1>1, <1>6, <1>7, <1>8 DEF Formed
<1>10. ASSUME NEW k \in Boundary!Kinds  PROVE Boundary!Paired(stack', k)
  <2>1. /\ Boundary!Of(stack'.roles, k) = {role(k)}
        /\ Boundary!Of(stack'.accounts, k) = {account(k)}
    BY <1>1, <1>2 DEF Boundary!Of
  <2>2. Cardinality({role(k)}) = 1 /\ Cardinality({account(k)}) = 1
    BY FS_Singleton
  <2>. QED
    BY <2>1, <2>2, Cards DEF Boundary!Paired, Boundary!One
<1>. QED
  BY <1>9, <1>10 DEF Broken

\* A boundary is built of arguments that were accepted; what was accepted was reported
\* nothing of; a report is of the stack it was made of; and each resource that was touched
\* has cost one kind its own role and account at most, so one kind has still got them.
Sound ==
    /\ args \in BoundaryArgs /\ Formed /\ reviewLeft \in 0..Touches
    /\ at \in {"built", "previewed", "accepted"} => Boundary!ValidArgs(args)
    /\ at = "accepted" => Boundary!Report(stack, args, FALSE) = {}
    /\ (fresh /\ at \in {"previewed", "refused"} /\ Boundary!ValidArgs(args))
          => report = Boundary!Report(stack, args, TRUE)
    /\ (at # "declared" /\ Boundary!ValidArgs(args)) => Cardinality(Broken) + reviewLeft <= Touches

Reviewed == part = "boundary" => Sound

LEMMA TouchKeeps ==
    ASSUME Sound, Boundary!Editable,
           NEW f \in Boundary!Types, NEW X, NEW Y, NEW j,
           IsFiniteSet(Y), \A y \in Y : Fine(f, y),
           f \in {"roles", "accounts"} => \A y \in Y \cup (X \cap stack[f]) : y.kind = j,
           Boundary!Touch([stack EXCEPT ![f] = (@ \ X) \cup Y])
    PROVE  Sound'
<1>1. /\ stack' = [stack EXCEPT ![f] = (@ \ X) \cup Y] /\ args' = args
      /\ reviewLeft' = reviewLeft - 1 /\ at' = "built" /\ fresh' = fresh /\ report' = report
  BY DEF Boundary!Touch
<1>2. Boundary!ValidArgs(args) /\ reviewLeft > 0 /\ at # "declared"
  BY DEF Boundary!Editable, Sound
<1>3. Formed' /\ Broken' \subseteq Broken \cup {j}
  BY <1>1, Edited DEF Sound
<1>4. Cardinality(Broken') <= Cardinality(Broken) + 1
  BY <1>3, KindsAre, OneMore
<1>5. Cardinality(Broken) \in Nat /\ Cardinality(Broken)' \in Nat
  <2>1. IsFiniteSet(Broken')
    BY <1>3, KindsAre, FS_Subset, FS_AddElement
  <2>. QED
    BY <2>1, KindsAre, FS_CardinalityType
<1>6. Cardinality(Broken) + reviewLeft <= Touches /\ Touches \in Int
  BY <1>2, BoundaryAssumption DEF Sound
<1>7. Cardinality(Broken)' + reviewLeft' <= Touches /\ reviewLeft' \in 0..Touches
  BY <1>1, <1>2, <1>4, <1>5, <1>6 DEF Sound
<1>8. args' \in BoundaryArgs /\ Boundary!ValidArgs(args')
  BY <1>1, <1>2 DEF Sound
<1>. QED
  BY <1>1, <1>3, <1>7, <1>8 DEF Sound

LEMMA ReviewedStep == ASSUME Reviewed, [Boundary!Next]_boundaryVars, part' = part PROVE Reviewed'
<1>. SUFFICES ASSUME part = "boundary"  PROVE Sound'
  BY DEF Reviewed
<1>0. Sound
  BY DEF Reviewed
<1>. USE <1>0
<1>a. ASSUME stack' = stack, args' = args  PROVE Formed' /\ Broken' = Broken
  BY <1>a DEF Formed, Fine, Broken, Sound
<1>1. CASE UNCHANGED boundaryVars
  BY <1>1, <1>a DEF boundaryVars, Sound
<1>2. CASE Boundary!Declare
  <2>1. /\ args' = args /\ stack' = Boundary!Boundary(args) /\ at' = "built"
        /\ reviewLeft' = reviewLeft /\ Boundary!ValidArgs(args)
    BY <1>2 DEF Boundary!Declare
  <2>2. Formed' /\ Broken' = {}
    BY <2>1, DeclaredIsFormed DEF Sound
  <2>3. Cardinality(Broken)' = 0
    BY <2>2, FS_EmptySet
  <2>4. Cardinality(Broken)' + reviewLeft' <= Touches
    BY <2>1, <2>3, BoundaryAssumption DEF Sound
  <2>5. args' \in BoundaryArgs /\ Boundary!ValidArgs(args') /\ reviewLeft' \in 0..Touches
    BY <2>1 DEF Sound
  <2>. QED
    BY <2>1, <2>2, <2>4, <2>5 DEF Sound
<1>3. CASE Boundary!Throw
  <2>1. /\ args' = args /\ stack' = stack /\ at' = "refused" /\ reviewLeft' = reviewLeft
        /\ ~Boundary!ValidArgs(args)
    BY <1>3 DEF Boundary!Throw
  <2>2. ~Boundary!ValidArgs(args') /\ args' \in BoundaryArgs /\ reviewLeft' \in 0..Touches
    BY <2>1 DEF Sound
  <2>. QED
    BY <1>a, <2>1, <2>2 DEF Sound
<1>4. CASE Boundary!Add
  <2>1. PICK f \in DOMAIN Boundary!Additions : \E x \in Boundary!Additions[f] :
           Boundary!Touch([stack EXCEPT ![f] = @ \cup {x}])
    BY <1>4 DEF Boundary!Add
  <2>2. PICK x \in Boundary!Additions[f] : Boundary!Touch([stack EXCEPT ![f] = @ \cup {x}])
    BY <2>1
  <2>3. f \in Boundary!Types /\ Fine(f, x) /\ (f \in {"roles", "accounts"} => x.kind = "broker")
    BY AddedIsFine
  <2>4. IsFiniteSet({x})
    BY FS_Singleton
  <2>5. [stack EXCEPT ![f] = @ \cup {x}] = [stack EXCEPT ![f] = (@ \ {}) \cup {x}]
    OBVIOUS
  <2>6. Boundary!Editable
    BY <1>4 DEF Boundary!Add
  <2>. DEFINE X == {}  Y == {x}
  <2>7. /\ IsFiniteSet(Y) /\ \A y \in Y : Fine(f, y)
        /\ f \in {"roles", "accounts"} => \A y \in Y \cup (X \cap stack[f]) : y.kind = "broker"
        /\ Boundary!Touch([stack EXCEPT ![f] = (@ \ X) \cup Y])
    BY <2>2, <2>3, <2>4, <2>5
  <2>. HIDE DEF X, Y
  <2>. QED
    BY <2>3, <2>6, <2>7, TouchKeeps
<1>5. CASE Boundary!Drop
  <2>1. PICK f \in DOMAIN stack : \E x \in stack[f] : Boundary!Touch([stack EXCEPT ![f] = @ \ {x}])
    BY <1>5 DEF Boundary!Drop
  <2>2. PICK x \in stack[f] : Boundary!Touch([stack EXCEPT ![f] = @ \ {x}])
    BY <2>1
  <2>3. f \in Boundary!Types
    BY DEF Sound, Formed
  <2>4. IsFiniteSet({})
    BY FS_EmptySet
  <2>5. [stack EXCEPT ![f] = @ \ {x}] = [stack EXCEPT ![f] = (@ \ {x}) \cup {}]
    OBVIOUS
  <2>6. Boundary!Editable
    BY <1>5 DEF Boundary!Drop
  <2>. DEFINE X == {x}  Y == {}
  <2>7. /\ IsFiniteSet(Y) /\ \A y \in Y : Fine(f, y)
        /\ f \in {"roles", "accounts"} => \A y \in Y \cup (X \cap stack[f]) : y.kind = x.kind
        /\ Boundary!Touch([stack EXCEPT ![f] = (@ \ X) \cup Y])
    BY <2>2, <2>4, <2>5
  <2>. HIDE DEF X, Y
  <2>. QED
    BY <2>3, <2>6, <2>7, TouchKeeps
<1>6. CASE Boundary!Alter
  <2>1. PICK f \in DOMAIN stack : \E x \in stack[f] : \E y \in Boundary!Alterations(f, x) :
           Boundary!Touch([stack EXCEPT ![f] = (@ \ {x}) \cup {y}])
    BY <1>6 DEF Boundary!Alter
  <2>2. PICK x \in stack[f] : \E y \in Boundary!Alterations(f, x) :
           Boundary!Touch([stack EXCEPT ![f] = (@ \ {x}) \cup {y}])
    BY <2>1
  <2>3. PICK y \in Boundary!Alterations(f, x) : Boundary!Touch([stack EXCEPT ![f] = (@ \ {x}) \cup {y}])
    BY <2>2
  <2>4. f \in Boundary!Types /\ Fine(f, x)
    BY DEF Sound, Formed
  <2>5. Fine(f, y) /\ (f \in {"roles", "accounts"} => y.kind = x.kind)
    BY <2>4, AlteredIsFine
  <2>6. IsFiniteSet({y})
    BY FS_Singleton
  <2>7. Boundary!Editable
    BY <1>6 DEF Boundary!Alter
  <2>. DEFINE X == {x}  Y == {y}
  <2>8. /\ IsFiniteSet(Y) /\ \A z \in Y : Fine(f, z)
        /\ f \in {"roles", "accounts"} => \A z \in Y \cup (X \cap stack[f]) : z.kind = x.kind
        /\ Boundary!Touch([stack EXCEPT ![f] = (@ \ X) \cup Y])
    BY <2>3, <2>5, <2>6
  <2>. HIDE DEF X, Y
  <2>. QED
    BY <2>4, <2>7, <2>8, TouchKeeps
<1>7. CASE Boundary!Preview
  <2>1. /\ args' = args /\ stack' = stack /\ reviewLeft' = reviewLeft /\ fresh' = fresh
        /\ at = "built" /\ report' = Boundary!Report(stack, args, TRUE)
        /\ at' = IF Boundary!Report(stack, args, TRUE) = {} THEN "previewed" ELSE "refused"
    BY <1>7 DEF Boundary!Preview, Boundary!Verdict
  <2>2. /\ args' \in BoundaryArgs /\ Boundary!ValidArgs(args') /\ reviewLeft' \in 0..Touches
        /\ report' = Boundary!Report(stack', args', TRUE)
        /\ Cardinality(Broken)' + reviewLeft' <= Touches
    BY <1>a, <2>1 DEF Sound
  <2>3. at' \in {"previewed", "refused"}
    BY <2>1
  <2>. QED
    BY <1>a, <2>1, <2>2, <2>3 DEF Sound
<1>8. CASE Boundary!Validate
  <2>1. /\ args' = args /\ stack' = stack /\ reviewLeft' = reviewLeft /\ fresh' = FALSE
        /\ at \in {"previewed", "built"}
        /\ at' = IF Boundary!Report(stack, args, FALSE) = {} THEN "accepted" ELSE "refused"
    BY <1>8 DEF Boundary!Validate, Boundary!Verdict
  <2>2. /\ args' \in BoundaryArgs /\ Boundary!ValidArgs(args') /\ reviewLeft' \in 0..Touches
        /\ Cardinality(Broken)' + reviewLeft' <= Touches
    BY <1>a, <2>1 DEF Sound
  <2>3. at' = "accepted" => Boundary!Report(stack', args', FALSE) = {}
    BY <2>1
  <2>4. at' \in {"accepted", "refused"}
    BY <2>1
  <2>. QED
    BY <1>a, <2>1, <2>2, <2>3, <2>4 DEF Sound
<1>. QED
  BY <1>1, <1>2, <1>3, <1>4, <1>5, <1>6, <1>7, <1>8 DEF Boundary!Next

LEMMA ReviewedInit == Init => Reviewed
<1>. SUFFICES ASSUME Init, part = "boundary"  PROVE Sound
  BY DEF Reviewed
<1>1. /\ args \in BoundaryArgs /\ stack = [f \in Boundary!Types |-> {}]
      /\ at = "declared" /\ reviewLeft = Touches
  BY DEF Init, Boundary!Init
<1>2. Formed
  <2>1. \A f \in Boundary!Types : stack[f] = {}
    BY <1>1
  <2>2. CountedTypes \subseteq Boundary!Types
    BY DEF CountedTypes, Boundary!Types
  <2>. QED
    BY <1>1, <2>1, <2>2, FS_EmptySet DEF Formed
<1>3. reviewLeft \in 0..Touches
  BY <1>1, BoundaryAssumption
<1>. QED
  BY <1>1, <1>2, <1>3 DEF Sound

LEMMA ReviewedInvariant == Spec => []Reviewed
<1>1. Init => Reviewed
  BY ReviewedInit
<1>2. Reviewed /\ [Next]_vars => Reviewed'
  BY Alone, ReviewedStep
<1>. QED
  BY <1>1, <1>2, PTL DEF Spec

\* What the pack of brokered-postgres-boundary-pack.ts accepts is contained, for every
\* argument and whichever resources the program touched.
THEOREM Contained == Spec => []AcceptedBoundariesAreContained
<1>1. Reviewed => AcceptedBoundariesAreContained
  BY ReviewContains DEF Reviewed, Sound, AcceptedBoundariesAreContained,
     Boundary!AcceptedBoundariesAreContained
<1>. QED
  BY <1>1, ReviewedInvariant, PTL

-----------------------------------------------------------------------------
\* The first preview, the master secret known.
LEMMA PreviewIs ==
    ASSUME args.masterKnown, \E k \in Boundary!Kinds : Boundary!Paired(stack, k)
    PROVE  \E i \in 1..4 :
              /\ Boundary!Paired(stack, Boundary!Order[i])
              /\ \A j \in 1..i - 1 : ~Boundary!Paired(stack, Boundary!Order[j])
              /\ Boundary!Report(stack, args, TRUE) =
                    Boundary!Early(stack, args, TRUE)
                    \cup Boundary!Failed([iacRole |-> \A r \in Boundary!Of(stack.roles, Boundary!Order[i]) : ~r.iacRole])
                    \cup {"identities" : j \in 1..i - 1}
<1>. DEFINE First(i) == /\ Boundary!Paired(stack, Boundary!Order[i])
                        /\ \A j \in 1..i - 1 : ~Boundary!Paired(stack, Boundary!Order[j])
            read == CHOOSE i \in 1..4 : First(i)
<1>1. /\ Boundary!Order[1] = "runtime" /\ Boundary!Order[2] = "broker"
      /\ Boundary!Order[3] = "migrator" /\ Boundary!Order[4] = "rotation"
  BY DEF Boundary!Order
<1>2. \E i \in 1..4 : First(i)
  <2>. DEFINE has(i) == Boundary!Paired(stack, Boundary!Order[i])
  <2>1. has(1) \/ has(2) \/ has(3) \/ has(4)
    BY <1>1 DEF Boundary!Kinds
  <2>. HIDE DEF has
  <2>2. /\ 1..1-1 = {} /\ 1..2-1 = {1} /\ 1..3-1 = {1, 2} /\ 1..4-1 = {1, 2, 3}
    OBVIOUS
  <2>3. \E i \in 1..4 : has(i) /\ \A j \in 1..i - 1 : ~has(j)
    <3>1. CASE has(1)
      BY <3>1, <2>2
    <3>2. CASE ~has(1) /\ has(2)
      BY <3>2, <2>2
    <3>3. CASE ~has(1) /\ ~has(2) /\ has(3)
      BY <3>3, <2>2
    <3>4. CASE ~has(1) /\ ~has(2) /\ ~has(3) /\ has(4)
      BY <3>4, <2>2
    <3>. QED
      BY <2>1, <3>1, <3>2, <3>3, <3>4
  <2>. QED
    BY <2>3 DEF has
<1>3. read \in 1..4 /\ First(read)
  BY <1>2
<1>4. Boundary!Report(stack, args, TRUE) =
         Boundary!Early(stack, args, TRUE)
         \cup Boundary!Failed([iacRole |-> \A r \in Boundary!Of(stack.roles, Boundary!Order[read]) : ~r.iacRole])
         \cup {"identities" : j \in 1..read - 1}
  BY DEF Boundary!Report, Boundary!FirstPreview
<1>. HIDE DEF read
<1>. QED
  BY <1>3, <1>4

\* The four checks that are made before an ARN is read.
LEMMA EarlyIs ==
    ASSUME NEW late \in BOOLEAN
    PROVE  /\ "pods" \in Boundary!Early(stack, args, late) <=> ~Boundary!NoStandalonePod(stack, args)
           /\ "arns" \in Boundary!Early(stack, args, late) <=> ~Boundary!OneArnContext(args)
           /\ "secrets" \in Boundary!Early(stack, args, late) <=> ~Boundary!SecretsExact(stack, args, late)
           /\ "trust" \in Boundary!Early(stack, args, late)
                 <=> ~\A k \in Boundary!Kinds : Boundary!ExactTrust(stack, args, k, late)
           /\ Boundary!Early(stack, args, late) \subseteq {"pods", "arns", "secrets", "trust"}
<1>. DEFINE checks == [pods |-> Boundary!NoStandalonePod(stack, args), arns |-> Boundary!OneArnContext(args),
            secrets |-> Boundary!SecretsExact(stack, args, late),
            trust |-> \A k \in Boundary!Kinds : Boundary!ExactTrust(stack, args, k, late)]
<1>1. Boundary!Early(stack, args, late) = {n \in DOMAIN checks : ~checks[n]}
  BY DEF Boundary!Early, Boundary!Failed
<1>2. DOMAIN checks = {"pods", "arns", "secrets", "trust"}
  OBVIOUS
<1>3. /\ checks["pods"] <=> Boundary!NoStandalonePod(stack, args)
      /\ checks["arns"] <=> Boundary!OneArnContext(args)
      /\ checks["secrets"] <=> Boundary!SecretsExact(stack, args, late)
      /\ checks["trust"] <=> \A k \in Boundary!Kinds : Boundary!ExactTrust(stack, args, k, late)
  BY Zenon
<1>. HIDE DEF checks
<1>. QED
  BY <1>1, <1>2, <1>3

\* A check that unknown values fail fails when they are known.
LEMMA EarlyGrows == Boundary!Early(stack, args, TRUE) \subseteq Boundary!Early(stack, args, FALSE)
<1>1. Boundary!SecretsExact(stack, args, FALSE) => Boundary!SecretsExact(stack, args, TRUE)
  BY DEF Boundary!SecretsExact
<1>2. \A k : Boundary!ExactTrust(stack, args, k, FALSE) => Boundary!ExactTrust(stack, args, k, TRUE)
  BY DEF Boundary!ExactTrust
<1>. QED
  BY <1>1, <1>2, EarlyIs

LEMMA IdentityFails ==
    ASSUME NEW k \in Boundary!Kinds
    PROVE  /\ ~Boundary!Paired(stack, k) => "identities" \in Boundary!Report(stack, args, FALSE)
           /\ (Boundary!Paired(stack, k) /\ \E r \in Boundary!Of(stack.roles, k) : r.iacRole)
                 => "iacRole" \in Boundary!Report(stack, args, FALSE)
<1>. DEFINE checks ==
         [identities |-> Boundary!Paired(stack, k),
          iacRole |-> Boundary!Paired(stack, k) => \A r \in Boundary!Of(stack.roles, k) : ~r.iacRole,
          account |-> Boundary!Paired(stack, k) => Boundary!AccountBound(stack, args, k),
          managed |-> Boundary!Paired(stack, k) => Boundary!Unmanaged(stack, k),
          inline |-> Boundary!Paired(stack, k) => Boundary!InlineSafe(stack, k)]
<1>1. Boundary!Identity(stack, args, k) = {n \in DOMAIN checks : ~checks[n]}
  BY DEF Boundary!Identity, Boundary!Failed
<1>2. \A n \in {"identities", "iacRole"} : n \in DOMAIN checks
  OBVIOUS
<1>3. /\ checks["identities"] <=> Boundary!Paired(stack, k)
      /\ checks["iacRole"] <=> (Boundary!Paired(stack, k)
                                   => \A r \in Boundary!Of(stack.roles, k) : ~r.iacRole)
  BY Zenon
<1>4. Boundary!Identity(stack, args, k) \subseteq Boundary!Late(stack, args)
  <2>. DEFINE of(l) == Boundary!Identity(stack, args, l)
  <2>1. \E R : Boundary!Late(stack, args) = (UNION {of(l) : l \in Boundary!Kinds}) \cup R
    BY DEF Boundary!Late
  <2>. HIDE DEF of
  <2>2. of(k) \subseteq UNION {of(l) : l \in Boundary!Kinds}
    OBVIOUS
  <2>3. of(k) \subseteq Boundary!Late(stack, args)
    BY <2>1, <2>2
  <2>. QED
    BY <2>3 DEF of
<1>5. Boundary!Late(stack, args) \subseteq Boundary!Report(stack, args, FALSE)
  BY DEF Boundary!Report
<1>. HIDE DEF checks
<1>. QED
  BY <1>1, <1>2, <1>3, <1>4, <1>5

LEMMA UnknownsHide ==
    ASSUME Formed, args \in BoundaryArgs, Boundary!ValidArgs(args), args.masterKnown,
           \E k \in Boundary!Kinds : Boundary!Paired(stack, k),
           report = Boundary!Report(stack, args, TRUE)
    PROVE  /\ Boundary!KnownTrust => "trust" \in report
           /\ Boundary!KnownSecret => "secrets" \in report
           /\ report \subseteq Boundary!Report(stack, args, FALSE)
<1>1. PICK i \in 1..4 :
         /\ Boundary!Paired(stack, Boundary!Order[i])
         /\ \A j \in 1..i - 1 : ~Boundary!Paired(stack, Boundary!Order[j])
         /\ Boundary!Report(stack, args, TRUE) =
               Boundary!Early(stack, args, TRUE)
               \cup Boundary!Failed([iacRole |-> \A r \in Boundary!Of(stack.roles, Boundary!Order[i]) : ~r.iacRole])
               \cup {"identities" : j \in 1..i - 1}
  BY PreviewIs
<1>2. \A n \in 1..4 : Boundary!Order[n] \in Boundary!Kinds
  BY DEF Boundary!Order, Boundary!Kinds
<1>3. ASSUME Boundary!KnownTrust  PROVE "trust" \in report
  <2>1. PICK k \in Boundary!Kinds :
           /\ Boundary!Paired(stack, k)
           /\ \E r \in Boundary!Of(stack.roles, k) :
                 r.known /\ \E t \in r.trust : \A x \in Boundary!Of(stack.accounts, k) :
                    t.sub # <<args.namespace, x.name>>
    BY <1>3 DEF Boundary!KnownTrust
  <2>2. PICK r \in Boundary!Of(stack.roles, k) :
           r.known /\ \E t \in r.trust : \A x \in Boundary!Of(stack.accounts, k) :
              t.sub # <<args.namespace, x.name>>
    BY <2>1
  <2>3. PICK x : Boundary!Of(stack.accounts, k) = {x}
    BY <2>1, PairOf
  <2>4. PICK t \in r.trust : t.sub # <<args.namespace, x.name>>
    BY <2>2, <2>3
  <2>. DEFINE u == [federated |-> args.oidc, aud |-> "sts", sub |-> <<args.namespace, x.name>>]
  <2>5. r.trust # {u}
    <3>1. u.sub = <<args.namespace, x.name>>
      OBVIOUS
    <3>. HIDE DEF u
    <3>. QED
      BY <2>4, <3>1
  <2>6. ~Boundary!ExactTrust(stack, args, k, TRUE)
    BY <2>1, <2>2, <2>3, <2>5 DEF Boundary!ExactTrust
  <2>7. "trust" \in Boundary!Early(stack, args, TRUE)
    BY <2>6, EarlyIs
  <2>. QED
    BY <1>1, <2>7
<1>4. ASSUME Boundary!KnownSecret  PROVE "secrets" \in report
  <2>1. ~Boundary!SecretsExact(stack, args, TRUE)
    BY <1>4, SecretsAre DEF Boundary!KnownSecret
  <2>2. "secrets" \in Boundary!Early(stack, args, TRUE)
    BY <2>1, EarlyIs
  <2>. QED
    BY <1>1, <2>2
<1>5. report \subseteq Boundary!Report(stack, args, FALSE)
  <2>1. Boundary!Early(stack, args, TRUE) \subseteq Boundary!Report(stack, args, FALSE)
    BY EarlyGrows DEF Boundary!Report
  <2>2. Boundary!Failed([iacRole |-> \A r \in Boundary!Of(stack.roles, Boundary!Order[i]) : ~r.iacRole])
           \subseteq Boundary!Report(stack, args, FALSE)
    <3>. DEFINE tags == [iacRole |-> \A r \in Boundary!Of(stack.roles, Boundary!Order[i]) : ~r.iacRole]
    <3>1. DOMAIN tags = {"iacRole"}
      OBVIOUS
    <3>2. tags["iacRole"] <=> \A r \in Boundary!Of(stack.roles, Boundary!Order[i]) : ~r.iacRole
      BY Zenon
    <3>3. (\E r \in Boundary!Of(stack.roles, Boundary!Order[i]) : r.iacRole)
             => "iacRole" \in Boundary!Report(stack, args, FALSE)
      BY <1>1, <1>2, IdentityFails
    <3>. HIDE DEF tags
    <3>4. Boundary!Failed(tags) \subseteq Boundary!Report(stack, args, FALSE)
      BY <3>1, <3>2, <3>3 DEF Boundary!Failed
    <3>. QED
      BY <3>4 DEF tags
  <2>3. {"identities" : j \in 1..i - 1} \subseteq Boundary!Report(stack, args, FALSE)
    <3>1. ASSUME NEW j \in 1..i - 1  PROVE "identities" \in Boundary!Report(stack, args, FALSE)
      <4>1. j \in 1..4
        OBVIOUS
      <4>. QED
        BY <1>1, <1>2, <4>1, IdentityFails
    <3>. QED
      BY <3>1
  <2>. DEFINE A == Boundary!Early(stack, args, TRUE)
              B == Boundary!Failed([iacRole |-> \A r \in Boundary!Of(stack.roles, Boundary!Order[i]) : ~r.iacRole])
              C == {"identities" : j \in 1..i - 1}
  <2>4. report = A \cup B \cup C
    BY <1>1
  <2>5. A \subseteq Boundary!Report(stack, args, FALSE) /\ B \subseteq Boundary!Report(stack, args, FALSE)
        /\ C \subseteq Boundary!Report(stack, args, FALSE)
    BY <2>1, <2>2, <2>3
  <2>. HIDE DEF A, B, C
  <2>. QED
    BY <2>4, <2>5
<1>. QED
  BY <1>3, <1>4, <1>5

\* A first preview of validateBoundary hides no violation of trust or of the secrets that is
\* already known, and reports none that the known values would clear.
THEOREM UnknownsHideNothing == Spec => []UnknownsHideNothingKnown
<1>1. Reviewed => UnknownsHideNothingKnown
  <2>. SUFFICES ASSUME Sound, fresh, args.masterKnown, at \in {"previewed", "refused"},
                       Boundary!ValidArgs(args)
                PROVE  /\ Boundary!KnownTrust => "trust" \in report
                       /\ Boundary!KnownSecret => "secrets" \in report
                       /\ report \subseteq Boundary!Report(stack, args, FALSE)
    BY DEF Reviewed, UnknownsHideNothingKnown, Boundary!UnknownsHideNothingKnown
  <2>1. report = Boundary!Report(stack, args, TRUE)
    BY DEF Sound
  <2>2. Cardinality(Broken) + reviewLeft <= Touches /\ reviewLeft >= 0 /\ Touches <= 3
    BY BoundaryAssumption DEF Sound
  <2>3. Cardinality(Broken) <= 3
    BY <2>2, KindsAre, BoundaryAssumption DEF Sound
  <2>4. \E k \in Boundary!Kinds : Boundary!Paired(stack, k)
    BY <2>3, KindsAre
  <2>. QED
    BY <2>1, <2>4, UnknownsHide DEF Sound
<1>. QED
  BY <1>1, ReviewedInvariant, PTL

-----------------------------------------------------------------------------
(***************************************************************************)
(* The endpoint of a cluster.  The review of a list of CIDRs finds whatever*)
(* adds up to everyone; and what the engine knows of, what it has still to *)
(* delete and what AWS admits always fit together, so that stops, failures *)
(* and retries leave nothing behind and take nothing away.                 *)
(***************************************************************************)
\* A recursion along 1..n has a solution.
Steps(h, n) == h \in [Int \X (1..n) -> Int]
Solution(f, z, h, n) ==
    f \in [0..n -> Int] /\ f[0] = z /\ \A i \in 1..n : f[i] = h[<<f[i - 1], i>>]

LEMMA Recursion ==
    ASSUME NEW z \in Int, NEW n \in Nat, NEW h, Steps(h, n)
    PROVE  \E f : Solution(f, z, h, n)
<1>. h \in [Int \X (1..n) -> Int]
  BY DEF Steps
<1>. DEFINE Solves(f, m) == f[0] = z /\ \A i \in 1..m : f[i] = h[<<f[i - 1], i>>]
            S == {m \in Nat : m <= n => \E f \in [0..m -> Int] : Solves(f, m)}
<1>1. 0 \in S
  <2>1. [i \in 0..0 |-> z] \in [0..0 -> Int] /\ Solves([i \in 0..0 |-> z], 0)
    OBVIOUS
  <2>. HIDE DEF Solves
  <2>. QED
    BY <2>1
<1>2. ASSUME NEW m \in Nat, m \in S  PROVE m + 1 \in S
  <2>. SUFFICES ASSUME m + 1 <= n  PROVE \E f \in [0..(m + 1) -> Int] : Solves(f, m + 1)
    OBVIOUS
  <2>1. PICK f \in [0..m -> Int] : Solves(f, m)
    <3>1. m <= n
      OBVIOUS
    <3>. HIDE DEF Solves
    <3>. QED
      BY <1>2, <3>1
  <2>. DEFINE y == h[<<f[m], m + 1>>]
              g == [i \in 0..(m + 1) |-> IF i = m + 1 THEN y ELSE f[i]]
  <2>2. m + 1 \in 1..n /\ f[m] \in Int
    OBVIOUS
  <2>3. y \in Int
    BY <2>2
  <2>. HIDE DEF y
  <2>4. g \in [0..(m + 1) -> Int]
    BY <2>3
  <2>5. ASSUME NEW i \in 1..(m + 1)  PROVE g[i] = h[<<g[i - 1], i>>]
    <3>1. i - 1 \in 0..m /\ i - 1 \in 0..(m + 1) /\ i - 1 # m + 1
      OBVIOUS
    <3>2. g[i - 1] = f[i - 1]
      BY <3>1
    <3>3. CASE i = m + 1
      <4>1. i - 1 = m /\ g[i] = y
        BY <3>3
      <4>2. <<g[i - 1], i>> = <<f[m], m + 1>>
        BY <3>2, <3>3, <4>1
      <4>. HIDE DEF g
      <4>. QED
        BY <4>1, <4>2 DEF y
    <3>4. CASE i # m + 1
      <4>1. i \in 1..m
        BY <3>4
      <4>. QED
        BY <2>1, <3>2, <3>4, <4>1
    <3>. QED
      BY <3>3, <3>4
  <2>6. g[0] = z
    BY <2>1
  <2>. HIDE DEF g
  <2>. QED
    BY <2>4, <2>5, <2>6
<1>. HIDE DEF Solves
<1>3. S = Nat
  <2>. HIDE DEF S
  <2>. QED
    BY <1>1, <1>2, NatSetInduction DEF S
<1>4. \E f \in [0..n -> Int] : Solves(f, n)
  BY <1>3
<1>. QED
  BY <1>4 DEF Solves, Solution

-----------------------------------------------------------------------------
(***************************************************************************)
(* The coverage of a list of CIDRs                                         *)
(***************************************************************************)
Ordering(o, key, n) ==
    /\ o \in [1..n -> 1..n]
    /\ \A m \in 1..n : \E i \in 1..n : o[i] = m
    /\ \A i, j \in 1..n : i < j => key[o[i]] <= key[o[j]]

\* What is sorted stays so when one more is put before the first that is greater.
LEMMA Insertion ==
    ASSUME NEW n \in Nat, NEW m \in Nat, m + 1 <= n, NEW key \in [1..n -> Int],
           NEW o, Ordering(o, key, m)
    PROVE  \E p : Ordering(p, key, m + 1)
<1>. DEFINE v == key[m + 1]
            Greater == {i \in 1..m : key[o[i]] > v} \cup {m + 1}
<1>1. Greater \in SUBSET Nat /\ Greater # {}
  OBVIOUS
<1>2. PICK k \in Greater : \A i \in Greater : k <= i
  BY <1>1, LeastNat
<1>3. k \in 1..(m + 1) /\ m + 1 \in 1..n /\ v \in Int /\ 1..m \subseteq 1..n
  OBVIOUS
<1>4. /\ o \in [1..m -> 1..m]
      /\ \A i \in 1..m : key[o[i]] \in Int
      /\ \A i, j \in 1..m : i < j => key[o[i]] <= key[o[j]]
      /\ \A q \in 1..m : \E i \in 1..m : o[i] = q
  BY <1>3 DEF Ordering
<1>5. ASSUME NEW i \in 1..m, i < k  PROVE key[o[i]] <= v
  <2>1. i \notin Greater
    BY <1>2, <1>3, <1>5
  <2>. QED
    BY <1>3, <1>4, <2>1
<1>6. ASSUME NEW i \in 1..m, k <= i  PROVE v <= key[o[i]]
  <2>1. k \in 1..m /\ key[o[k]] > v
    BY <1>3, <1>6
  <2>2. key[o[k]] \in Int /\ key[o[i]] \in Int
    BY <1>4, <2>1
  <2>3. k = i \/ k < i
    BY <1>3, <1>6
  <2>4. key[o[k]] <= key[o[i]]
    <3>1. CASE k = i
      BY <2>2, <3>1
    <3>2. CASE k < i
      BY <1>4, <2>1, <3>2, Zenon
    <3>. QED
      BY <2>3, <3>1, <3>2
  <2>. HIDE DEF v
  <2>. QED
    BY <1>3, <2>1, <2>2, <2>4
<1>. HIDE DEF Greater
<1>. DEFINE p == [i \in 1..(m + 1) |-> IF i < k THEN o[i] ELSE IF i = k THEN m + 1 ELSE o[i - 1]]
<1>7. ASSUME NEW i \in 1..(m + 1)
      PROVE  /\ i < k => i \in 1..m /\ p[i] = o[i]
             /\ i = k => p[i] = m + 1
             /\ k < i => i - 1 \in 1..m /\ k <= i - 1 /\ p[i] = o[i - 1]
  BY <1>3
<1>8. p \in [1..(m + 1) -> 1..(m + 1)]
  <2>1. ASSUME NEW i \in 1..(m + 1)  PROVE p[i] \in 1..(m + 1)
    <3>1. i < k \/ i = k \/ k < i
      BY <1>3
    <3>2. 1..m \subseteq 1..(m + 1) /\ m + 1 \in 1..(m + 1)
      OBVIOUS
    <3>. HIDE DEF p
    <3>3. CASE i < k
      BY <1>4, <1>7, <3>2, <3>3
    <3>4. CASE i = k
      BY <1>7, <3>2, <3>4
    <3>5. CASE k < i
      BY <1>4, <1>7, <3>2, <3>5
    <3>. QED
      BY <3>1, <3>3, <3>4, <3>5
  <2>. QED
    BY <2>1
<1>. HIDE DEF p
<1>9. ASSUME NEW q \in 1..(m + 1)  PROVE \E i \in 1..(m + 1) : p[i] = q
  <2>1. CASE q = m + 1
    BY <1>3, <1>7, <2>1
  <2>2. CASE q # m + 1
    <3>1. q \in 1..m
      BY <2>2
    <3>2. PICK i \in 1..m : o[i] = q
      BY <1>4, <3>1
    <3>3. CASE i < k
      <4>1. i \in 1..(m + 1)
        OBVIOUS
      <4>. QED
        BY <1>7, <3>2, <3>3, <4>1
    <3>4. CASE ~ (i < k)
      <4>1. i + 1 \in 1..(m + 1) /\ k < i + 1 /\ (i + 1) - 1 = i
        BY <1>3, <3>4
      <4>. QED
        BY <1>7, <3>2, <4>1
    <3>. QED
      BY <3>3, <3>4
  <2>. QED
    BY <2>1, <2>2
<1>10. ASSUME NEW i \in 1..(m + 1), NEW j \in 1..(m + 1), i < j
       PROVE  key[p[i]] <= key[p[j]]
  <2>1. CASE i < k /\ j < k
    BY <1>4, <1>7, <1>10, <2>1
  <2>2. CASE i < k /\ j = k
    BY <1>5, <1>7, <2>2
  <2>3. CASE i < k /\ k < j
    <3>1. i \in 1..m /\ j - 1 \in 1..m /\ i < j - 1 /\ p[i] = o[i] /\ p[j] = o[j - 1]
      BY <1>3, <1>7, <2>3
    <3>. QED
      BY <1>4, <3>1
  <2>4. CASE i = k /\ k < j
    BY <1>6, <1>7, <2>4
  <2>5. CASE k < i /\ k < j
    <3>1. i - 1 \in 1..m /\ j - 1 \in 1..m /\ i - 1 < j - 1 /\ p[i] = o[i - 1] /\ p[j] = o[j - 1]
      BY <1>3, <1>7, <1>10, <2>5
    <3>. QED
      BY <1>4, <3>1
  <2>. QED
    BY <1>3, <1>10, <2>1, <2>2, <2>3, <2>4, <2>5
<1>. QED
  BY <1>8, <1>9, <1>10 DEF Ordering

LEMMA SomeOrdering ==
    ASSUME NEW n \in Nat, NEW key \in [1..n -> Int]
    PROVE  \E o : Ordering(o, key, n)
<1>. DEFINE S == {m \in Nat : m <= n => \E o : Ordering(o, key, m)}
<1>1. 0 \in S
  <2>1. Ordering([i \in 1..0 |-> 0], key, 0)
    BY DEF Ordering
  <2>. QED
    BY <2>1
<1>2. ASSUME NEW m \in Nat, m \in S  PROVE m + 1 \in S
  <2>1. m + 1 <= n => m <= n
    OBVIOUS
  <2>. QED
    BY <1>2, <2>1, Insertion
<1>3. S = Nat
  <2>. HIDE DEF S
  <2>. QED
    BY <1>1, <1>2, NatSetInduction DEF S
<1>4. n \in S
  <2>. HIDE DEF S
  <2>. QED
    BY <1>3
<1>. QED
  BY <1>4

\* What the merge of sorted blocks reaches: blocks of its own cover it, and it misses none
\* but behind a gap.
LEMMA Growth ==
    ASSUME NEW n \in Nat, NEW key \in [1..n -> Int], NEW fin \in [1..n -> Int], NEW Own,
           \A i, j \in 1..n : i < j => key[i] <= key[j],
           NEW g, g[0] = -1,
           \A i \in 1..n : g[i] = IF i \notin Own \/ key[i] > g[i - 1] + 1 \/ fin[i] < g[i - 1]
                                  THEN g[i - 1] ELSE fin[i]
    PROVE  /\ g[n] \in Int /\ -1 <= g[n]
           /\ \A a \in 0..g[n] : \E j \in 1..n : j \in Own /\ key[j] <= a /\ a <= fin[j]
           /\ \A j \in 1..n : j \in Own => fin[j] <= g[n] \/ key[j] > g[n] + 1
<1>. DEFINE Reaches(m) ==
                /\ g[m] \in Int /\ -1 <= g[m]
                /\ \A a \in 0..g[m] : \E j \in 1..m : j \in Own /\ key[j] <= a /\ a <= fin[j]
                /\ \A j \in 1..m : j \in Own => fin[j] <= g[m] \/ key[j] > g[m] + 1
            S == {m \in Nat : m <= n => Reaches(m)}
<1>1. 0 \in S
  OBVIOUS
<1>2. ASSUME NEW m \in Nat, m \in S  PROVE m + 1 \in S
  <2>. SUFFICES ASSUME m + 1 <= n  PROVE Reaches(m + 1)
    OBVIOUS
  <2>1. /\ g[m] \in Int /\ -1 <= g[m]
        /\ \A a \in 0..g[m] : \E j \in 1..m : j \in Own /\ key[j] <= a /\ a <= fin[j]
        /\ \A j \in 1..m : j \in Own => fin[j] <= g[m] \/ key[j] > g[m] + 1
    BY <1>2
  <2>. DEFINE k == m + 1
  <2>2. k \in 1..n /\ k - 1 = m /\ key[k] \in Int /\ fin[k] \in Int
        /\ 1..k = 1..m \cup {k} /\ 1..m \subseteq 1..n
    OBVIOUS
  <2>3. g[k] = IF k \notin Own \/ key[k] > g[m] + 1 \/ fin[k] < g[m] THEN g[m] ELSE fin[k]
    BY <2>2
  <2>. HIDE DEF k
  <2>4. CASE k \notin Own \/ key[k] > g[m] + 1 \/ fin[k] < g[m]
    <3>1. g[k] = g[m]
      BY <2>3, <2>4
    <3>2. ASSUME NEW j \in 1..k, j \in Own  PROVE fin[j] <= g[k] \/ key[j] > g[k] + 1
      <4>1. CASE j = k
        <5>1. key[k] > g[m] + 1 \/ fin[k] < g[m]
          BY <2>4, <3>2, <4>1
        <5>. QED
          BY <2>1, <2>2, <3>1, <4>1, <5>1
      <4>2. CASE j \in 1..m
        <5>1. fin[j] <= g[m] \/ key[j] > g[m] + 1
          BY <2>1, <3>2, <4>2
        <5>. QED
          BY <3>1, <5>1
      <4>. QED
        BY <2>2, <4>1, <4>2
    <3>. QED
      BY <2>1, <2>2, <3>1, <3>2 DEF k
  <2>5. CASE ~ (k \notin Own \/ key[k] > g[m] + 1 \/ fin[k] < g[m])
    <3>1. g[k] = fin[k] /\ k \in Own /\ key[k] <= g[m] + 1 /\ g[m] <= fin[k]
      BY <2>1, <2>2, <2>3, <2>5
    <3>2. ASSUME NEW j \in 1..k, j \in Own  PROVE fin[j] <= g[k] \/ key[j] > g[k] + 1
      <4>1. CASE j = k
        BY <2>2, <3>1, <4>1
      <4>2. CASE j \in 1..m
        <5>1. j < k /\ j \in 1..n
          BY <4>2 DEF k
        <5>2. key[j] <= key[k] /\ key[j] \in Int /\ fin[j] \in Int
          BY <2>2, <5>1
        <5>3. fin[j] <= g[m] \/ key[j] > g[m] + 1
          BY <2>1, <3>2, <4>2
        <5>. QED
          BY <2>1, <2>2, <3>1, <5>2, <5>3
      <4>. QED
        BY <2>2, <4>1, <4>2
    <3>3. ASSUME NEW a \in 0..g[k]
          PROVE  \E j \in 1..k : j \in Own /\ key[j] <= a /\ a <= fin[j]
      <4>1. CASE a <= g[m]
        <5>1. a \in 0..g[m]
          BY <2>1, <2>2, <3>1, <4>1
        <5>. QED
          BY <2>1, <2>2, <5>1
      <4>2. CASE ~ (a <= g[m])
        <5>1. key[k] <= a /\ a <= fin[k]
          BY <2>1, <2>2, <3>1, <4>2
        <5>. QED
          BY <2>2, <3>1, <5>1
      <4>. QED
        BY <4>1, <4>2
    <3>4. g[k] \in Int /\ -1 <= g[k]
      BY <2>1, <2>2, <3>1
    <3>. QED
      BY <3>2, <3>3, <3>4 DEF k
  <2>. QED
    BY <2>4, <2>5
<1>. HIDE DEF Reaches
<1>3. S = Nat
  <2>. HIDE DEF S
  <2>. QED
    BY <1>1, <1>2, NatSetInduction DEF S
<1>4. Reaches(n)
  BY <1>3
<1>. QED
  BY <1>4 DEF Reaches

\* The address of a CIDR that parses is a number.
LEMMA StartIsInt ==
    ASSUME NEW c \in Endpoint!Cidr, Endpoint!Parses(c)
    PROVE  Endpoint!Start(c) \in Int /\ Endpoint!End(c) \in Int
<1>. DEFINE s == c.head \o Endpoint!Zeros(c) \o c.tail
            r == Endpoint!Radix(c.family)
<1>1. /\ c.family \in Endpoint!Families /\ c.head \in Seq(Int) /\ c.tail \in Seq(Int)
      /\ c.prefix \in Int
  BY DEF Endpoint!Cidr
<1>2. Groups[c.family] \in Nat /\ GroupBits[c.family] \in Nat
  BY <1>1, EndpointAssumption
<1>3. r \in Int
  BY <1>2 DEF Endpoint!Radix
<1>4. Endpoint!Zeros(c) \in Seq(Int)
  <2>1. Len(Endpoint!Written(c)) \in Nat
    <3>1. Endpoint!Written(c) \in Seq(Int)
      BY <1>1, ConcatProperties DEF Endpoint!Written
    <3>. QED
      BY <3>1
  <2>2. Groups[c.family] - Len(Endpoint!Written(c)) \in Nat
    BY <1>2, <2>1 DEF Endpoint!Parses
  <2>. QED
    BY <2>2 DEF Endpoint!Zeros
<1>5. s \in Seq(Int)
  BY <1>1, <1>4
<1>. DEFINE n == Len(s)
            Value(v) == v = [i \in 0..n |-> IF i = 0 THEN 0 ELSE v[i - 1] * r + s[i]]
            w == CHOOSE v : Value(v)
<1>6. Endpoint!Start(c) = w[n]
  BY DEF Endpoint!Start
<1>. HIDE DEF s, r
<1>7. n \in Nat /\ \A i \in 1..n : s[i] \in Int
  BY <1>5
<1>. HIDE DEF n
<1>8. \E v : Value(v)
  <2>. DEFINE h == [x \in Int \X (1..n) |-> x[1] * r + s[x[2]]]
  <2>1. Steps(h, n)
    BY <1>3, <1>7 DEF Steps
  <2>2. PICK f : Solution(f, 0, h, n)
    <3>. HIDE DEF h
    <3>. QED
      BY <1>7, <2>1, Recursion
  <2>3. ASSUME NEW i \in 0..n  PROVE f[i] = IF i = 0 THEN 0 ELSE f[i - 1] * r + s[i]
    <3>1. CASE i = 0
      BY <2>2, <3>1 DEF Solution
    <3>2. CASE i # 0
      <4>1. i \in 1..n /\ f[i - 1] \in Int
        BY <1>7, <2>2, <3>2 DEF Solution
      <4>. QED
        BY <2>2, <3>2, <4>1 DEF Solution
    <3>. QED
      BY <3>1, <3>2
  <2>4. f = [i \in 0..n |-> f[i]]
    <3>. HIDE DEF h
    <3>. QED
      BY <2>2 DEF Solution
  <2>5. Value(f)
    BY <2>3, <2>4
  <2>. QED
    BY <2>5
<1>9. Value(w)
  <2>. HIDE DEF Value
  <2>. QED
    BY <1>8
<1>10. \A i \in 0..n : w[i] = IF i = 0 THEN 0 ELSE w[i - 1] * r + s[i]
  BY <1>9
<1>. DEFINE S == {m \in Nat : m <= n => w[m] \in Int}
<1>. HIDE DEF w, Value
<1>11. 0 \in S
  BY <1>7, <1>10
<1>12. ASSUME NEW m \in Nat, m \in S  PROVE m + 1 \in S
  <2>1. CASE m + 1 <= n
    <3>1. w[m] \in Int /\ m + 1 \in 0..n /\ m + 1 \in 1..n /\ m + 1 # 0 /\ (m + 1) - 1 = m
      BY <1>7, <1>12, <2>1
    <3>2. w[m + 1] = w[m] * r + s[m + 1]
      BY <1>10, <3>1
    <3>. QED
      BY <1>3, <1>7, <3>1, <3>2
  <2>. QED
    BY <2>1
<1>13. S = Nat
  <2>. HIDE DEF S
  <2>. QED
    BY <1>11, <1>12, NatSetInduction DEF S
<1>14. w[n] \in Int
  BY <1>7, <1>13
<1>15. Endpoint!Size(c) \in Int
  <2>1. Endpoint!Bits(c.family) \in Int
    BY <1>2 DEF Endpoint!Bits
  <2>2. Endpoint!Bits(c.family) - c.prefix \in Nat
    BY <2>1 DEF Endpoint!Parses
  <2>. QED
    BY <2>2 DEF Endpoint!Size
<1>. QED
  BY <1>6, <1>14, <1>15 DEF Endpoint!End

-----------------------------------------------------------------------------
(***************************************************************************)
(* The rules of the ingress                                                *)
(***************************************************************************)
Sources(rules) == {r[2] : r \in rules}
OfPlace(rules, place) == {r \in rules : r[1] = place}
Functional(rules) == \A r, s \in rules : r[1] = s[1] => r = s
Injective(rules) == \A r, s \in rules : r[2] = s[2] => r = s

\* AWS admits what is known and what is still to be deleted, each under one name.
Separate(rules, gone) ==
    /\ Functional(rules) /\ Injective(rules)
    /\ Sources(rules) \cap gone = {}

Consistent == Separate(known, replaced) /\ ingress = Sources(known) \cup replaced

\* A deployment knows of the rules it has brought about, and keeps those that
\* every program has.
Underway ==
    /\ pursued = {} \/ \E p \in ClusterPrograms : pursued = {p}
    /\ constant \subseteq known
    /\ bringing = "up" => /\ pursued # {} /\ constant \subseteq Endpoint!RulesOf(Endpoint!Goal)
                    /\ \A r \in Endpoint!RulesOf(Endpoint!Goal) : r[1] \in registered => r \in known

IInv == Consistent /\ Underway /\ Endpoint!IngressIsDeclared

-----------------------------------------------------------------------------
(***************************************************************************)
(* Rules and their places                                                  *)
(***************************************************************************)
\* A path has at most one rule of a place (eks-admin-access-path.ts:234-287).
LEMMA RulesHavePlaces == \A a : Functional(Endpoint!Rules(a))
<1> SUFFICES ASSUME NEW a, NEW r \in Endpoint!Rules(a), NEW s \in Endpoint!Rules(a), r[1] = s[1]
             PROVE  r = s
  BY DEF Functional
<1> DEFINE Rule(k, i) == <<<<Endpoint!Kinds[k], i>>, <<Endpoint!Kinds[k], Endpoint!Operators(a)[k][i]>>>>
<1>1. PICK j \in 1..3 : \E x \in DOMAIN Endpoint!Operators(a)[j] : r = Rule(j, x)
  BY DEF Endpoint!Rules
<1>2. PICK x \in DOMAIN Endpoint!Operators(a)[j] : r = Rule(j, x)
  BY <1>1
<1>3. PICK k \in 1..3 : \E y \in DOMAIN Endpoint!Operators(a)[k] : s = Rule(k, y)
  BY DEF Endpoint!Rules
<1>4. PICK y \in DOMAIN Endpoint!Operators(a)[k] : s = Rule(k, y)
  BY <1>3
<1>5. Endpoint!Kinds[j] = Endpoint!Kinds[k] /\ x = y
  BY <1>2, <1>4
<1>6. j = k
  BY <1>5 DEF Endpoint!Kinds
<1> QED
  BY <1>2, <1>4, <1>5, <1>6

\* So has a program.
LEMMA ProgramsHavePlaces ==
    ASSUME Endpoint!OnePath, NEW p \in ClusterPrograms
    PROVE  Functional(Endpoint!RulesOf(p))
<1> SUFFICES ASSUME NEW r \in Endpoint!RulesOf(p), NEW s \in Endpoint!RulesOf(p), r[1] = s[1]
             PROVE  r = s
  BY DEF Functional
<1>1. PICK a \in p.paths : r \in Endpoint!Rules(a)
  BY DEF Endpoint!RulesOf
<1>2. PICK b \in p.paths : s \in Endpoint!Rules(b)
  BY DEF Endpoint!RulesOf
<1>3. a = b
  BY DEF Endpoint!OnePath
<1> QED
  BY <1>1, <1>2, <1>3, RulesHavePlaces DEF Functional

-----------------------------------------------------------------------------
(***************************************************************************)
(* What is left at the end                                                 *)
(***************************************************************************)
\* What a program has no longer goes away at the end, and nothing else.
LEMMA Finishing ==
    ASSUME NEW rules, NEW kept, NEW gone,
           Separate(rules, gone), kept \subseteq rules
    PROVE  /\ Separate(kept, {})
           /\ (Sources(rules) \cup gone) \ (gone \cup Sources(rules \ kept)) = Sources(kept)
BY DEF Separate, Functional, Injective, Sources

-----------------------------------------------------------------------------
\* The invariant holds initially.
LEMMA InitIInv == Endpoint!Init => IInv
BY DEF Endpoint!Init, IInv, Consistent, Separate, Underway, Endpoint!IngressIsDeclared, Endpoint!Ended, Functional, Injective, Sources

LEMMA UpIInv == ASSUME IInv, Endpoint!Up PROVE IInv'
<1>1. PICK p \in ClusterPrograms :
        /\ IF Endpoint!Accepted(p) /\ (Endpoint!HasCluster(p) => Endpoint!Reviewed(p))
           THEN /\ pursued' = {p} /\ bringing' = "up" /\ registered' = {}
                /\ ingress' = ingress \ replaced /\ replaced' = {}
                /\ constant' = constant \cap Endpoint!RulesOf(p)
                /\ UNCHANGED result
           ELSE result' = "refused" /\ UNCHANGED <<pursued, bringing, registered, ingress, replaced, constant>>
        /\ UNCHANGED <<cluster, known, day>>
  BY DEF Endpoint!Up
<1>2. bringing = "none"
  BY DEF Endpoint!Up
<1>3. CASE Endpoint!Accepted(p) /\ (Endpoint!HasCluster(p) => Endpoint!Reviewed(p))
  <2>1. /\ pursued' = {p} /\ bringing' = "up" /\ registered' = {} /\ known' = known
        /\ ingress' = ingress \ replaced /\ replaced' = {}
        /\ constant' = constant \cap Endpoint!RulesOf(p)
    BY <1>1, <1>3
  <2>2. Endpoint!Goal' = p
    BY <2>1 DEF Endpoint!Goal
  <2>3. Consistent'
    BY <2>1 DEF IInv, Consistent, Separate
  <2>4. Underway'
    BY <2>1, <2>2 DEF IInv, Underway
  <2> QED
    BY <2>1, <2>3, <2>4 DEF IInv, Endpoint!IngressIsDeclared, Endpoint!Ended
<1>4. CASE ~(Endpoint!Accepted(p) /\ (Endpoint!HasCluster(p) => Endpoint!Reviewed(p)))
  <2>1. result' = "refused" /\ UNCHANGED <<pursued, bringing, registered, ingress, replaced, constant, known>>
    BY <1>1, <1>4
  <2> QED
    BY <2>1 DEF IInv, Consistent, Underway, Endpoint!IngressIsDeclared, Endpoint!Ended, Endpoint!Goal
<1> QED
  BY <1>3, <1>4

LEMMA RegisterClusterIInv == ASSUME IInv, Endpoint!RegisterCluster PROVE IInv'
<1>1. UNCHANGED <<known, replaced, ingress, pursued, constant>>
  BY DEF Endpoint!RegisterCluster
<1>2. Consistent'
  BY <1>1 DEF IInv, Consistent
<1>3. Endpoint!Goal' = Endpoint!Goal
  BY <1>1 DEF Endpoint!Goal
<1>4. CASE Endpoint!Brings(Endpoint!ClusterUrn)
  <2>1. bringing' = bringing /\ result' = result /\ registered' = registered \cup {Endpoint!ClusterUrn} /\ bringing = "up"
    BY <1>4 DEF Endpoint!Brings, Endpoint!RegisterCluster
  <2>2. ASSUME NEW r \in Endpoint!RulesOf(Endpoint!Goal)
        PROVE  r[1] # Endpoint!ClusterUrn
    <3>1. PICK a \in Endpoint!Goal.paths : r \in Endpoint!Rules(a)
      BY DEF Endpoint!RulesOf
    <3>2. PICK k \in 1..3 : \E i \in DOMAIN Endpoint!Operators(a)[k] :
            r = <<<<Endpoint!Kinds[k], i>>, <<Endpoint!Kinds[k], Endpoint!Operators(a)[k][i]>>>>
      BY <3>1 DEF Endpoint!Rules
    <3>3. Endpoint!Kinds[k] \in {"cidr", "ipv6", "source-sg"}
      BY DEF Endpoint!Kinds
    <3> QED
      BY <3>2, <3>3 DEF Endpoint!ClusterUrn
  <2>3. Underway'
    BY <1>1, <1>3, <2>1, <2>2 DEF IInv, Underway
  <2> QED
    BY <1>2, <2>1, <2>3 DEF IInv, Endpoint!IngressIsDeclared, Endpoint!Ended
<1>5. CASE Endpoint!Fails
  BY <1>1, <1>2, <1>3, <1>5 DEF IInv, Underway, Endpoint!IngressIsDeclared, Endpoint!Ended, Endpoint!Fails
<1> QED
  BY <1>4, <1>5 DEF Endpoint!RegisterCluster

\* A rule of the program's that the engine knows of, that AWS takes, or that it refuses.
LEMMA RegisterRuleIInv ==
    ASSUME Endpoint!OnePath, IInv, NEW rule \in Endpoint!RulesOf(Endpoint!Goal), Endpoint!RegisterRule(rule)
    PROVE  IInv'
<1>1. /\ bringing = "up" /\ UNCHANGED <<pursued, constant>>
      /\ IF rule \in known THEN Endpoint!Brings(rule[1]) /\ UNCHANGED <<known, replaced, ingress>>
         ELSE IF Endpoint!Refused(rule[2]) THEN Endpoint!Fails /\ UNCHANGED <<known, replaced, ingress>>
         ELSE LET old == {r \in known : r[1] = rule[1]}
              IN  /\ Endpoint!Brings(rule[1])
                  /\ known' = (known \ old) \cup {rule}
                  /\ replaced' = replaced \cup {r[2] : r \in old}
                  /\ ingress' = ingress \cup {rule[2]}
  BY DEF Endpoint!RegisterRule
<1>2. PICK p \in ClusterPrograms : pursued = {p}
  BY <1>1 DEF IInv, Underway
<1>3. Endpoint!Goal = p /\ Endpoint!Goal' = p
  BY <1>1, <1>2 DEF Endpoint!Goal
<1>4. Functional(Endpoint!RulesOf(p))
  BY <1>2, ProgramsHavePlaces
<1>5. CASE rule \in known
  <2>1. /\ bringing' = "up" /\ result' = result /\ registered' = registered \cup {rule[1]}
        /\ UNCHANGED <<known, replaced, ingress>>
    BY <1>1, <1>5 DEF Endpoint!Brings
  <2>2. Consistent'
    BY <2>1 DEF IInv, Consistent
  <2>3. ASSUME NEW r \in Endpoint!RulesOf(p), r[1] \in registered'
        PROVE  r \in known'
    <3>1. CASE r[1] \in registered
      BY <1>1, <1>3, <2>1, <3>1 DEF IInv, Underway
    <3>2. CASE r[1] = rule[1]
      BY <1>3, <1>4, <1>5, <2>1, <3>2 DEF Functional
    <3> QED
      BY <2>1, <2>3, <3>1, <3>2
  <2>4. Underway'
    BY <1>1, <1>2, <1>3, <2>1, <2>3 DEF IInv, Underway
  <2> QED
    BY <2>1, <2>2, <2>4 DEF IInv, Endpoint!IngressIsDeclared, Endpoint!Ended
<1>6. CASE rule \notin known /\ Endpoint!Refused(rule[2])
  <2>1. bringing' = "none" /\ result' = "failed" /\ UNCHANGED <<known, replaced, ingress>>
    BY <1>1, <1>6 DEF Endpoint!Fails
  <2> QED
    BY <1>1, <1>2, <2>1 DEF IInv, Consistent, Underway, Endpoint!IngressIsDeclared, Endpoint!Ended
<1>7. CASE rule \notin known /\ ~Endpoint!Refused(rule[2])
  <2> DEFINE old == OfPlace(known, rule[1])
  <2>1. /\ bringing' = "up" /\ result' = result /\ registered' = registered \cup {rule[1]}
        /\ known' = (known \ old) \cup {rule}
        /\ replaced' = replaced \cup Sources(old)
        /\ ingress' = ingress \cup {rule[2]}
    BY <1>1, <1>7 DEF Endpoint!Brings, Sources, OfPlace
  <2>2. rule[2] \notin ingress
    BY <1>7 DEF Endpoint!Refused
  <2>3. Consistent'
    <3>1. Separate(known, replaced) /\ ingress = Sources(known) \cup replaced
      BY DEF IInv, Consistent
    <3>2. rule[2] \notin Sources(known) \cup replaced
      BY <2>2, <3>1
    <3> DEFINE new == (known \ old) \cup {rule}
    \* A rule takes the place of another, or a new one.
    <3>3. /\ Separate(new, replaced \cup Sources(old))
          /\ Sources(new) \cup (replaced \cup Sources(old))
               = (Sources(known) \cup replaced) \cup {rule[2]}
      BY <3>1, <3>2 DEF Separate, Functional, Injective, Sources, OfPlace
    <3> QED
      BY <2>1, <3>1, <3>3 DEF Consistent
  <2>4. ASSUME NEW r \in Endpoint!RulesOf(p), r \in known \/ r = rule
        PROVE  r \in known'
    <3>1. CASE r[1] = rule[1]
      BY <1>3, <1>4, <2>1, <3>1 DEF Functional
    <3>2. CASE r[1] # rule[1]
      BY <2>1, <2>4, <3>2 DEF OfPlace
    <3> QED
      BY <3>1, <3>2
  <2>5. ASSUME NEW r \in Endpoint!RulesOf(p), r[1] \in registered'
        PROVE  r \in known'
    <3>1. CASE r[1] \in registered
      <4>1. r \in known
        BY <1>1, <1>3, <3>1 DEF IInv, Underway
      <4> QED
        BY <2>4, <4>1
    <3>2. CASE r[1] = rule[1]
      <4>1. r = rule
        BY <1>3, <1>4, <3>2 DEF Functional
      <4> QED
        BY <2>4, <4>1
    <3> QED
      BY <2>1, <2>5, <3>1, <3>2
  <2>6. constant' \subseteq known' /\ constant' \subseteq Endpoint!RulesOf(p)
    <3>1. constant' = constant /\ constant \subseteq Endpoint!RulesOf(p) /\ constant \subseteq known
      BY <1>1, <1>3 DEF IInv, Underway
    <3> QED
      BY <2>4, <3>1
  <2>7. Underway'
    BY <1>1, <1>2, <1>3, <2>5, <2>6 DEF Underway
  <2> QED
    BY <2>1, <2>3, <2>7 DEF IInv, Endpoint!IngressIsDeclared, Endpoint!Ended
<1> QED
  BY <1>5, <1>6, <1>7

\* A deployment that ends well has brought about every rule of its program.
LEMMA FinishIInv == ASSUME Endpoint!OnePath, IInv, Endpoint!Finish PROVE IInv'
<1>1. PICK p \in ClusterPrograms : pursued = {p}
  BY DEF IInv, Underway, Endpoint!Finish
<1>2. Endpoint!Goal = p /\ Endpoint!Goal' = p /\ pursued' = {p}
  BY <1>1 DEF Endpoint!Goal, Endpoint!Finish
<1>3. Endpoint!RulesOf(p) \subseteq known
  <2>1. \A r \in Endpoint!RulesOf(p) : r[1] \in registered
    BY <1>2 DEF Endpoint!Finish
  <2> QED
    BY <1>2, <2>1 DEF IInv, Underway, Endpoint!Finish
<1>4. Separate(known, replaced) /\ ingress = Sources(known) \cup replaced
  BY DEF IInv, Consistent
<1>5. /\ Separate(Endpoint!RulesOf(p), {})
      /\ ingress \ (replaced \cup Sources(known \ Endpoint!RulesOf(p))) = Sources(Endpoint!RulesOf(p))
  BY <1>3, <1>4, Finishing
<1>6. /\ known' = Endpoint!RulesOf(p) /\ replaced' = {} /\ constant' = Endpoint!RulesOf(p) /\ bringing' = "none"
      /\ ingress' = ingress \ (replaced \cup Sources(known \ Endpoint!RulesOf(p)))
  BY <1>2 DEF Endpoint!Finish, Sources
<1>7. Consistent'
  BY <1>5, <1>6 DEF Consistent
<1>8. Underway'
  BY <1>1, <1>2, <1>6 DEF Underway
<1>9. Endpoint!IngressIsDeclared'
  BY <1>2, <1>5, <1>6 DEF Endpoint!IngressIsDeclared, Endpoint!SourcesOf, Sources
<1> QED
  BY <1>7, <1>8, <1>9 DEF IInv

-----------------------------------------------------------------------------
\* What the sorted list covers reaches the last address of a family just when every
\* address of it is in a block (analyzeCidrCoverage in cidr-coverage.ts).
LEMMA CoveredExactly ==
    ASSUME NEW cidrs \in Seq(Endpoint!Cidr), \A c \in Endpoint!ToSet(cidrs) : Endpoint!Parses(c),
           NEW f \in Endpoint!Families
    PROVE  Endpoint!CoveredFromZero(cidrs, f) >= Endpoint!LastAddress(f)
              <=> \A address \in 0..Endpoint!LastAddress(f) : \E c \in Endpoint!ToSet(cidrs) :
                     c.family = f /\ address \in Endpoint!Start(c)..Endpoint!End(c)
<1>. DEFINE n == Len(cidrs)
            key == [i \in 1..n |-> Endpoint!Start(cidrs[i])]
            fin == [i \in 1..n |-> Endpoint!End(cidrs[i])]
<1>1. /\ n \in Nat /\ DOMAIN cidrs = 1..n
      /\ \A i \in 1..n : cidrs[i] \in Endpoint!Cidr /\ cidrs[i] \in Endpoint!ToSet(cidrs)
      /\ \A c \in Endpoint!ToSet(cidrs) : \E i \in 1..n : c = cidrs[i]
  BY DEF Endpoint!ToSet
<1>2. \A i \in 1..n : Endpoint!Start(cidrs[i]) \in Int /\ Endpoint!End(cidrs[i]) \in Int
  BY <1>1, StartIsInt
<1>. HIDE DEF n
<1>3. key \in [1..n -> Int] /\ fin \in [1..n -> Int]
  BY <1>2
<1>4. \A i \in 1..n : key[i] = Endpoint!Start(cidrs[i]) /\ fin[i] = Endpoint!End(cidrs[i])
  OBVIOUS
<1>. HIDE DEF key, fin
<1>. DEFINE o == CHOOSE q \in [DOMAIN cidrs -> DOMAIN cidrs] : Endpoint!Sorts(q, cidrs)
<1>5. \A q \in [1..n -> 1..n] : Ordering(q, key, n) <=> Endpoint!Sorts(q, cidrs)
  <2>. SUFFICES ASSUME NEW q \in [1..n -> 1..n]  PROVE Ordering(q, key, n) <=> Endpoint!Sorts(q, cidrs)
    OBVIOUS
  <2>1. Endpoint!Range(q) = 1..n <=> \A m \in 1..n : \E i \in 1..n : q[i] = m
    BY DEF Endpoint!Range
  <2>2. \A i \in 1..n : key[q[i]] = Endpoint!Start(cidrs[q[i]])
    BY <1>4
  <2>3. Endpoint!Sorts(q, cidrs) <=>
           /\ Endpoint!Range(q) = 1..n
           /\ \A i, j \in 1..n : i < j => Endpoint!Start(cidrs[q[i]]) <= Endpoint!Start(cidrs[q[j]])
    BY <1>1 DEF Endpoint!Sorts
  <2>. QED
    BY <2>1, <2>2, <2>3 DEF Ordering
<1>6. o \in [1..n -> 1..n] /\ Ordering(o, key, n)
  <2>1. PICK q : Ordering(q, key, n)
    BY <1>1, <1>3, SomeOrdering
  <2>2. q \in [1..n -> 1..n] /\ Endpoint!Sorts(q, cidrs)
    BY <1>5, <2>1 DEF Ordering
  <2>3. o \in [1..n -> 1..n] /\ Endpoint!Sorts(o, cidrs)
    BY <1>1, <2>2
  <2>. QED
    BY <1>5, <2>3
<1>. DEFINE Grown(v) == v = [i \in 0..Len(cidrs) |->
                               IF i = 0 THEN -1 ELSE Endpoint!Extend(f, v[i - 1], cidrs[o[i]])]
            w == CHOOSE v : Grown(v)
<1>7. Endpoint!CoveredFromZero(cidrs, f) = w[n]
  BY DEF Endpoint!CoveredFromZero, n
<1>. HIDE DEF o
<1>8. \A i \in 1..n : o[i] \in 1..n /\ cidrs[o[i]] \in Endpoint!Cidr
  BY <1>1, <1>6
<1>9. \E v : Grown(v)
  <2>. DEFINE h == [x \in Int \X (1..n) |-> Endpoint!Extend(f, x[1], cidrs[o[x[2]]])]
  <2>1. Steps(h, n)
    BY <1>2, <1>8 DEF Endpoint!Extend, Steps
  <2>2. PICK v : Solution(v, -1, h, n)
    <3>. HIDE DEF h
    <3>1. n \in Nat
      BY <1>1
    <3>. HIDE DEF n
    <3>. QED
      BY <2>1, <3>1, Recursion
  <2>3. ASSUME NEW i \in 0..n
        PROVE  v[i] = IF i = 0 THEN -1 ELSE Endpoint!Extend(f, v[i - 1], cidrs[o[i]])
    <3>1. CASE i = 0
      BY <2>2, <3>1 DEF Solution
    <3>2. CASE i # 0
      <4>1. i \in 1..n /\ v[i - 1] \in Int
        BY <1>1, <2>2, <3>2 DEF Solution
      <4>. QED
        BY <2>2, <3>2, <4>1 DEF Solution
    <3>. QED
      BY <3>1, <3>2
  <2>4. v = [i \in 0..n |-> v[i]]
    <3>. HIDE DEF h
    <3>. QED
      BY <2>2 DEF Solution
  <2>5. Grown(v)
    BY <2>3, <2>4 DEF n
  <2>. QED
    BY <2>5
<1>10. Grown(w)
  <2>. HIDE DEF Grown
  <2>. QED
    BY <1>9
<1>11. \A i \in 0..n : w[i] = IF i = 0 THEN -1 ELSE Endpoint!Extend(f, w[i - 1], cidrs[o[i]])
  BY <1>10 DEF n
<1>. HIDE DEF w, Grown
<1>. DEFINE k == [i \in 1..n |-> key[o[i]]]
            e == [i \in 1..n |-> fin[o[i]]]
            Own == {i \in 1..n : cidrs[o[i]].family = f}
<1>12. k \in [1..n -> Int] /\ e \in [1..n -> Int] /\ \A i, j \in 1..n : i < j => k[i] <= k[j]
  BY <1>3, <1>6 DEF Ordering
<1>13. ASSUME NEW i \in 1..n
       PROVE  w[i] = IF i \notin Own \/ k[i] > w[i - 1] + 1 \/ e[i] < w[i - 1] THEN w[i - 1] ELSE e[i]
  <2>1. i \in 0..n /\ i # 0
    BY <1>1
  <2>2. w[i] = Endpoint!Extend(f, w[i - 1], cidrs[o[i]])
    BY <1>11, <2>1
  <2>3. k[i] = Endpoint!Start(cidrs[o[i]]) /\ e[i] = Endpoint!End(cidrs[o[i]])
    BY <1>4, <1>8
  <2>. QED
    BY <2>2, <2>3 DEF Endpoint!Extend
<1>14. w[0] = -1
  BY <1>1, <1>11
<1>15. \A i \in 1..n : /\ i \in Own <=> cidrs[o[i]].family = f
                       /\ k[i] = Endpoint!Start(cidrs[o[i]]) /\ e[i] = Endpoint!End(cidrs[o[i]])
  BY <1>4, <1>8
<1>. HIDE DEF k, e, Own
<1>16. /\ w[n] \in Int /\ -1 <= w[n]
       /\ \A a \in 0..w[n] : \E j \in 1..n : j \in Own /\ k[j] <= a /\ a <= e[j]
       /\ \A j \in 1..n : j \in Own => e[j] <= w[n] \/ k[j] > w[n] + 1
  BY <1>1, <1>12, <1>13, <1>14, Growth
<1>. DEFINE last == Endpoint!LastAddress(f)
<1>17. last \in Nat
  BY EndpointAssumption
<1>. HIDE DEF last
<1>18. ASSUME w[n] >= last, NEW a \in 0..last
       PROVE  \E c \in Endpoint!ToSet(cidrs) : c.family = f /\ a \in Endpoint!Start(c)..Endpoint!End(c)
  <2>1. a \in 0..w[n]
    BY <1>16, <1>17, <1>18
  <2>2. PICK j \in 1..n : j \in Own /\ k[j] <= a /\ a <= e[j]
    BY <1>16, <2>1
  <2>3. cidrs[o[j]] \in Endpoint!ToSet(cidrs)
    BY <1>1, <1>8
  <2>4. cidrs[o[j]].family = f /\ a \in Endpoint!Start(cidrs[o[j]])..Endpoint!End(cidrs[o[j]])
    BY <1>2, <1>8, <1>15, <1>17, <2>2
  <2>. QED
    BY <2>3, <2>4
<1>19. ASSUME ~ (w[n] >= last)
       PROVE  \E a \in 0..last : \A c \in Endpoint!ToSet(cidrs) :
                 ~ (c.family = f /\ a \in Endpoint!Start(c)..Endpoint!End(c))
  <2>. DEFINE a == w[n] + 1
  <2>1. a \in 0..last
    BY <1>16, <1>17, <1>19
  <2>2. ASSUME NEW c \in Endpoint!ToSet(cidrs), c.family = f
        PROVE  a \notin Endpoint!Start(c)..Endpoint!End(c)
    <3>1. PICK i \in 1..n : c = cidrs[i]
      BY <1>1
    <3>2. PICK j \in 1..n : o[j] = i
      BY <1>6, <3>1 DEF Ordering
    <3>3. k[j] = Endpoint!Start(c) /\ e[j] = Endpoint!End(c) /\ j \in Own
      BY <1>15, <2>2, <3>1, <3>2
    <3>4. e[j] <= w[n] \/ k[j] > w[n] + 1
      BY <1>16, <3>3
    <3>5. k[j] \in Int /\ e[j] \in Int
      BY <1>12
    <3>. QED
      BY <1>16, <3>3, <3>4, <3>5
  <2>. QED
    BY <2>1, <2>2
<1>. QED
  BY <1>7, <1>18, <1>19 DEF last

\* The review of a list of CIDRs (analyzeCidrCoverage in cidr-coverage.ts), for every width
\* of an address and every list that can be read: it says that the list is open to the
\* internet exactly when the blocks add up to every address of a family, however they are
\* ordered, overlap or split.
THEOREM CoverageExact ==
    ASSUME NEW cidrs \in Seq(Endpoint!Cidr), \A c \in Endpoint!ToSet(cidrs) : Endpoint!Parses(c)
    PROVE  Endpoint!Coverage(cidrs) = "internet" <=> Endpoint!Everyone(Endpoint!ToSet(cidrs))
BY CoveredExactly DEF Endpoint!Coverage, Endpoint!Everyone

\* Nor do fewer blocks than those of a narrow list add up to everyone.
LEMMA NarrowLists ==
    ASSUME NEW cidrs \in Seq(Endpoint!Cidr), Endpoint!Coverage(cidrs) = "narrow",
           NEW blocks, blocks \subseteq Endpoint!ToSet(cidrs)
    PROVE  ~ Endpoint!Everyone(blocks)
<1>1. ~ Endpoint!Everyone(Endpoint!ToSet(cidrs))
  BY CoverageExact DEF Endpoint!Coverage
<1>. QED
  BY <1>1 DEF Endpoint!Everyone

LEMMA NoBlocks == ~ Endpoint!Everyone({})
<1>1. \A f \in Endpoint!Families : 0 \in 0..Endpoint!LastAddress(f)
  BY EndpointAssumption
<1>. QED
  BY <1>1 DEF Endpoint!Everyone

-----------------------------------------------------------------------------
(***************************************************************************)
(* The cluster and its review                                              *)
(***************************************************************************)
\* A public cluster has passed the review of its list, or somebody excused it who did not
\* use the foundation; and what is deployed was accepted.
Narrow(cidrs) == cidrs # <<>> /\ cidrs \in Seq(Endpoint!Cidr) /\ Endpoint!Coverage(cidrs) = "narrow"

Screened ==
    /\ cluster.public => (cluster.excused /\ ~cluster.tagged) \/ Narrow(cluster.cidrs)
    /\ bringing = "up" \/ Endpoint!Ended =>
          \E p \in ClusterPrograms : pursued = {p} /\ Endpoint!Accepted(p)

LEMMA ScreenedInit == Endpoint!Init => Screened
BY DEF Endpoint!Init, Endpoint!NoCluster, Endpoint!Ended, Screened

\* What becomes of the cluster.
LEMMA ScreenedCluster ==
    ASSUME NEW p \in ClusterPrograms, Endpoint!Accepted(p), Endpoint!HasCluster(p),
           Endpoint!Reviewed(p), Endpoint!ClusterOf(p).public
    PROVE  \/ Endpoint!Silenced("CL-1", p) /\ ~Endpoint!ClusterOf(p).tagged
           \/ Narrow(Endpoint!ClusterOf(p).cidrs)
<1>. DEFINE c == Endpoint!ClusterOf(p)
<1>1. CASE p.by = "foundation"
  <2>1. c = Endpoint!OfFoundation(p.cluster) /\ p.cluster.cidrs \in Seq(Endpoint!Cidr)
    BY <1>1, EndpointAssumption DEF Endpoint!ClusterOf
  <2>2. p.cluster.mode = "restricted-public" /\ c.cidrs = p.cluster.cidrs
    <3>1. c.public
      OBVIOUS
    <3>. HIDE DEF c
    <3>2. p.cluster.mode = "restricted-public"
      BY <2>1, <3>1 DEF Endpoint!OfFoundation
    <3>. QED
      BY <2>1, <3>2 DEF Endpoint!OfFoundation
  <2>3. p.cluster.cidrs # <<>> /\ Endpoint!Coverage(p.cluster.cidrs) = "narrow"
    BY <1>1, <2>2 DEF Endpoint!Accepted, Endpoint!HasCluster, Endpoint!ValidFoundation
  <2>. QED
    BY <2>1, <2>2, <2>3 DEF Narrow
<1>2. CASE p.by # "foundation"
  <2>1. ~c.tagged /\ c.cidrs \in Seq(Endpoint!Cidr)
    <3>1. CASE p.by = "path"
      <4>1. PICK a \in p.paths : c = Endpoint!OfPath(a)
        BY <3>1, EndpointAssumption DEF Endpoint!ClusterOf
      <4>. QED
        BY <4>1, EndpointAssumption DEF Endpoint!OfPath
    <3>2. CASE p.by = "itself"
      BY <3>2, EndpointAssumption DEF Endpoint!ClusterOf
    <3>. QED
      BY <1>2, <3>1, <3>2, EndpointAssumption
  <2>2. Endpoint!Silenced("CL-1", p) \/ Endpoint!CL1(c)
    BY DEF Endpoint!Reviewed
  <2>. QED
    BY <2>1, <2>2 DEF Endpoint!CL1, Narrow
<1>. QED
  BY <1>1, <1>2

LEMMA ScreenedStep == Screened /\ [Endpoint!Next]_endpointVars => Screened'
<1>. SUFFICES ASSUME Screened, [Endpoint!Next]_endpointVars  PROVE Screened'
  OBVIOUS
<1>1. CASE Endpoint!Up
  <2>1. bringing = "none" /\ UNCHANGED cluster
    BY <1>1 DEF Endpoint!Up
  <2>2. \/ \E p \in ClusterPrograms : Endpoint!Accepted(p) /\ pursued' = {p}
        \/ result' = "refused" /\ UNCHANGED <<pursued, bringing>>
    BY <1>1 DEF Endpoint!Up
  <2>3. \A p : Endpoint!Accepted(p)' <=> Endpoint!Accepted(p)
    BY DEF Endpoint!Accepted, Endpoint!ValidFoundation, Endpoint!ValidPath
  <2>. QED
    BY <2>1, <2>2, <2>3 DEF Screened, Endpoint!Ended
<1>2. CASE Endpoint!RegisterCluster
  <2>1. bringing = "up" /\ Endpoint!HasCluster(Endpoint!Goal) /\ UNCHANGED pursued
    BY <1>2 DEF Endpoint!RegisterCluster
  <2>2. PICK p \in ClusterPrograms : pursued = {p} /\ Endpoint!Accepted(p)
    BY <2>1 DEF Screened
  <2>3. Endpoint!Goal = p
    BY <2>2 DEF Endpoint!Goal
  <2>4. CASE UNCHANGED cluster
    BY <2>1, <2>2, <2>4 DEF Screened
  <2>5. CASE ~ UNCHANGED cluster
    <3>1. /\ Endpoint!Reviewed(p)
          /\ cluster' = [public |-> Endpoint!ClusterOf(p).public, cidrs |-> Endpoint!ClusterOf(p).cidrs,
                         audit |-> Endpoint!ClusterOf(p).audit, tagged |-> Endpoint!ClusterOf(p).tagged,
                         excused |-> Endpoint!Silenced("CL-1", p), exists |-> TRUE]
      BY <1>2, <2>3, <2>5 DEF Endpoint!RegisterCluster
    <3>2. cluster'.public => (cluster'.excused /\ ~cluster'.tagged) \/ Narrow(cluster'.cidrs)
      BY <2>1, <2>2, <2>3, <3>1, ScreenedCluster
    <3>. QED
      BY <2>1, <2>2, <3>2 DEF Screened
  <2>. QED
    BY <2>4, <2>5
<1>3. CASE bringing = "up" /\ \E r \in Endpoint!RulesOf(Endpoint!Goal) : Endpoint!RegisterRule(r)
  BY <1>3 DEF Screened, Endpoint!RegisterRule
<1>4. CASE Endpoint!Finish
  <2>1. bringing = "up" /\ UNCHANGED pursued
        /\ (cluster' = cluster \/ cluster' = Endpoint!NoCluster)
    BY <1>4 DEF Endpoint!Finish
  <2>. QED
    BY <2>1 DEF Screened, Endpoint!NoCluster
<1>5. CASE Endpoint!Interrupt
  BY <1>5 DEF Endpoint!Interrupt, Screened, Endpoint!Ended
<1>6. CASE Endpoint!Tick
  BY <1>6 DEF Endpoint!Tick, Screened, Endpoint!Ended
<1>7. CASE UNCHANGED endpointVars
  BY <1>7 DEF endpointVars, Screened, Endpoint!Ended
<1>. QED
  BY <1>1, <1>2, <1>3, <1>4, <1>5, <1>6, <1>7 DEF Endpoint!Next

LEMMA PublicIsExcused == Screened => Endpoint!PublicEndpointsAreExcused
BY NarrowLists DEF Screened, Narrow, Endpoint!PublicEndpointsAreExcused

\* What a program's path has for sources.
LEMMA SourcesOfPath ==
    ASSUME NEW p \in ClusterPrograms, NEW x \in Endpoint!SourcesOf(p)
    PROVE  \E a \in p.paths :
              \/ x[1] = "cidr" /\ x[2] \in Endpoint!ToSet(a.cidrBlocks)
              \/ x[1] = "ipv6" /\ x[2] \in Endpoint!ToSet(a.ipv6CidrBlocks)
              \/ x[1] = "source-sg"
<1>1. PICK r \in Endpoint!RulesOf(p) : x = r[2]
  BY DEF Endpoint!SourcesOf
<1>2. PICK a \in p.paths : r \in Endpoint!Rules(a)
  BY <1>1 DEF Endpoint!RulesOf
<1>3. PICK k \in 1..3 : \E i \in DOMAIN Endpoint!Operators(a)[k] :
         r = <<<<Endpoint!Kinds[k], i>>, <<Endpoint!Kinds[k], Endpoint!Operators(a)[k][i]>>>>
  BY <1>2 DEF Endpoint!Rules
<1>4. PICK i \in DOMAIN Endpoint!Operators(a)[k] :
         r = <<<<Endpoint!Kinds[k], i>>, <<Endpoint!Kinds[k], Endpoint!Operators(a)[k][i]>>>>
  BY <1>3
<1>5. x[1] = Endpoint!Kinds[k] /\ x[2] = Endpoint!Operators(a)[k][i]
  BY <1>1, <1>4
<1>6. CASE k = 1
  BY <1>4, <1>5, <1>6 DEF Endpoint!Kinds, Endpoint!Operators, Endpoint!ToSet
<1>7. CASE k = 2
  BY <1>4, <1>5, <1>7 DEF Endpoint!Kinds, Endpoint!Operators, Endpoint!ToSet
<1>8. CASE k = 3
  BY <1>5, <1>8 DEF Endpoint!Kinds
<1>. QED
  BY <1>3, <1>6, <1>7, <1>8

LEMMA IngressIsNarrow ==
    ASSUME Screened, Endpoint!IngressIsDeclared
    PROVE  Endpoint!IngressIsNotEveryone
<1>. SUFFICES ASSUME Endpoint!Ended, NEW k \in {"cidr", "ipv6"}
              PROVE  ~ Endpoint!Everyone({s[2] : s \in {x \in ingress : x[1] = k}})
  BY DEF Endpoint!IngressIsNotEveryone
<1>. DEFINE blocks == {s[2] : s \in {x \in ingress : x[1] = k}}
<1>1. PICK p \in ClusterPrograms : pursued = {p} /\ Endpoint!Accepted(p)
  BY DEF Screened
<1>2. ingress = Endpoint!SourcesOf(p)
  BY <1>1 DEF Endpoint!IngressIsDeclared, Endpoint!Goal
<1>3. CASE p.paths = {}
  <2>1. ingress = {}
    BY <1>2, <1>3, SourcesOfPath
  <2>2. blocks = {}
    BY <2>1
  <2>. QED
    BY <2>2, NoBlocks
<1>4. ASSUME NEW a \in p.paths  PROVE ~ Endpoint!Everyone(blocks)
  <2>1. \A b \in p.paths : a = b
    BY EndpointAssumption DEF Endpoint!OnePath
  <2>2. /\ a.cidrBlocks \in Seq(Endpoint!Cidr) /\ Endpoint!Coverage(a.cidrBlocks) = "narrow"
        /\ a.ipv6CidrBlocks \in Seq(Endpoint!Cidr) /\ Endpoint!Coverage(a.ipv6CidrBlocks) = "narrow"
    BY <1>1, EndpointAssumption DEF Endpoint!Accepted, Endpoint!ValidPath
  <2>3. ASSUME NEW x \in ingress
        PROVE  /\ x[1] = "cidr" => x[2] \in Endpoint!ToSet(a.cidrBlocks)
               /\ x[1] = "ipv6" => x[2] \in Endpoint!ToSet(a.ipv6CidrBlocks)
    BY <1>2, <2>1, SourcesOfPath
  <2>4. CASE k = "cidr"
    <3>1. ASSUME NEW s \in {x \in ingress : x[1] = k}  PROVE s[2] \in Endpoint!ToSet(a.cidrBlocks)
      <4>1. s \in ingress /\ s[1] = "cidr"
        BY <2>4
      <4>. QED
        BY <2>3, <4>1
    <3>2. blocks \subseteq Endpoint!ToSet(a.cidrBlocks)
      BY <3>1
    <3>. HIDE DEF blocks
    <3>. QED
      BY <2>2, <3>2, NarrowLists
  <2>5. CASE k = "ipv6"
    <3>1. ASSUME NEW s \in {x \in ingress : x[1] = k}  PROVE s[2] \in Endpoint!ToSet(a.ipv6CidrBlocks)
      <4>1. s \in ingress /\ s[1] = "ipv6"
        BY <2>5
      <4>. QED
        BY <2>3, <4>1
    <3>2. blocks \subseteq Endpoint!ToSet(a.ipv6CidrBlocks)
      BY <3>1
    <3>. HIDE DEF blocks
    <3>. QED
      BY <2>2, <3>2, NarrowLists
  <2>. QED
    BY <2>4, <2>5
<1>. QED
  BY <1>3, <1>4

LEMMA OperatorsArePresent ==
    ASSUME Screened, Endpoint!IngressIsDeclared
    PROVE  Endpoint!OperatorsComeIn
<1>. SUFFICES ASSUME Endpoint!Ended, NEW a \in Endpoint!Goal.paths, a.mode = "private", a.createRules
              PROVE  ingress # {}
  BY DEF Endpoint!OperatorsComeIn
<1>1. PICK p \in ClusterPrograms : pursued = {p} /\ Endpoint!Accepted(p)
  BY DEF Screened
<1>2. Endpoint!Goal = p
  BY <1>1 DEF Endpoint!Goal
<1>3. ingress = Endpoint!SourcesOf(p) /\ a \in p.paths
  BY <1>2 DEF Endpoint!IngressIsDeclared
<1>4. Endpoint!HasOperators(a) /\ a.group
  BY <1>1, <1>3 DEF Endpoint!Accepted, Endpoint!ValidPath
<1>5. PICK k \in 1..3 : Endpoint!Operators(a)[k] # <<>>
  BY <1>4 DEF Endpoint!HasOperators
<1>6. PICK i : i \in DOMAIN Endpoint!Operators(a)[k]
  <2>1. \E T : Endpoint!Operators(a)[k] \in Seq(T)
    <3>1. k = 1 \/ k = 2 \/ k = 3
      OBVIOUS
    <3>. QED
      BY <1>3, <3>1, EndpointAssumption DEF Endpoint!Operators
  <2>. DEFINE x == Endpoint!Operators(a)[k]
  <2>2. PICK T : x \in Seq(T)
    BY <2>1
  <2>3. x # <<>>
    BY <1>5
  <2>. HIDE DEF x
  <2>4. Len(x) \in Nat /\ Len(x) # 0 /\ DOMAIN x = 1..Len(x)
    BY <2>2, <2>3, EmptySeq
  <2>5. 1 \in DOMAIN x
    BY <2>4
  <2>. QED
    BY <2>5 DEF x
<1>. DEFINE r == <<<<Endpoint!Kinds[k], i>>, <<Endpoint!Kinds[k], Endpoint!Operators(a)[k][i]>>>>
<1>7. r \in Endpoint!Rules(a)
  BY <1>4, <1>6 DEF Endpoint!Rules
<1>8. r \in Endpoint!RulesOf(p)
  BY <1>3, <1>7 DEF Endpoint!RulesOf
<1>. QED
  BY <1>3, <1>8 DEF Endpoint!SourcesOf

-----------------------------------------------------------------------------
LEMMA IInvStep == IInv /\ [Endpoint!Next]_endpointVars => IInv'
<1>. SUFFICES ASSUME IInv, [Endpoint!Next]_endpointVars  PROVE IInv'
  OBVIOUS
<1>. Endpoint!OnePath
  BY EndpointAssumption
<1>1. CASE Endpoint!Up
  BY <1>1, UpIInv
<1>2. CASE Endpoint!RegisterCluster
  BY <1>2, RegisterClusterIInv
<1>3. CASE bringing = "up" /\ \E r \in Endpoint!RulesOf(Endpoint!Goal) : Endpoint!RegisterRule(r)
  BY <1>3, RegisterRuleIInv
<1>4. CASE Endpoint!Finish
  BY <1>4, FinishIInv
<1>5. CASE Endpoint!Interrupt
  BY <1>5 DEF Endpoint!Interrupt, IInv, Consistent, Underway, Endpoint!IngressIsDeclared, Endpoint!Ended, Endpoint!Goal
<1>6. CASE Endpoint!Tick
  BY <1>6 DEF Endpoint!Tick, IInv, Consistent, Underway, Endpoint!IngressIsDeclared, Endpoint!Ended, Endpoint!Goal
<1>7. CASE UNCHANGED endpointVars
  BY <1>7 DEF endpointVars, IInv, Consistent, Underway, Endpoint!IngressIsDeclared, Endpoint!Ended, Endpoint!Goal
<1>. QED
  BY <1>1, <1>2, <1>3, <1>4, <1>5, <1>6, <1>7 DEF Endpoint!Next

\* The endpoint of a cluster (eks-cluster-foundation.ts, eks-admin-access-path.ts,
\* cidr-coverage.ts and the EKS cluster pack), for every set of programs and every width of
\* addresses, and any number of deployments, failures and interruptions.
THEOREM EndpointHolds == Spec => []EndpointsAreReachedAsDeclared
<1>1. Init => IInv /\ Screened
  BY InitIInv, ScreenedInit DEF Init
<1>2. [Next]_vars => [Endpoint!Next]_endpointVars
  BY Alone
<1>3. IInv /\ Screened /\ [Next]_vars => (IInv /\ Screened)'
  BY <1>2, IInvStep, ScreenedStep
<1>4. IInv /\ Screened => EndpointsAreReachedAsDeclared
  <2>1. IInv => Endpoint!PlacedSourcesStay /\ Endpoint!IngressIsDeclared
    BY DEF IInv, Consistent, Underway, Endpoint!PlacedSourcesStay, Sources
  <2>. QED
    BY <2>1, PublicIsExcused, IngressIsNarrow, OperatorsArePresent
       DEF EndpointsAreReachedAsDeclared, Endpoint!EndpointsAreReachedAsDeclared
<1>. QED
  BY <1>1, <1>3, <1>4, PTL DEF Spec

-----------------------------------------------------------------------------
(***************************************************************************)
(* The types of Delivery                                                   *)
(***************************************************************************)
\* What a review was accepted of, or is on its way to be, it reported nothing of.
ReviewTypes ==
    /\ at \in {"declared", "built", "previewed", "accepted", "refused"} /\ fresh \in BOOLEAN
    /\ at \in {"previewed", "accepted"} => report = {}

LEMMA ReviewTypesStart == Init => ReviewTypes
BY DEF Init, Boundary!Init, ReviewTypes

LEMMA ReviewTypesStep == ReviewTypes /\ [Boundary!Next]_boundaryVars => ReviewTypes'
<1> SUFFICES ASSUME ReviewTypes, [Boundary!Next]_boundaryVars PROVE ReviewTypes'
  OBVIOUS
<1>1. CASE Boundary!Declare \/ Boundary!Throw \/ UNCHANGED boundaryVars
  BY <1>1 DEF Boundary!Declare, Boundary!Throw, boundaryVars, ReviewTypes
<1>2. CASE Boundary!Add \/ Boundary!Drop \/ Boundary!Alter
  <2>1. at' = "built" /\ fresh' = fresh
    BY <1>2 DEF Boundary!Add, Boundary!Drop, Boundary!Alter, Boundary!Touch
  <2>. QED
    BY <2>1 DEF ReviewTypes
<1>3. CASE Boundary!Preview
  <2>1. fresh' = fresh /\ \E broken : Boundary!Verdict(broken, "previewed")
    BY <1>3 DEF Boundary!Preview
  <2>. QED
    BY <2>1 DEF Boundary!Verdict, ReviewTypes
<1>4. CASE Boundary!Validate
  <2>1. fresh' = FALSE /\ \E broken : Boundary!Verdict(broken, "accepted")
    BY <1>4 DEF Boundary!Validate
  <2>. QED
    BY <2>1 DEF Boundary!Verdict, ReviewTypes
<1>. QED
  BY <1>1, <1>2, <1>3, <1>4 DEF Boundary!Next

LEMMA ReviewTyped ==
    ASSUME Reviewed, ReviewTypes, part = "boundary"
    PROVE  Boundary!TypeOK
<1>1. args \in BoundaryArgs /\ DOMAIN stack = Boundary!Types /\ reviewLeft \in 0..Touches
  BY DEF Reviewed, Sound, Formed
<1>2. at = "accepted" => Boundary!ValidArgs(args)
  BY DEF Reviewed, Sound
<1>. QED
  BY <1>1, <1>2 DEF ReviewTypes, Boundary!TypeOK

\* A cluster is there or not, excused or not; a deployment is under way or not.
EndpointTypes ==
    /\ cluster.exists \in BOOLEAN /\ cluster.excused \in BOOLEAN
    /\ bringing \in {"none", "up"}
    /\ result \in {"none", "refused", "failed", "stopped", "ok"}
    /\ day \in 0..EndpointHorizon /\ endpointLeft \in 0..EndpointLimit

LEMMA EndpointTypesStart == Endpoint!Init => EndpointTypes
BY EndpointAssumption DEF Endpoint!Init, Endpoint!NoCluster, EndpointTypes

LEMMA EndpointTypesStep == EndpointTypes /\ [Endpoint!Next]_endpointVars => EndpointTypes'
<1> SUFFICES ASSUME EndpointTypes, [Endpoint!Next]_endpointVars PROVE EndpointTypes'
  OBVIOUS
<1>0. ASSUME endpointLeft > 0, endpointLeft' = endpointLeft - 1
      PROVE  endpointLeft' \in 0..EndpointLimit
  BY <1>0, EndpointAssumption DEF EndpointTypes
<1>1. CASE Endpoint!Up
  <2>1. /\ endpointLeft > 0 /\ endpointLeft' = endpointLeft - 1 /\ UNCHANGED <<cluster, day>>
        /\ bringing' \in {bringing, "up"} /\ result' \in {result, "refused"}
    BY <1>1 DEF Endpoint!Up
  <2>. QED
    BY <1>0, <2>1 DEF EndpointTypes
<1>2. CASE Endpoint!RegisterCluster
  <2>1. UNCHANGED <<day, endpointLeft>> /\ bringing' \in {bringing, "none"}
        /\ result' \in {result, "failed"}
    BY <1>2 DEF Endpoint!RegisterCluster, Endpoint!Fails, Endpoint!Brings
  <2>2. CASE cluster' = cluster
    BY <2>1, <2>2 DEF EndpointTypes
  <2>3. CASE cluster' # cluster
    <3> DEFINE c == Endpoint!ClusterOf(Endpoint!Goal)
               silenced == Endpoint!Silenced("CL-1", Endpoint!Goal)
    <3>1. cluster' = [public |-> c.public, cidrs |-> c.cidrs, audit |-> c.audit,
                      tagged |-> c.tagged, excused |-> silenced, exists |-> TRUE]
      BY <1>2, <2>3 DEF Endpoint!RegisterCluster
    <3>2. silenced \in BOOLEAN
      BY DEF Endpoint!Silenced, Endpoint!Suppressed
    <3> HIDE DEF c, silenced
    <3>3. cluster'.excused \in BOOLEAN /\ cluster'.exists \in BOOLEAN
      BY <3>1, <3>2
    <3>. QED
      BY <2>1, <3>3 DEF EndpointTypes
  <2>. QED
    BY <2>2, <2>3
<1>3. CASE bringing = "up" /\ \E r \in Endpoint!RulesOf(Endpoint!Goal) : Endpoint!RegisterRule(r)
  <2>1. /\ UNCHANGED <<cluster, day, endpointLeft>> /\ bringing' \in {bringing, "none"}
        /\ result' \in {result, "failed"}
    BY <1>3 DEF Endpoint!RegisterRule, Endpoint!Fails, Endpoint!Brings
  <2>. QED
    BY <2>1 DEF EndpointTypes
<1>4. CASE Endpoint!Finish
  <2>1. /\ UNCHANGED <<day, endpointLeft>> /\ bringing' = "none" /\ result' = "ok"
        /\ cluster' = cluster \/ cluster' = Endpoint!NoCluster
    BY <1>4 DEF Endpoint!Finish
  <2>2. Endpoint!NoCluster.exists \in BOOLEAN /\ Endpoint!NoCluster.excused \in BOOLEAN
    BY DEF Endpoint!NoCluster
  <2>3. cluster'.exists \in BOOLEAN /\ cluster'.excused \in BOOLEAN
    BY <2>1, <2>2 DEF EndpointTypes
  <2>. QED
    BY <2>1, <2>3 DEF EndpointTypes
<1>5. CASE Endpoint!Interrupt
  BY <1>0, <1>5 DEF Endpoint!Interrupt, EndpointTypes
<1>6. CASE Endpoint!Tick
  <2>1. day' \in 0..EndpointHorizon
    BY <1>6, EndpointAssumption DEF Endpoint!Tick, EndpointTypes
  <2>. QED
    BY <1>6, <2>1 DEF Endpoint!Tick, EndpointTypes
<1>7. CASE UNCHANGED endpointVars
  BY <1>7 DEF endpointVars, EndpointTypes
<1>. QED
  BY <1>1, <1>2, <1>3, <1>4, <1>5, <1>6, <1>7 DEF Endpoint!Next

LEMMA EndpointTyped ==
    ASSUME IInv, EndpointTypes
    PROVE  Endpoint!TypeOK
<1>1. \A r, s \in known : r[1] = s[1] => r = s
  BY DEF IInv, Consistent, Separate, Functional
<1>2. {r[2] : r \in known} \cup replaced \subseteq ingress
  BY DEF IInv, Consistent, Sources
<1>3. Endpoint!Cardinality(pursued) <= 1
  <2>1. Endpoint!Cardinality(pursued) = Cardinality(pursued)
    BY DEF Endpoint!Cardinality, Cardinality
  <2>2. Cardinality(pursued) \in {0, 1}
    BY FS_EmptySet, FS_Singleton DEF IInv, Underway
  <2>. QED
    BY <2>1, <2>2
<1>. QED
  BY <1>1, <1>2, <1>3 DEF EndpointTypes, Endpoint!TypeOK

-----------------------------------------------------------------------------
\* The state of each program of Delivery is of its type, for every value of the
\* constants (scope-sync.ts, triage.ts, github-webhook-fallback.ts, the boundary's pack, the
\* deployment governance packs, eks-cluster-pack.ts and trusted-node-label-reconciler.ts).
THEOREM DeliveryTypes == Spec => []TypeOK
<1>. DEFINE All == /\ part \in Programs
                   /\ Peoples /\ Watchful /\ Claimed /\ Exact /\ Entitled
                   /\ Reviewed /\ Closed /\ Bounded /\ IInv
                   /\ ScopeTypes /\ TriageTypes /\ WebhookTypes /\ AuthorityTypes
                   /\ ReviewTypes /\ IssuerTypes /\ TrustTypes /\ EndpointTypes
<1>1. Init => All
  <2>. SUFFICES ASSUME Init PROVE All
    OBVIOUS
  <2>0. /\ part \in Programs /\ Scope!Init /\ Triage!Init /\ Webhook!Init /\ Authority!Init
        /\ Issuer!Init /\ Trust!Init /\ Endpoint!Init
    BY DEF Init
  <2>1. Peoples /\ ScopeTypes
    BY <2>0, PeoplesInit, ScopeTypesStart
  <2>2. Watchful /\ Claimed /\ TriageTypes
    BY <2>0, WatchfulInit, TriageTypesStart
  <2>3. Exact /\ WebhookTypes
    BY <2>0, ExactInit, WebhookTypesStart
  <2>4. Entitled /\ AuthorityTypes
    BY <2>0, EntitledInit, AuthorityTypesStart
  <2>5. Closed /\ IssuerTypes
    BY <2>0, ClosedInit, IssuerTypesStart
  <2>6. Bounded /\ TrustTypes
    BY <2>0, BoundedInit, TrustTypesStart
  <2>7. IInv /\ EndpointTypes
    BY <2>0, InitIInv, EndpointTypesStart
  <2>8. Reviewed /\ ReviewTypes
    BY ReviewedInit, ReviewTypesStart
  <2>. QED
    BY <2>0, <2>1, <2>2, <2>3, <2>4, <2>5, <2>6, <2>7, <2>8
<1>2. All /\ [Next]_vars => All'
  <2>. SUFFICES ASSUME All, [Next]_vars PROVE All'
    OBVIOUS
  <2>1. Peoples' /\ ScopeTypes'
    BY Alone, PeoplesStep, ScopeTypesStep
  <2>2. Watchful' /\ Claimed' /\ TriageTypes'
    BY Alone, WatchfulStep, TriageTypesStep
  <2>3. Exact' /\ WebhookTypes'
    BY Alone, ExactStep, WebhookTypesStep
  <2>4. Entitled' /\ AuthorityTypes'
    BY Alone, EntitledStep, AuthorityTypesStep
  <2>5. Closed' /\ IssuerTypes'
    BY Alone, ClosedStep, IssuerTypesStep
  <2>6. Bounded' /\ TrustTypes'
    BY Alone, BoundedStep, TrustTypesStep
  <2>7. IInv' /\ EndpointTypes'
    BY Alone, IInvStep, EndpointTypesStep
  <2>8. Reviewed' /\ ReviewTypes'
    BY Alone, ReviewedStep, ReviewTypesStep
  <2>. QED
    BY Alone, <2>1, <2>2, <2>3, <2>4, <2>5, <2>6, <2>7, <2>8
<1>3. All => TypeOK
  <2>. SUFFICES ASSUME All PROVE TypeOK
    OBVIOUS
  <2>1. /\ Scope!TypeOK /\ Triage!TypeOK /\ Webhook!TypeOK /\ Authority!TypeOK
        /\ Issuer!TypeOK /\ Trust!TypeOK /\ Endpoint!TypeOK
    BY ScopeTyped, TriageTyped, WebhookTyped, AuthorityTyped, IssuerTyped, TrustTyped,
       EndpointTyped
  <2>2. part = "boundary" => Boundary!TypeOK
    BY ReviewTyped
  <2>. QED
    BY <2>1, <2>2 DEF TypeOK, Programs
<1>. QED
  BY <1>1, <1>2, <1>3, PTL DEF Spec
=============================================================================
