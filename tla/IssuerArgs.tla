------------------------------ MODULE IssuerArgs ------------------------------
(***************************************************************************)
(* A network and the arguments of issuers that are deployed into it.       *)
(***************************************************************************)
Cidr(net, prefix, at) == [net |-> net, prefix |-> prefix, at |-> at]
Vpc == Cidr("private", 24, 1)
Resolver == Cidr("private", 32, 2)
PodCidr == Cidr("private", 24, 3)

Host(service, sg, cidr, namespace, pod) ==
    [service |-> service, sg |-> sg, cidr |-> cidr, namespace |-> namespace, pod |-> pod]

\* Endpoints and a database, a resolver, name servers, callers, and Pods that
\* have one of their marks and not the other.
Network ==
    {Host("sts", "sg-sts", Vpc, "none", {}), Host("kms", "sg-kms", Vpc, "none", {}),
     Host("dynamodb", "sg-ddb", Vpc, "none", {}),
     Host("secretsmanager", "sg-sm", Vpc, "none", {}), Host("database", "sg-db", Vpc, "none", {}),
     Host("kms", "sg-kms", PodCidr, "none", {}), Host("resolver", "none", Resolver, "none", {}),
     Host("dns", "sg-dns", PodCidr, "kube-system", {"coredns"}),
     Host("other", "sg-dns", PodCidr, "kube-system", {"other"}),
     Host("caller", "sg-caller", PodCidr, "callers", {"caller"}),
     Host("other", "sg-caller", PodCidr, "callers", {"other"}),
     Host("other", "sg-x", PodCidr, "callers", {"caller"})}

Arn(service, kind, resource) ==
    [service |-> service, kind |-> kind, resource |-> resource, region |-> "here",
     context |-> "account"]

First ==
    [tier |-> "startup-hardened", bounded |-> TRUE, iacRole |-> FALSE, namespace |-> "n1",
     account |-> "issuer", roleName |-> "role", service |-> "svc", audience |-> "sts",
     caller |-> [namespace |-> "callers", pod |-> {"caller"}, sg |-> "sg-caller"],
     clusterDns |-> [namespace |-> "kube-system", pod |-> {"coredns"}, sg |-> "sg-dns"],
     image |-> [pinned |-> TRUE, of |-> 1], command |-> <<"run">>, words |-> <<"serve">>,
     port |-> 8443, deadline |-> 1000, ttl |-> 60,
     jwks |-> <<[kid |-> "k", public |-> TRUE, strong |-> TRUE]>>,
     resolvers |-> {Resolver}, endpointCidrs |-> {Vpc},
     endpointSgs |-> [sts |-> "sg-sts", kms |-> "sg-kms", dynamodb |-> "sg-ddb",
                      secretsManager |-> "sg-sm"],
     endpointId |-> "vpce",
     endpointUrl |-> [scheme |-> "https", id |-> "vpce", region |-> "here", rest |-> ""],
     region |-> "here", oidc |-> "account",
     placement |-> [runtime |-> "rt", pool |-> "pool", taint |-> "taint", scheduler |-> "s",
                    restricted |-> TRUE, effect |-> "NoSchedule"],
     signingKey |-> Arn("kms", "key", "sign"), table |-> Arn("dynamodb", "table", "t"),
     tlsSecret |-> Arn("secretsmanager", "secret", "tls"), tlsKey |-> Arn("kms", "key", "tls"),
     late |-> FALSE]

\* The first, one that is moved, one whose bad key shows at the end only, and one
\* that is refused.
Issuers ==
    [first |-> First, moved |-> [First EXCEPT !.namespace = "n2"],
     late |-> [First EXCEPT !.late = TRUE, !.signingKey = Arn("kms", "alias", "sign"),
                            !.endpointCidrs = {Vpc, PodCidr}],
     bad |-> [First EXCEPT !.port = 0]]

\* An argument in which a "c" is followed by a "."
Words == {"--config=a.b"}
DottedIssuers == [first |-> [First EXCEPT !.words = <<"--config=a.b">>]]
=============================================================================
