----------------------------- MODULE BrokerArgs -----------------------------
(***************************************************************************)
(* Arguments of a boundary, after the fixtures of                          *)
(* packages/platform-patterns/tests/brokered-aurora-postgres-boundary.test.ts. *)
(***************************************************************************)
LOCAL Names ==
    [runtime |-> "runtime", broker |-> "broker", migrator |-> "migrator", rotation |-> "rotation"]

\* One security group for all interface endpoints.
SharedEndpoints ==
    [tier |-> "startup-hardened", permissionBoundary |-> TRUE, iacRole |-> FALSE,
     account |-> "account", oidc |-> "oidc", namespace |-> "app", roles |-> Names,
     accounts |-> Names, master |-> <<"account", "master">>, key |-> <<"account", "key">>,
     masterKnown |-> TRUE, secretNames |-> <<"login-a", "login-b">>,
     tls |-> <<"undefined", "undefined">>, vpce |-> "vpce",
     database |-> [sg |-> "sg-database", port |-> 5432, cidrs |-> {"database"}],
     port |-> [runtime |-> 8080, broker |-> 8443],
     endpoints |-> [sts |-> "sg-endpoints", secretsManager |-> "sg-endpoints",
                    kms |-> "sg-endpoints", dynamodb |-> "sg-endpoints"],
     endpointCidrs |-> {"endpoints"}, resolvers |-> {"resolver"}, dnsSg |-> "sg-dns",
     caller |-> "sg-caller", phase |-> "runtime", selfAttested |-> FALSE,
     evidence |-> [ref |-> "digest", sha |-> "digest"], maxTtlSeconds |-> 60,
     placement |-> [runtime |-> [key |-> "pool", pool |-> "apps", toleration |-> "apps"],
                    privileged |-> [key |-> "pool", pool |-> "brokers", toleration |-> "brokers"]]]

\* A digest that is not the one referred to.
OtherEvidence == [SharedEndpoints EXCEPT !.evidence.sha = "another"]

\* A security group for each, as the component's own fixture has them.
OwnEndpoints ==
    [SharedEndpoints EXCEPT !.endpoints =
        [sts |-> "sg-sts", secretsManager |-> "sg-secrets", kms |-> "sg-kms",
         dynamodb |-> "sg-dynamodb"]]

WithTransportTls == [SharedEndpoints EXCEPT !.tls = <<"account", "tls">>]

\* The master secret is created by the same program.
MasterUnknown == [SharedEndpoints EXCEPT !.masterKnown = FALSE]
=============================================================================
