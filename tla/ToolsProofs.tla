---------------------------- MODULE ToolsProofs ----------------------------
(***************************************************************************)
(* What the programs of Tools promise, for every value of its constants:   *)
(* the broker of tokens, remediation and merge, the evidence adapters, the *)
(* live validator and the decision kernel.  The reconciler has a module of *)
(* its own, OrphanProofs.                                                  *)
(*                                                                         *)
(* Each part has an inductive invariant of its own variables; a step of    *)
(* the whole is a step of one part and leaves the others alone.            *)
(***************************************************************************)
EXTENDS Tools, FiniteSetTheorems, TLAPS

\* The theorems about the kernel's decisions, for every input.
KernelProofs == INSTANCE NodeLabelKernelProofs

\* A step of the whole is a step of each part, or leaves it as it is.
LEMMA Alone ==
    ASSUME [Next]_vars
    PROVE  /\ part' = part
           /\ [Orphan!Next]_orphanVars
           /\ [Live!Next]_liveVars
           /\ [Adapter!Next]_adapterVars
           /\ [Kernel!Next]_kernelVars
           /\ [Broker!Next]_brokerVars
           /\ [Remediation!Next]_remediationVars
BY Zenon DEF Next, vars

-----------------------------------------------------------------------------
(***************************************************************************)
(* The broker of tokens                                                    *)
(***************************************************************************)
\* The fields of a call.
CallFields == {"at", "broker", "request", "value", "id", "token", "agreeable", "disturbed"}

\* One call: what it may use and got, and what it can rely on while nobody interferes.
CallInv(k) ==
    /\ DOMAIN k = CallFields
    /\ k.at \in {"read", "lookup", "mint", "done"} =>
          Broker!Allows(k.broker, k.request) /\ k.broker.permissions # {}
    /\ k.at \in {"lookup", "mint", "done"} => k.value.scope = k.broker
    /\ k.at = "done" =>
          /\ k.token.repository = k.request
          /\ k.token.permissions = k.broker.permissions /\ k.token.expires = "in an hour"
    /\ k.at # "idle" /\ k.agreeable /\ ~k.disturbed =>
          /\ k.at # "failed"
          /\ k.at \in {"read", "lookup", "mint"} =>
                Broker!Agreeable(k.broker, k.request) /\ k.request \in Requests
          /\ k.at \in {"lookup", "mint"} => k.value = tokenSecret
          /\ k.at = "mint" => k.id = installation.id

\* The installation covers the repositories asked for; permissions are never empty.
BrokerInv ==
    /\ installation = [id |-> installation.id, owner |-> installation.owner,
                       repos |-> {q[2] : q \in Requests}, grants |-> installation.grants]
    /\ \A f \in functions : f.permissions # {}
    /\ update # Broker!Nothing => update.permissions # {}
    /\ DOMAIN tokenCalls = Calls
    /\ \A c \in Calls : CallInv(tokenCalls[c])

\* What others change leaves a call that is then disturbed as it was.
LEMMA DisturbedCalls ==
    ASSUME BrokerInv, tokenCalls' = Broker!Disturbed
    PROVE  DOMAIN tokenCalls' = Calls /\ \A c \in Calls : CallInv(tokenCalls[c])'
<1>1. DOMAIN tokenCalls' = Calls
  BY DEF Broker!Disturbed
<1>2. ASSUME NEW c \in Calls
      PROVE  CallInv(tokenCalls[c])'
  BY DEF BrokerInv, Broker!Disturbed, CallInv, CallFields
<1>. QED
  BY <1>1, <1>2

\* A step of one call, while nothing else moves.
LEMMA OneCall ==
    ASSUME BrokerInv, NEW c \in Calls, NEW changes_, Broker!Goes(c, changes_),
           DOMAIN changes_ \subseteq CallFields,
           CallInv(Broker!With(tokenCalls[c], changes_))
    PROVE  BrokerInv'
<1>1. \A k : CallInv(k) => CallInv(k)'
  BY DEF Broker!Goes, Broker!world, CallInv, Broker!Agreeable, Broker!Fit
<1>2. /\ DOMAIN tokenCalls' = Calls
      /\ tokenCalls'[c] = Broker!With(tokenCalls[c], changes_)
      /\ \A d \in Calls \ {c} : tokenCalls'[d] = tokenCalls[d]
  BY DEF Broker!Goes, BrokerInv
<1>3. \A d \in Calls : CallInv(tokenCalls'[d])
  BY <1>2 DEF BrokerInv
<1>. QED
  BY <1>1, <1>2, <1>3 DEF Broker!Goes, Broker!world, BrokerInv

\* A call starts, undisturbed so far.
LEMMA InvokeKeeps ==
    ASSUME BrokerInv, NEW c \in Calls, Broker!Invoke(c)
    PROVE  BrokerInv'
<1>1. PICK f \in functions, q \in Requests :
         /\ tokenCalls[c].at = "idle"
         /\ Broker!Goes(c, [at |-> IF Broker!Allows(f, q) THEN "read" ELSE "failed",
                            broker |-> f, request |-> q,
                            agreeable |-> Broker!Agreeable(f, q), disturbed |-> FALSE])
  BY DEF Broker!Invoke
<1>2. f.permissions # {}
  BY DEF BrokerInv
<1> DEFINE fresh == [at |-> IF Broker!Allows(f, q) THEN "read" ELSE "failed",
                     broker |-> f, request |-> q,
                     agreeable |-> Broker!Agreeable(f, q), disturbed |-> FALSE]
<1>3. CallInv(Broker!With(tokenCalls[c], fresh))
  BY <1>1, <1>2 DEF BrokerInv, CallInv, CallFields, Broker!With, Broker!Agreeable
<1>4. DOMAIN fresh \subseteq CallFields
  BY DEF CallFields
<1>. QED
  BY <1>1, <1>3, <1>4, OneCall

\* The broker reads the secret and checks its scope.
LEMMA ReadSecretKeeps ==
    ASSUME BrokerInv, NEW c \in Calls, Broker!ReadSecret(c)
    PROVE  BrokerInv'
<1>1. /\ CallInv(tokenCalls[c]) /\ tokenCalls[c].at = "read"
      /\ tokenCalls[c].broker.permissions # {}
  BY DEF BrokerInv, Broker!ReadSecret, CallInv
<1> DEFINE failed == [at |-> "failed"]
           looks == [at |-> "lookup", value |-> tokenSecret]
<1>2. CASE Broker!Accepted(c)
  <2>1. CallInv(Broker!With(tokenCalls[c], looks))
    BY <1>1, <1>2 DEF CallInv, CallFields, Broker!With, Broker!Accepted, Broker!Digest
  <2>. QED
    BY <1>2, <2>1, OneCall DEF Broker!ReadSecret, CallFields
<1>3. CASE ~Broker!Accepted(c)
  <2>1. ~(tokenCalls[c].agreeable /\ ~tokenCalls[c].disturbed)
    BY <1>1, <1>3 DEF CallInv, Broker!Agreeable, Broker!Accepted, Broker!Digest, Broker!Nothing
  <2>2. CallInv(Broker!With(tokenCalls[c], failed))
    BY <1>1, <2>1 DEF CallInv, CallFields, Broker!With
  <2>. QED
    BY <1>3, <2>2, OneCall DEF Broker!ReadSecret, Broker!Throws, CallFields
<1>. QED
  BY <1>2, <1>3

\* The broker looks the installation up.
LEMMA LookupKeeps ==
    ASSUME BrokerInv, NEW c \in Calls, Broker!Lookup(c)
    PROVE  BrokerInv'
<1>1. CallInv(tokenCalls[c]) /\ tokenCalls[c].at = "lookup"
  BY DEF BrokerInv, Broker!Lookup
<1> DEFINE failed == [at |-> "failed"]
           mints == [at |-> "mint", id |-> installation.id]
           Known == /\ tokenCalls[c].value.key \in keys
                    /\ tokenCalls[c].request[1] = installation.owner
                    /\ tokenCalls[c].request[2] \in installation.repos
<1>2. CASE Known
  <2>1. CallInv(Broker!With(tokenCalls[c], mints))
    BY <1>1 DEF CallInv, CallFields, Broker!With
  <2>2. Broker!Goes(c, mints)
    BY <1>2 DEF Broker!Lookup
  <2>. QED
    BY <2>1, <2>2, OneCall DEF CallFields
<1>3. CASE ~Known
  <2>1. ASSUME tokenCalls[c].agreeable, ~tokenCalls[c].disturbed
        PROVE  FALSE
    <3>1. /\ Broker!Agreeable(tokenCalls[c].broker, tokenCalls[c].request)
          /\ tokenCalls[c].request \in Requests /\ tokenCalls[c].value = tokenSecret
      BY <1>1, <2>1 DEF CallInv
    <3>2. tokenCalls[c].request[2] \in installation.repos
      BY <3>1 DEF BrokerInv
    <3>. QED
      BY <1>3, <3>1, <3>2 DEF Broker!Agreeable, Broker!Fit
  <2>2. CallInv(Broker!With(tokenCalls[c], failed))
    BY <1>1, <2>1 DEF CallInv, CallFields, Broker!With
  <2>3. Broker!Goes(c, failed)
    BY <1>3 DEF Broker!Lookup, Broker!Throws
  <2>. QED
    BY <2>2, <2>3, OneCall DEF CallFields
<1>. QED
  BY <1>2, <1>3

\* The broker mints the token, and GitHub checks what it asks for.
LEMMA MintKeeps ==
    ASSUME BrokerInv, NEW c \in Calls, Broker!Mint(c)
    PROVE  BrokerInv'
<1>1. CallInv(tokenCalls[c]) /\ tokenCalls[c].at = "mint"
  BY DEF BrokerInv, Broker!Mint
<1>2. tokenCalls[c].agreeable /\ ~tokenCalls[c].disturbed =>
         /\ Broker!Minted(c)
         /\ Broker!InScope(c, Broker!Asked(c))
  BY <1>1 DEF CallInv, Broker!Agreeable, Broker!Fit, Broker!Minted, Broker!InScope, Broker!Asked
<1>3. CASE ~Broker!Minted(c)
  <2> DEFINE failed == [at |-> "failed"]
  <2>1. CallInv(Broker!With(tokenCalls[c], failed))
    BY <1>1, <1>2, <1>3 DEF CallInv, CallFields, Broker!With
  <2>2. Broker!Goes(c, failed)
    BY <1>3 DEF Broker!Mint, Broker!Throws
  <2>. QED
    BY <2>1, <2>2, OneCall DEF CallFields
<1>4. CASE Broker!Minted(c)
  <2>1. PICK t \in Broker!Answers(c) :
           \/ Broker!InScope(c, t) /\ Broker!Goes(c, [at |-> "done", token |-> t])
           \/ /\ ~Broker!InScope(c, t)
              /\ Broker!Goes(c, [at |-> "failed",
                                 disturbed |-> tokenCalls[c].disturbed \/ t # Broker!Asked(c)])
    BY <1>4 DEF Broker!Mint
  <2>2. CASE Broker!InScope(c, t) /\ Broker!Goes(c, [at |-> "done", token |-> t])
    <3>1. CallInv(Broker!With(tokenCalls[c], [at |-> "done", token |-> t]))
      BY <1>1, <2>2 DEF CallInv, CallFields, Broker!With, Broker!InScope
    <3>. QED
      BY <2>2, <3>1, OneCall DEF CallFields
  <2>3. CASE /\ ~Broker!InScope(c, t)
             /\ Broker!Goes(c, [at |-> "failed",
                                disturbed |-> tokenCalls[c].disturbed \/ t # Broker!Asked(c)])
    <3> DEFINE failed == [at |-> "failed",
                          disturbed |-> tokenCalls[c].disturbed \/ t # Broker!Asked(c)]
    <3>1. ~tokenCalls[c].agreeable \/ (tokenCalls[c].disturbed \/ t # Broker!Asked(c))
      BY <1>2, <2>3
    <3>2. CallInv(Broker!With(tokenCalls[c], failed))
      BY <1>1, <3>1 DEF CallInv, CallFields, Broker!With
    <3>. QED
      BY <2>3, <3>2, OneCall DEF CallFields
  <2>. QED
    BY <2>1, <2>2, <2>3
<1>. QED
  BY <1>3, <1>4

\* AWS or GitHub fails a call, which counts as a disturbance.
LEMMA FailsKeeps ==
    ASSUME BrokerInv, NEW c \in Calls, Broker!Fails(c)
    PROVE  BrokerInv'
<1> DEFINE broken == [at |-> "failed", disturbed |-> TRUE]
<1>1. \A k : CallInv(k) => CallInv(k)'
  BY DEF Broker!Fails, Broker!world, CallInv, Broker!Agreeable, Broker!Fit
<1>2. /\ DOMAIN tokenCalls' = Calls
      /\ \A d \in Calls \ {c} : tokenCalls'[d] = tokenCalls[d]
      /\ tokenCalls'[c] = [tokenCalls[c] EXCEPT !.at = "failed", !.disturbed = TRUE]
  BY DEF Broker!Fails, BrokerInv
<1>3. CallInv(tokenCalls[c])
  BY DEF BrokerInv
<1>4. CallInv(tokenCalls'[c])
  BY <1>2, <1>3 DEF CallInv, CallFields
<1>5. \A d \in Calls : CallInv(tokenCalls'[d])
  BY <1>2, <1>4 DEF BrokerInv
<1>. QED
  BY <1>1, <1>2, <1>5 DEF Broker!Fails, Broker!world, BrokerInv

\* Deployments, the operator and the App's owner.
LEMMA OthersKeep ==
    ASSUME BrokerInv,
           \/ Broker!Deploy \/ Broker!CreateBroker \/ Broker!DeleteOldBrokers
           \/ Broker!Populate \/ Broker!PutSecret \/ Broker!ChangeKeys
           \/ Broker!ChangeInstallation
    PROVE  BrokerInv'
<1>1. tokenCalls' = Broker!Disturbed
  BY DEF Broker!Deploy, Broker!CreateBroker, Broker!DeleteOldBrokers, Broker!Populate,
         Broker!PutSecret, Broker!ChangeKeys, Broker!ChangeInstallation, Broker!Changes
<1>2. DOMAIN tokenCalls' = Calls /\ \A c \in Calls : CallInv(tokenCalls[c])'
  BY <1>1, DisturbedCalls
<1>3. CASE Broker!Deploy
  BY <1>2, <1>3 DEF BrokerInv, Broker!Deploy, Broker!Normal, Broker!Canonical
<1>4. CASE Broker!CreateBroker
  BY <1>2, <1>4 DEF BrokerInv, Broker!CreateBroker
<1>5. CASE Broker!DeleteOldBrokers
  BY <1>2, <1>5 DEF BrokerInv, Broker!DeleteOldBrokers
<1>6. CASE Broker!Populate \/ Broker!PutSecret \/ Broker!ChangeKeys
  BY <1>2, <1>6 DEF BrokerInv, Broker!Populate, Broker!PutSecret, Broker!ChangeKeys
<1>7. CASE Broker!ChangeInstallation
  BY <1>2, <1>7 DEF BrokerInv, Broker!ChangeInstallation
<1>. QED
  BY <1>3, <1>4, <1>5, <1>6, <1>7

\* It holds at the start.
LEMMA BrokerStarts == Broker!Init => BrokerInv
<1> SUFFICES ASSUME Broker!Init PROVE BrokerInv
  OBVIOUS
<1>1. \A c \in Calls : CallInv(tokenCalls[c])
  BY DEF Broker!Init, Broker!Idle, CallInv, CallFields
<1>2. installation = [id |-> installation.id, owner |-> installation.owner,
                      repos |-> {q[2] : q \in Requests}, grants |-> installation.grants]
  BY DEF Broker!Init
<1>. QED
  BY <1>1, <1>2 DEF Broker!Init, BrokerInv, Broker!Normal, Broker!Canonical

\* It is kept by every step of the broker and of the others.
LEMMA BrokerStep == BrokerInv /\ [Broker!Next]_brokerVars => BrokerInv'
<1> SUFFICES ASSUME BrokerInv, [Broker!Next]_brokerVars PROVE BrokerInv'
  OBVIOUS
<1>1. CASE UNCHANGED brokerVars
  BY <1>1 DEF brokerVars, BrokerInv, CallInv, Broker!Agreeable, Broker!Fit
<1>2. CASE Broker!Next
  BY <1>2, OthersKeep, InvokeKeeps, ReadSecretKeeps, LookupKeeps, MintKeeps, FailsKeeps
     DEF Broker!Next
<1>. QED
  BY <1>1, <1>2

\* What a caller of the broker of github-app-credential.ts gets: a token of the repository
\* it asked for with the permissions agreed, and never a failure of an agreeable call that
\* nobody disturbed, whatever is rotated, populated or deployed meanwhile.
THEOREM Agreed == Spec => []CallsGetWhatWasAgreed
<1>1. Init => BrokerInv
  BY BrokerStarts DEF Init
<1>2. BrokerInv /\ [Next]_vars => BrokerInv'
  BY Alone, BrokerStep
<1>3. BrokerInv => CallsGetWhatWasAgreed
  BY DEF BrokerInv, CallInv, CallsGetWhatWasAgreed, Broker!CallsGetWhatWasAgreed
<1>. QED
  BY <1>1, <1>2, <1>3, PTL DEF Spec

-----------------------------------------------------------------------------
(***************************************************************************)
(* Remediation and merge                                                   *)
(***************************************************************************)
\* The fields of a run of remediate.ts, and its stages.
RemediationFields ==
    {"at", "args", "digest", "expected", "left", "attempt", "verdict", "read", "next",
     "atHead", "atFile", "approved", "why"}

\* Before anything is written.
Early == {"bind", "select", "targets", "unchanged", "review"}
\* While it applies.
Applying == {"read", "reread", "revise", "stage", "check", "rename", "verify"}
\* While it replaces a file.
Replacing == {"revise", "stage", "check", "rename", "verify"}

\* What an approval rests on.
Vouched(approved, verdict, args) ==
    approved => Remediation!Accepted(verdict) /\ ~Remediation!Refused(args)

\* The file a run is at, what was read of it and what replaces it.
Reading(r) == r.read[r.next]
Fixing(r) == Remediation!Replacement(Files[r.next], Reading(r))

\* A run of remediate.ts that has not ended: an apply only of what was approved, with
\* one file after the other read and parsed, and at a file that does not stay as it is,
\* with what replaces it staged.
Remediates(r) ==
    /\ DOMAIN r = RemediationFields
    /\ r.at \in Early \union Applying \union {"output"}
    /\ Vouched(r.approved, r.verdict, r.args)
    /\ r.at \in Applying => r.args.apply /\ r.approved
    /\ r.at \in Early \union {"read", "reread"} => r.next = 1
    /\ r.read \in Seq(Remediation!Parsed)
    /\ r.at \in Early => r.read = << >>
    /\ r.at = "read" => Len(r.read) < Len(Files)
    /\ r.at \in Replacing \union {"reread"} => Len(r.read) = Len(Files)
    /\ r.at \in Replacing => r.next \in DOMAIN Files
    /\ r.at \in Replacing \ {"revise"} =>
          /\ Fixing(r) # Reading(r)
          /\ r.atHead \in Nat /\ remediationLeft <= r.atHead
          /\ r.atHead = remediationLeft => head.commit = r.expected
    /\ r.at \in {"check", "rename"} => staged[Files[r.next]] = Fixing(r)
    /\ r.at = "rename" =>
          /\ r.atFile \in Nat /\ remediationLeft <= r.atFile
          /\ r.atFile = remediationLeft => files[Files[r.next]] = Reading(r)

\* A plan that may be released.
Reviewed(p) ==
    p.approved /\ Remediation!Accepted(p.verdict) /\ ~Remediation!Refused(p.run) /\ p.dependencyReview

\* The merger, its audit records and what it has released.
Merges ==
    /\ plan.file = "whole" /\ plan.approved => Remediation!Accepted(plan.verdict) /\ ~Remediation!Refused(plan.run)
    /\ plan.file = "whole" => plan.dependencyReview = plan.run.dependencyReview
    /\ merger # Remediation!Idle =>
          /\ DOMAIN merger = {"at", "plan"}
          /\ Reviewed(merger.plan)
          /\ merger.at = "result" => merger.plan.advisory \in DOMAIN audits
    /\ \A a \in DOMAIN audits : Reviewed(audits[a])
    /\ \A p \in released : Reviewed(p) /\ p.advisory \in DOMAIN audits

\* The inductive invariant of the two.
Diligence ==
    /\ remediationLeft \in Nat
    /\ DOMAIN staged = Remediation!Targets
    /\ files \in [Remediation!Targets -> Remediation!Contents]
    /\ remediation # Remediation!Idle => Remediates(remediation)
    /\ Merges

\* The files there are.
LEMMA FilesAre == DOMAIN Files = 1..Len(Files) /\ Len(Files) \in Nat \ {0}
BY RemediationAssumption

\* What parses.
LEMMA ContentsParse ==
    /\ \A says \in {"vulnerable", "fixed", "other"}, canonical \in BOOLEAN :
          Remediation!Content(says, canonical) \in Remediation!Parsed
    /\ Remediation!Parsed \subseteq Remediation!Contents
BY DEF Remediation!Parsed, Remediation!Contents

\* What replaces a file that parses does, too, and is not a link.
LEMMA ReplacementParses ==
    ASSUME NEW f, NEW c \in Remediation!Parsed
    PROVE  /\ Remediation!Replacement(f, c) \in Remediation!Parsed
           /\ Remediation!Parsed \subseteq Remediation!Contents
<1>1. PICK says \in {"vulnerable", "fixed", "other"}, canonical \in BOOLEAN :
         c = Remediation!Content(says, canonical)
  BY DEF Remediation!Parsed
<1>2. /\ (IF c.says = "vulnerable" THEN "fixed" ELSE c.says) \in {"vulnerable", "fixed", "other"}
      /\ (c.canonical \/ f \in Json) \in BOOLEAN
  BY <1>1 DEF Remediation!Content
<1>. QED
  BY <1>2, ContentsParse DEF Remediation!Replacement

\* A step of the run that leaves the commit and the merger alone.
LEMMA RunStep ==
    ASSUME Diligence, UNCHANGED <<head, plan, merger, audits, released, remediationLeft>>,
           DOMAIN staged' = Remediation!Targets,
           files' = files \/ files' \in [Remediation!Targets -> Remediation!Contents],
           remediation' = Remediation!Idle \/ Remediates(remediation)'
    PROVE  Diligence'
BY DEF Diligence, Merges, Reviewed, Remediation!Accepted, Remediation!Refused, Remediation!Fixer,
       Remediation!InBounds, Remediation!Idle, Remediation!Targets, Remediation!Contents,
       Remediation!Parsed, Remediation!Content, Remediation!Garbled, Remediation!Link

\* The steps before the review.
LEMMA EarlySteps ==
    ASSUME Diligence, Remediation!Bind \/ Remediation!Select \/ Remediation!Validate \/ Remediation!Unchanged
    PROVE  Diligence'
<1>0. remediation.at \in Early
  BY DEF Remediation!Bind, Remediation!Select, Remediation!Validate, Remediation!Unchanged, Early
<1>1. remediation # Remediation!Idle /\ Remediates(remediation) /\ remediation.at \in Early
      /\ DOMAIN staged = Remediation!Targets
  BY <1>0 DEF Diligence, Remediation!Idle, Early
<1>2. UNCHANGED <<files, staged, head, plan, merger, audits, released, remediationLeft>>
  BY DEF Remediation!Bind, Remediation!Select, Remediation!Validate, Remediation!Unchanged,
         Remediation!repo, Remediation!merging, Remediation!bounds
<1>3. \/ remediation' = Remediation!Idle
      \/ \E at_ \in Early : remediation' = [remediation EXCEPT !.at = at_]
      \/ remediation' = [remediation EXCEPT !.at = "output", !.why = "nothing"]
  BY DEF Remediation!Bind, Remediation!Select, Remediation!Validate, Remediation!Unchanged,
         Remediation!Goes, Remediation!Throws, Early
<1>4. ASSUME NEW at_ \in Early, remediation' = [remediation EXCEPT !.at = at_]
      PROVE  Remediates(remediation)'
  BY <1>1, <1>2, <1>4 DEF Remediates, RemediationFields, Early, Applying, Replacing, Vouched, Reading, Fixing
<1>5. ASSUME remediation' = [remediation EXCEPT !.at = "output", !.why = "nothing"]
      PROVE  Remediates(remediation)'
  BY <1>1, <1>2, <1>5 DEF Remediates, RemediationFields, Early, Applying, Replacing, Vouched, Reading, Fixing
<1>. QED
  BY <1>1, <1>2, <1>3, <1>4, <1>5, RunStep

\* The review approves or not.
LEMMA ReviewStep ==
    ASSUME Diligence, NEW a \in Remediation!Answers, Remediation!Review(a)
    PROVE  Diligence'
<1>1. remediation # Remediation!Idle /\ Remediates(remediation) /\ remediation.at = "review"
      /\ DOMAIN staged = Remediation!Targets
  BY DEF Diligence, Remediation!Review, Remediation!Idle
<1>2. UNCHANGED <<files, staged, head, plan, merger, audits, released, remediationLeft>>
  BY DEF Remediation!Review, Remediation!repo, Remediation!merging, Remediation!bounds
<1>3. \/ Remediation!Escalated
      \/ /\ ~Remediation!Refused(remediation.args) /\ Remediation!Accepted(a)
         /\ remediation' = [remediation EXCEPT !.at = IF remediation.args.apply THEN "read" ELSE "output",
                                               !.approved = TRUE, !.verdict = a]
      \/ remediation' = [remediation EXCEPT !.attempt = @ + 1]
  BY DEF Remediation!Review
<1>4. CASE Remediation!Escalated
  BY <1>1, <1>2, <1>4, RunStep
     DEF Remediation!Escalated, Remediates, RemediationFields, Early, Applying, Replacing, Vouched
<1>5. CASE /\ ~Remediation!Refused(remediation.args) /\ Remediation!Accepted(a)
           /\ remediation' = [remediation EXCEPT !.at = IF remediation.args.apply THEN "read" ELSE "output",
                                                 !.approved = TRUE, !.verdict = a]
  <2>1. /\ remediation'.at = (IF remediation.args.apply THEN "read" ELSE "output")
        /\ remediation'.approved = TRUE /\ remediation'.verdict = a
        /\ remediation'.args = remediation.args /\ remediation'.next = 1
        /\ DOMAIN remediation' = RemediationFields /\ remediation'.read = << >>
    BY <1>1, <1>5 DEF Remediates, RemediationFields, Early
  <2>2. remediation'.read \in Seq(Remediation!Parsed) /\ Len(remediation'.read) < Len(Files)
    BY <2>1, FilesAre
  <2>3. Remediates(remediation)'
    BY <1>5, <2>1, <2>2 DEF Remediates, Early, Applying, Replacing, Vouched,
       Remediation!Accepted, Remediation!Refused, Remediation!Fixer, Remediation!InBounds
  <2>. QED
    BY <1>1, <1>2, <2>3, RunStep
<1>6. CASE remediation' = [remediation EXCEPT !.attempt = @ + 1]
  <2>1. Remediates(remediation)'
    BY <1>1, <1>2, <1>6 DEF Remediates, RemediationFields, Early, Applying, Replacing, Vouched, Reading, Fixing
  <2>. QED
    BY <1>1, <1>2, <2>1, RunStep
<1>. QED
  BY <1>3, <1>4, <1>5, <1>6

\* The commit and the files are read.
LEMMA ReadSteps ==
    ASSUME Diligence, Remediation!Read \/ Remediation!Reread
    PROVE  Diligence'
<1>. DEFINE content == files[Files[Len(remediation.read) + 1]]
             read == Append(remediation.read, content)
<1>0. remediation.at \in {"read", "reread"}
  BY DEF Remediation!Read, Remediation!Reread
<1>1. remediation # Remediation!Idle /\ Remediates(remediation)
      /\ DOMAIN staged = Remediation!Targets
  BY <1>0 DEF Diligence, Remediation!Idle
<1>2. UNCHANGED <<files, staged, head, plan, merger, audits, released, remediationLeft>>
  BY DEF Remediation!Read, Remediation!Reread, Remediation!repo, Remediation!merging, Remediation!bounds
<1>3. \/ remediation' = Remediation!Idle
      \/ /\ remediation.at = "read" /\ content \notin {Remediation!Link, Remediation!Garbled}
         /\ \/ Len(read) < Len(Files) /\ remediation' = [remediation EXCEPT !.read = read]
            \/ /\ ~(Len(read) < Len(Files))
               /\ remediation' = [remediation EXCEPT !.read = read, !.at = "reread"]
      \/ remediation.at = "reread" /\ remediation' = [remediation EXCEPT !.at = "revise"]
  BY Zenon DEF Remediation!Read, Remediation!Reread, Remediation!Goes, Remediation!Throws
<1>4. ASSUME remediation.at = "read",
             content \notin {Remediation!Link, Remediation!Garbled},
             NEW at_ \in {"read", "reread"},
             IF Len(read) < Len(Files)
             THEN at_ = "read" ELSE at_ = "reread",
             remediation' = [remediation EXCEPT !.read = read, !.at = at_]
      PROVE  Remediates(remediation)'
  <2>1. /\ remediation.read \in Seq(Remediation!Parsed) /\ Len(remediation.read) < Len(Files)
        /\ Len(remediation.read) \in Nat
    BY <1>1, <1>4 DEF Remediates
  <2>2. Files[Len(remediation.read) + 1] \in Remediation!Targets
    BY <2>1, FilesAre DEF Remediation!Targets
  <2>3. content \in Remediation!Parsed
    BY <1>4, <2>2 DEF Diligence, Remediation!Contents
  <2>4. /\ read \in Seq(Remediation!Parsed)
        /\ Len(read) = Len(remediation.read) + 1
    BY <2>1, <2>3
  <2>5. /\ remediation'.read = read
        /\ remediation'.at = at_ /\ DOMAIN remediation' = RemediationFields
        /\ remediation'.next = remediation.next /\ remediation'.args = remediation.args
        /\ remediation'.approved = remediation.approved /\ remediation'.verdict = remediation.verdict
    BY <1>1, <1>4 DEF Remediates, RemediationFields
  <2>6. CASE Len(remediation'.read) < Len(Files)
    BY <1>1, <1>2, <1>4, <2>4, <2>5, <2>6 DEF Remediates, Early, Applying, Replacing, Vouched,
       Remediation!Accepted, Remediation!Refused, Remediation!Fixer, Remediation!InBounds
  <2>7. CASE ~(Len(remediation'.read) < Len(Files))
    <3>1. Len(remediation'.read) = Len(Files)
      <4>1. Len(remediation'.read) = Len(remediation.read) + 1
        BY <2>4, <2>5
      <4>2. Len(remediation.read) < Len(Files) /\ Len(remediation.read) \in Nat /\ Len(Files) \in Nat
        BY <2>1, FilesAre
      <4>. QED
        BY <2>7, <4>1, <4>2
    <3>2. at_ = "reread"
      BY <1>4, <2>5, <2>7
    <3>. QED
      BY <1>1, <1>2, <1>4, <2>4, <2>5, <3>1, <3>2 DEF Remediates, Early, Applying, Replacing, Vouched,
         Remediation!Accepted, Remediation!Refused, Remediation!Fixer, Remediation!InBounds
  <2>. QED
    BY <2>6, <2>7
<1>5. ASSUME remediation.at = "reread", remediation' = [remediation EXCEPT !.at = "revise"]
      PROVE  Remediates(remediation)'
  BY <1>0, <1>1, <1>2, <1>5, FilesAre
     DEF Remediates, RemediationFields, Early, Applying, Replacing, Vouched, Reading, Fixing
<1>6. CASE /\ remediation.at = "read" /\ content \notin {Remediation!Link, Remediation!Garbled}
           /\ \/ Len(read) < Len(Files) /\ remediation' = [remediation EXCEPT !.read = read]
              \/ /\ ~(Len(read) < Len(Files))
                 /\ remediation' = [remediation EXCEPT !.read = read, !.at = "reread"]
  <2>1. \E at_ \in {"read", "reread"} :
           /\ IF Len(read) < Len(Files)
              THEN at_ = "read" ELSE at_ = "reread"
           /\ remediation' = [remediation EXCEPT !.read = read, !.at = at_]
    <3>1. CASE Len(read) < Len(Files)
      <4>1. remediation' = [remediation EXCEPT !.read = read]
        BY <1>6, <3>1
      <4>2. remediation' = [remediation EXCEPT !.read = read, !.at = "read"]
        BY <1>1, <1>6, <4>1 DEF Remediates, RemediationFields
      <4>. QED
        BY <3>1, <4>2
    <3>2. CASE ~(Len(read) < Len(Files))
      BY <1>6, <3>2
    <3>. QED
      BY <3>1, <3>2
  <2>. QED
    BY <1>1, <1>2, <1>4, <1>6, <2>1, RunStep
<1>. QED
  BY <1>1, <1>2, <1>3, <1>5, <1>6, RunStep

\* On to the next file, or out.
LEMMA OnwardsStep ==
    ASSUME Diligence, remediation.at \in {"revise", "verify"}, Remediation!Onwards("output"),
           UNCHANGED <<files, staged, head, plan, merger, audits, released, remediationLeft>>
    PROVE  Diligence'
<1>1. Remediates(remediation) /\ DOMAIN staged = Remediation!Targets
  BY DEF Diligence, Remediation!Idle
<1>2. /\ remediation'.at = (IF Remediation!More THEN "revise" ELSE "output")
      /\ remediation'.next = remediation.next + 1
      /\ remediation'.approved = remediation.approved /\ remediation'.verdict = remediation.verdict
      /\ remediation'.args = remediation.args /\ DOMAIN remediation' = RemediationFields
      /\ remediation'.read = remediation.read
  BY <1>1 DEF Remediation!Onwards, Remediates, RemediationFields
<1>3. remediation.next \in DOMAIN Files
  BY <1>1 DEF Remediates, Replacing
<1>4. Remediation!More => remediation.next + 1 \in DOMAIN Files
  BY <1>3, FilesAre DEF Remediation!More
<1>5. Remediates(remediation)'
  BY <1>1, <1>2, <1>4 DEF Remediates, Early, Applying, Replacing, Vouched, Remediation!Accepted,
     Remediation!Refused, Remediation!Fixer, Remediation!InBounds
<1>. QED
  BY <1>1, <1>5, RunStep

\* A file is checked against what was read.
LEMMA ReviseStep ==
    ASSUME Diligence, Remediation!Revise
    PROVE  Diligence'
<1>1. remediation.at = "revise" /\ Remediates(remediation) /\ DOMAIN staged = Remediation!Targets
      /\ remediationLeft \in Nat
  BY DEF Diligence, Remediation!Revise, Remediation!Idle
<1>2. UNCHANGED <<files, staged, head, plan, merger, audits, released, remediationLeft>>
  BY DEF Remediation!Revise, Remediation!repo, Remediation!merging, Remediation!bounds
<1>3. \/ Remediation!Onwards("output")
      \/ remediation' = Remediation!Idle
      \/ /\ Remediation!Replacement(Remediation!File, Remediation!Old) # Remediation!Old
         /\ head.commit = remediation.expected
         /\ remediation' = [remediation EXCEPT !.at = "stage", !.atHead = remediationLeft]
  BY Zenon DEF Remediation!Revise, Remediation!Throws
<1>4. ASSUME Remediation!Replacement(Remediation!File, Remediation!Old) # Remediation!Old,
             head.commit = remediation.expected,
             remediation' = [remediation EXCEPT !.at = "stage", !.atHead = remediationLeft]
      PROVE  Remediates(remediation)'
  <2>1. Fixing(remediation) # Reading(remediation)
    BY <1>4, Zenon DEF Fixing, Reading, Remediation!File, Remediation!Old
  <2>. QED
    BY <1>1, <1>2, <1>4, <2>1 DEF Remediates, RemediationFields, Early, Applying, Replacing, Vouched, Reading, Fixing
<1>. QED
  BY <1>1, <1>2, <1>3, <1>4, RunStep, OnwardsStep

\* The fix is staged.
LEMMA StageStep ==
    ASSUME Diligence, Remediation!Stage
    PROVE  Diligence'
<1>1. remediation.at = "stage" /\ Remediates(remediation) /\ DOMAIN staged = Remediation!Targets
  BY DEF Diligence, Remediation!Stage, Remediation!Idle
<1>2. UNCHANGED <<files, head, plan, merger, audits, released, remediationLeft>>
  BY DEF Remediation!Stage, Remediation!merging, Remediation!bounds
<1>3. remediation.next \in DOMAIN Files
  BY <1>1 DEF Remediates, Replacing
<1>4. staged' = [staged EXCEPT ![Files[remediation.next]] = Fixing(remediation)]
  BY DEF Remediation!Stage, Remediation!File, Remediation!Old, Fixing, Reading
<1>5. Files[remediation.next] \in Remediation!Targets
  BY <1>3 DEF Remediation!Targets
<1>6. remediation' = [remediation EXCEPT !.at = "check"]
  BY DEF Remediation!Stage, Remediation!Goes
<1>7. Remediates(remediation)'
  BY <1>1, <1>2, <1>4, <1>5, <1>6 DEF Remediates, RemediationFields, Early, Applying, Replacing, Vouched, Reading, Fixing
<1>. QED
  BY <1>1, <1>2, <1>4, <1>7, RunStep

\* The head and the file are read again before the rename.
LEMMA CheckStep ==
    ASSUME Diligence, Remediation!Check
    PROVE  Diligence'
<1>1. remediation.at = "check" /\ Remediates(remediation) /\ DOMAIN staged = Remediation!Targets
      /\ remediationLeft \in Nat
  BY DEF Diligence, Remediation!Check, Remediation!Idle
<1>2. UNCHANGED <<files, head, plan, merger, audits, released, remediationLeft>> /\ DOMAIN staged' = Remediation!Targets
  BY <1>1 DEF Remediation!Check, Remediation!merging, Remediation!bounds
<1>3. CASE Remediation!Same(Remediation!File, Remediation!Old)
  <2>1. /\ remediation' = [remediation EXCEPT !.at = "rename", !.atFile = remediationLeft]
        /\ UNCHANGED staged
        /\ files[Files[remediation.next]] = remediation.read[remediation.next]
    BY <1>3 DEF Remediation!Check, Remediation!Same, Remediation!File, Remediation!Old
  <2>2. Remediates(remediation)'
    BY <1>1, <1>2, <2>1 DEF Remediates, RemediationFields, Early, Applying, Replacing, Vouched, Reading, Fixing
  <2>. QED
    BY <1>2, <2>2, RunStep
<1>4. CASE ~Remediation!Same(Remediation!File, Remediation!Old)
  BY <1>2, <1>4, RunStep DEF Remediation!Check, Remediation!Throws
<1>. QED
  BY <1>3, <1>4

\* The rename, and the check after it.
LEMMA RenameVerifySteps ==
    ASSUME Diligence, Remediation!Rename \/ Remediation!Verify
    PROVE  Diligence'
<1>1. remediation.at \in {"rename", "verify"} /\ Remediates(remediation) /\ DOMAIN staged = Remediation!Targets
  BY DEF Diligence, Remediation!Rename, Remediation!Verify, Remediation!Idle
<1>2. UNCHANGED <<head, plan, merger, audits, released, remediationLeft>> /\ DOMAIN staged' = Remediation!Targets
  BY <1>1 DEF Remediation!Rename, Remediation!Verify, Remediation!repo, Remediation!merging, Remediation!bounds
<1>3. CASE Remediation!Rename
  <2>1. remediation' = [remediation EXCEPT !.at = "verify"]
    BY <1>3 DEF Remediation!Rename, Remediation!Goes
  <2>2. Remediates(remediation)'
    BY <1>1, <1>2, <2>1 DEF Remediates, RemediationFields, Early, Applying, Replacing, Vouched, Reading, Fixing
  <2>3. Files[remediation.next] \in Remediation!Targets /\ Reading(remediation) \in Remediation!Parsed
        /\ staged[Files[remediation.next]] = Fixing(remediation)
    BY <1>1, <1>3, FilesAre DEF Remediates, Replacing, Reading, Remediation!Targets, Remediation!Rename
  <2>4. staged[Files[remediation.next]] \in Remediation!Contents
    BY <2>3, ReplacementParses DEF Fixing
  <2>5. files' = [files EXCEPT ![Files[remediation.next]] = staged[Files[remediation.next]]]
    BY <1>3 DEF Remediation!Rename, Remediation!File
  <2>6. files' \in [Remediation!Targets -> Remediation!Contents]
    BY <2>4, <2>5 DEF Diligence
  <2>. QED
    BY <1>2, <2>2, <2>6, RunStep
<1>4. CASE Remediation!Verify
  BY <1>1, <1>2, <1>4, RunStep, OnwardsStep DEF Remediation!Verify, Remediation!Throws, Remediation!repo
<1>. QED
  BY <1>3, <1>4

\* The plan is written, and the run is over.
LEMMA OutputStep ==
    ASSUME Diligence, Remediation!Output
    PROVE  Diligence'
<1>1. remediation.at = "output" /\ Remediates(remediation)
  BY DEF Diligence, Remediation!Output, Remediation!Idle
<1>2. UNCHANGED <<files, staged, merger, audits, released, remediationLeft>> /\ remediation' = Remediation!Idle
  BY DEF Remediation!Output, Remediation!Throws, Remediation!repo, Remediation!merging, Remediation!bounds
<1>3. /\ plan'.approved = remediation.approved /\ plan'.verdict = remediation.verdict
      /\ plan'.run = remediation.args
      /\ plan'.dependencyReview = remediation.args.dependencyReview
  BY DEF Remediation!Output
<1>4. plan'.approved => Remediation!Accepted(plan'.verdict) /\ ~Remediation!Refused(plan'.run)
  BY <1>1, <1>3 DEF Remediates, Vouched
<1>5. Merges'
  BY <1>2, <1>3, <1>4 DEF Diligence, Merges, Reviewed, Remediation!Accepted, Remediation!Refused,
     Remediation!Fixer, Remediation!InBounds, Remediation!Idle
<1>. QED
  BY <1>2, <1>5 DEF Diligence, Remediation!Targets

\* A run starts.
LEMMA StartStep ==
    ASSUME Diligence, NEW r \in remediations, Remediation!Start(r)
    PROVE  Diligence'
<1>1. UNCHANGED <<files, staged, head, plan, merger, audits, released, remediationLeft>>
  BY DEF Remediation!Start, Remediation!repo, Remediation!merging
<1>2. Remediates(remediation)'
  BY DEF Remediation!Start, Remediates, RemediationFields, Early, Applying, Replacing, Vouched
<1>. QED
  BY <1>1, <1>2, RunStep DEF Diligence

\* What people and failures do takes a unit, after which no check is the last thing
\* that happened.
LEMMA DisturbStep ==
    ASSUME Diligence, Remediation!Happens,
           UNCHANGED <<staged, plan, audits, released>>,
           files' \in [Remediation!Targets -> Remediation!Contents],
           remediation' \in {remediation, Remediation!Idle}, merger' \in {merger, Remediation!Idle}
    PROVE  Diligence'
<1>1. remediationLeft \in Nat /\ remediationLeft' \in Nat /\ remediationLeft' < remediationLeft
  BY DEF Diligence, Remediation!Happens
<1>2. ASSUME remediation' = remediation, Remediates(remediation)
      PROVE  Remediates(remediation)'
  BY <1>1, <1>2 DEF Remediates, Vouched, Remediation!Accepted, Remediation!Refused, Remediation!Fixer,
     Remediation!InBounds
<1>3. Merges'
  BY DEF Diligence, Merges, Reviewed, Remediation!Accepted, Remediation!Refused, Remediation!Fixer,
     Remediation!InBounds, Remediation!Idle
<1>. QED
  BY <1>1, <1>2, <1>3 DEF Diligence, Remediation!Targets, Remediation!Idle

\* An edit is a content.
LEMMA EditsParse == ASSUME NEW f PROVE Remediation!Edits(f) \subseteq Remediation!Contents
<1>1. (f \notin Json) \in BOOLEAN
  OBVIOUS
<1>2. Remediation!Content("other", f \notin Json) \in Remediation!Contents
  BY <1>1, ContentsParse
<1>. QED
  BY <1>2 DEF Remediation!Edits, Remediation!Contents, Remediation!Written

\* Everybody else.
LEMMA OthersSteps ==
    ASSUME Diligence,
           \/ \E f \in Remediation!Targets : \E c \in Remediation!Edits(f) : Remediation!Edit(f, c)
           \/ Remediation!Commit \/ Remediation!TriageAgain \/ Remediation!RulesetDrifts
           \/ Remediation!KillRun \/ Remediation!KillMerge
    PROVE  Diligence'
<1>1. /\ Remediation!Happens /\ UNCHANGED <<staged, plan, audits, released>>
      /\ remediation' \in {remediation, Remediation!Idle} /\ merger' \in {merger, Remediation!Idle}
  BY DEF Remediation!Edit, Remediation!Commit, Remediation!TriageAgain, Remediation!RulesetDrifts,
         Remediation!KillRun, Remediation!KillMerge, Remediation!Throws, Remediation!Blocked,
         Remediation!merging, Remediation!repo
<1>2. ASSUME NEW f \in Remediation!Targets, NEW c \in Remediation!Edits(f), Remediation!Edit(f, c)
      PROVE  files' \in [Remediation!Targets -> Remediation!Contents]
  BY <1>2, EditsParse DEF Diligence, Remediation!Edit
<1>3. \/ files' = files
      \/ \E f \in Remediation!Targets : \E c \in Remediation!Edits(f) : Remediation!Edit(f, c)
  BY DEF Remediation!Commit, Remediation!TriageAgain, Remediation!RulesetDrifts,
         Remediation!KillRun, Remediation!KillMerge, Remediation!repo
<1>4. files' \in [Remediation!Targets -> Remediation!Contents]
  BY <1>2, <1>3 DEF Diligence
<1>. QED
  BY <1>1, <1>4, DisturbStep

\* A step of the merge leaves the run alone.
LEMMA MergeStep ==
    ASSUME Diligence, UNCHANGED <<files, staged, head, remediation, remediationLeft>>, Merges'
    PROVE  Diligence'
<1>1. Remediates(remediation) => Remediates(remediation)'
  BY DEF Remediates, Vouched, Remediation!Accepted, Remediation!Refused, Remediation!Fixer,
     Remediation!InBounds
<1>. QED
  BY <1>1 DEF Diligence, Remediation!Targets, Remediation!Idle

\* The steps of merge.ts beside the audit record; a release comes after it.
LEMMA MergeSteps ==
    ASSUME Diligence,
           Remediation!MergeStarts \/ Remediation!Gate \/ Remediation!Release \/ Remediation!Render
    PROVE  Diligence'
<1>0. Merges
  BY DEF Diligence
<1>1. UNCHANGED <<files, staged, head, remediation, remediationLeft, plan, audits>>
  BY DEF Remediation!MergeStarts, Remediation!Gate, Remediation!Release, Remediation!Render,
         Remediation!repo, Remediation!bounds
<1>2. CASE Remediation!MergeStarts
  <2>1. merger' = [at |-> "gate", plan |-> plan] /\ plan.file = "whole" /\ plan.approved /\ released' = released
    BY <1>2 DEF Remediation!MergeStarts
  <2>2. Reviewed(plan)
    BY <1>0, <2>1 DEF Merges, Reviewed, Remediation!Refused
  <2>3. Merges'
    BY <1>0, <1>1, <2>1, <2>2 DEF Merges, Reviewed, Remediation!Accepted, Remediation!Refused,
       Remediation!Fixer, Remediation!InBounds, Remediation!Idle
  <2>. QED
    BY <1>1, <2>3, MergeStep
<1>3. CASE Remediation!Gate
  <2>1. merger # Remediation!Idle /\ released' = released
        /\ merger' \in {Remediation!Idle, [merger EXCEPT !.at = "audit"]}
    BY <1>3 DEF Remediation!Gate, Remediation!Moves, Remediation!Blocked, Remediation!Idle
  <2>2. Merges'
    BY <1>0, <1>1, <2>1 DEF Merges, Reviewed, Remediation!Accepted, Remediation!Refused,
       Remediation!Fixer, Remediation!InBounds, Remediation!Idle
  <2>. QED
    BY <1>1, <2>2, MergeStep
<1>4. CASE Remediation!Release
  <2>1. merger # Remediation!Idle /\ merger.at = "result" /\ released' = released \union {merger.plan}
        /\ merger' = Remediation!Idle
    BY <1>4 DEF Remediation!Release, Remediation!Blocked, Remediation!Idle
  <2>2. Merges'
    BY <1>0, <1>1, <2>1 DEF Merges, Reviewed, Remediation!Accepted, Remediation!Refused,
       Remediation!Fixer, Remediation!InBounds, Remediation!Idle
  <2>. QED
    BY <1>1, <2>2, MergeStep
<1>5. CASE Remediation!Render
  <2>1. merger' = merger /\ released' = released
    BY <1>5 DEF Remediation!Render
  <2>2. Merges'
    BY <1>0, <1>1, <2>1 DEF Merges, Reviewed, Remediation!Accepted, Remediation!Refused,
       Remediation!Fixer, Remediation!InBounds, Remediation!Idle
  <2>. QED
    BY <1>1, <2>2, MergeStep
<1>. QED
  BY <1>2, <1>3, <1>4, <1>5

\* The audit record, before the release.
LEMMA AuditStep ==
    ASSUME Diligence, Remediation!Audit
    PROVE  Diligence'
<1>0. Merges /\ merger.at = "audit" /\ merger # Remediation!Idle
  BY DEF Diligence, Remediation!Audit, Remediation!Idle
<1>1. UNCHANGED <<files, staged, head, remediation, plan, released>>
  BY DEF Remediation!Audit, Remediation!repo
<1>2. CASE Remediation!Happens
  <2>1. (merger' = Remediation!Idle /\ audits' = audits) \/ remediationLeft' = remediationLeft
    BY DEF Remediation!Audit, Remediation!Blocked, Remediation!Calm
  <2>. QED
    BY <1>1, <1>2, <2>1, DisturbStep DEF Remediation!Happens, Diligence
<1>3. CASE ~Remediation!Happens
  <2>1. /\ audits' = [a \in DOMAIN audits \union {merger.plan.advisory} |->
                        IF a = merger.plan.advisory THEN merger.plan ELSE audits[a]]
        /\ merger' = [merger EXCEPT !.at = "result"] /\ remediationLeft' = remediationLeft
    BY <1>3 DEF Remediation!Audit, Remediation!Moves, Remediation!Calm
  <2>2. /\ DOMAIN audits' = DOMAIN audits \union {merger.plan.advisory}
        /\ \A a \in DOMAIN audits' : audits'[a] = merger.plan \/ (a \in DOMAIN audits /\ audits'[a] = audits[a])
    BY <2>1
  <2>3. DOMAIN merger' = {"at", "plan"} /\ merger'.plan = merger.plan
    BY <1>0, <2>1 DEF Merges
  <2>4. \A p : Reviewed(p) => Reviewed(p)'
    BY DEF Reviewed, Remediation!Accepted, Remediation!Refused, Remediation!Fixer, Remediation!InBounds
  <2>5. Reviewed(merger.plan)
    BY <1>0 DEF Merges
  <2>6. \A a \in DOMAIN audits' : Reviewed(audits'[a])
    BY <1>0, <2>2, <2>5 DEF Merges
  <2>7. Merges'
    BY <1>0, <1>1, <2>2, <2>3, <2>5, <2>6 DEF Merges, Reviewed, Remediation!Accepted, Remediation!Refused,
       Remediation!Fixer, Remediation!InBounds, Remediation!Idle
  <2>. QED
    BY <1>1, <2>1, <2>7, MergeStep
<1>. QED
  BY <1>2, <1>3

\* Every step keeps it.
LEMMA DiligenceStep ==
    ASSUME Diligence, [Remediation!Next]_remediationVars
    PROVE  Diligence'
<1>1. CASE UNCHANGED remediationVars
  <2>1. Merges'
    BY <1>1 DEF remediationVars, Diligence, Merges, Reviewed, Remediation!Accepted, Remediation!Refused,
       Remediation!Fixer, Remediation!InBounds, Remediation!Idle
  <2>. QED
    BY <1>1, <2>1, MergeStep DEF remediationVars
<1>2. CASE Remediation!Next
  BY <1>2, StartStep, EarlySteps, ReviewStep, ReadSteps, ReviseStep, StageStep, CheckStep,
     RenameVerifySteps, OutputStep, MergeSteps, AuditStep, OthersSteps, Zenon
     DEF Remediation!Next, Remediation!Steps
<1>. QED
  BY <1>1, <1>2

\* It holds at the start.
LEMMA DiligenceStart == Remediation!Init => Diligence
BY RemediationAssumption DEF Remediation!Init, Diligence, Merges, Remediation!Idle

\* So it holds throughout.
LEMMA DiligenceInvariant == Spec => []Diligence
<1>1. Init => Diligence
  BY DiligenceStart DEF Init
<1>2. Diligence /\ [Next]_vars => Diligence'
  BY Alone, DiligenceStep
<1>. QED
  BY <1>1, <1>2, PTL DEF Spec

\* remediate.ts replaces a file only in an approved apply, at the commit the operator
\* reviewed and over the content it read, all as of its last check before, with the
\* vulnerable version changed; JSON without that version only if it is written otherwise,
\* and so that it says the same: whoever edits, commits and kills meanwhile.
THEOREM Replacements == Spec => []ReplacesWhatWasReviewed
<1>1. Diligence => ReplacesWhatWasReviewed
  <2>. SUFFICES ASSUME Diligence, remediation.at = "rename"
                PROVE  Remediation!ReplacesWhatWasReviewed
    BY DEF ReplacesWhatWasReviewed, Remediation!ReplacesWhatWasReviewed
  <2>1. Remediates(remediation)
    BY DEF Diligence, Remediation!Idle
  <2>2. /\ Fixing(remediation) # Reading(remediation)
        /\ staged[Remediation!File] = Fixing(remediation)
        /\ Reading(remediation) \in Remediation!Parsed
    BY <2>1, FilesAre DEF Remediates, Replacing, Remediation!File, Reading
  <2>3. PICK says \in {"vulnerable", "fixed", "other"}, canonical \in BOOLEAN :
           Reading(remediation) = Remediation!Content(says, canonical)
    BY <2>2 DEF Remediation!Parsed
  <2>4. Fixing(remediation) = Remediation!Content(IF says = "vulnerable" THEN "fixed" ELSE says,
                                                  canonical \/ Remediation!File \in Json)
    BY <2>3 DEF Fixing, Remediation!Replacement, Remediation!File, Remediation!Content
  <2>5. \/ Remediation!Old.says = "vulnerable" /\ staged[Remediation!File].says = "fixed"
        \/ /\ Remediation!File \in Json /\ ~Remediation!Old.canonical
           /\ staged[Remediation!File] = Remediation!Content(Remediation!Old.says, TRUE)
    <3>1. Remediation!Old = Remediation!Content(says, canonical)
      BY <2>3 DEF Remediation!Old, Reading
    <3>2. CASE says = "vulnerable"
      BY <2>2, <2>4, <3>1, <3>2 DEF Remediation!Content
    <3>3. CASE says # "vulnerable"
      <4>0. ASSUME (canonical \/ Remediation!File \in Json) = canonical
            PROVE  Fixing(remediation) = Reading(remediation)
        BY <2>3, <2>4, <3>3, <4>0
      <4>1. canonical = FALSE /\ Remediation!File \in Json
        BY <2>2, <4>0
      <4>2. (canonical \/ Remediation!File \in Json) = TRUE
        BY <4>1
      <4>3. Fixing(remediation) = Remediation!Content(says, TRUE)
        BY <2>4, <3>3, <4>2 DEF Remediation!Content
      <4>4. Remediation!Old.says = says
        BY <3>1 DEF Remediation!Content
      <4>5. Remediation!Old.canonical = FALSE
        BY <3>1, <4>1 DEF Remediation!Content
      <4>. QED
        BY <2>2, <4>1, <4>3, <4>4, <4>5
    <3>. QED
      BY <3>2, <3>3
  <2>. QED
    BY <2>1, <2>5 DEF Remediates, Applying, Replacing, Remediation!ReplacesWhatWasReviewed,
       Remediation!File, Remediation!Old, Reading
<1>. QED
  BY <1>1, DiligenceInvariant, PTL

\* merge.ts releases what an agent approved after a clean recheck of the whole closure,
\* what passed the dependency review and was claimed, and only with an audit record.
THEOREM Releases == Spec => []ReleasesAreReviewedAndAudited
<1>1. Diligence => ReleasesAreReviewedAndAudited
  BY DEF Diligence, Merges, Reviewed, ReleasesAreReviewedAndAudited, Remediation!Refused,
         Remediation!ReleasesAreReviewedAndAudited
<1>. QED
  BY <1>1, DiligenceInvariant, PTL

-----------------------------------------------------------------------------
(***************************************************************************)
(* The evidence adapters                                                   *)
(***************************************************************************)
\* Which adapter is where, and what it has read was there at some moment of the call.
Looking ==
    /\ world \in seen
    /\ call.at \in {"refused", "lookup", "wait", "available", "log", "pinned", "latest",
                   "snapshots", "preview", "done"}
    /\ call.at \in {"lookup", "wait"} => adapter = "CloudTrail"
    /\ call.at \in {"available", "log"} => adapter = "GitLog"
    /\ call.at \in {"pinned", "latest"} => adapter = "ProviderVersion"
    /\ call.at = "snapshots" => adapter = "KubernetesApi"
    /\ call.at = "preview" => adapter = "AutomationApi"
    /\ call.at = "latest" => \E v \in seen : call.pinned = v.pinned
    /\ call.at = "snapshots" =>
          /\ DOMAIN call = {"at", "live", "desired"}
          /\ call.live # << >> => \E v \in seen : call.live = <<v.live>>
          /\ call.desired # << >> => \E w \in seen : call.desired = <<w.desired>>

\* Where the retries of CloudTrail stand against their budget.
Budgeted ==
    /\ policy \in Policies /\ waited \in Nat
    /\ call.at # "done" => ~signal.given
    /\ call.at = "refused" => lookups = 0 /\ waited = 0
    /\ call.at \in {"lookup", "wait"} =>
          /\ DOMAIN call = {"at", "attempts", "delay", "next"}
          /\ ~Adapter!Refused
          /\ call.attempts = lookups /\ lookups \in Nat
          /\ call.next \in Nat /\ call.delay \in Nat
          /\ Adapter!Elapsed # Unset => call.delay <= Adapter!Elapsed
    /\ call.at = "lookup" => waited = call.delay /\ call.attempts <= Adapter!Attempts
    /\ call.at = "wait" => call.delay = waited + call.next /\ call.attempts < Adapter!Attempts
    /\ call.at \in {"available", "log", "pinned", "latest", "snapshots", "preview"} => waited = 0

\* The inductive invariant of the adapters.
AdapterInv == Looking /\ Adapter!LastingDriftIsSeen /\ Budgeted /\ Adapter!RetriesStayInBudget

\* It holds when the adapter is asked.
LEMMA AdapterInit ==
    ASSUME Adapter!Init
    PROVE  AdapterInv
<1>1. Looking
  BY AdapterAssumption DEF Adapter!Init, Looking, Adapter!Start, Adapter!At
<1>2. Adapter!LastingDriftIsSeen
  BY DEF Adapter!Init, Adapter!LastingDriftIsSeen, Adapter!NoSignal
<1>3. policy \in Policies /\ Adapter!Backoff \in Nat
  BY AdapterAssumption DEF Adapter!Init, Adapter!Backoff, Adapter!NotBelowZero
<1>4. Adapter!Elapsed # Unset => Adapter!Elapsed \in Nat
  BY <1>3, AdapterAssumption DEF Adapter!Elapsed, Adapter!NotBelowZero
<1>5. ~Adapter!Refused => Adapter!Attempts \in 1..10
  BY DEF Adapter!Refused
<1>6. CASE adapter = "CloudTrail" /\ ~(window = "refused" \/ Adapter!Refused)
  <2>1. call = [at |-> "lookup", attempts |-> 1, delay |-> 0, next |-> Adapter!Backoff]
        /\ waited = 0 /\ lookups = 1 /\ signal = Adapter!NoSignal
    BY <1>6 DEF Adapter!Init, Adapter!Start
  <2>. QED
    BY <1>1, <1>2, <1>3, <1>4, <1>5, <1>6, <2>1
       DEF AdapterInv, Budgeted, Adapter!RetriesStayInBudget, Adapter!NoSignal
<1>7. CASE ~(adapter = "CloudTrail" /\ ~(window = "refused" \/ Adapter!Refused))
  <2>1. /\ call.at \in {"refused", "available", "pinned", "snapshots", "preview"}
        /\ adapter = "CloudTrail" => call.at = "refused"
        /\ waited = 0 /\ lookups = 0 /\ signal = Adapter!NoSignal
    BY <1>7, AdapterAssumption DEF Adapter!Init, Adapter!Start, Adapter!At
  <2>. QED
    BY <1>1, <1>2, <1>3, <1>4, <1>5, <2>1
       DEF AdapterInv, Budgeted, Adapter!RetriesStayInBudget, Adapter!NoSignal
<1>. QED
  BY <1>6, <1>7

\* An answer, given once and with what has been waited.
LEMMA Answers ==
    ASSUME AdapterInv, NEW s, Adapter!Gives(s), s.ok /\ ~s.detected => \E v, w \in seen : ~Adapter!Drifted(v, w),
           adapter = "CloudTrail" => s.delay = waited
    PROVE  AdapterInv'
<1>1. /\ signal' = s /\ call' = [at |-> "done"]
      /\ UNCHANGED <<world, adapter, policy, window, waited, lookups, seen>>
  BY DEF Adapter!Gives, Adapter!At, Adapter!asked
<1>2. Looking'
  BY <1>1 DEF AdapterInv, Looking
<1>3. Adapter!LastingDriftIsSeen'
  BY <1>1 DEF Adapter!LastingDriftIsSeen, Adapter!Drifted, Adapter!Behind, Adapter!Part
<1>4. Budgeted' /\ Adapter!RetriesStayInBudget'
  BY <1>1 DEF AdapterInv, Budgeted, Adapter!RetriesStayInBudget, Adapter!Elapsed, Adapter!Attempts,
              Adapter!Refused, Adapter!NotBelowZero
<1>. QED
  BY <1>2, <1>3, <1>4 DEF AdapterInv

\* A step of the call that gives no answer yet.
LEMMA CallStep ==
    ASSUME AdapterInv, UNCHANGED <<world, adapter, policy, window, signal, seen>>,
           Looking', Budgeted', Adapter!RetriesStayInBudget'
    PROVE  AdapterInv'
BY DEF AdapterInv, Adapter!LastingDriftIsSeen, Adapter!Drifted, Adapter!Behind, Adapter!Part

\* The lookups of CloudTrail and the waits between them.
LEMMA LookupSteps ==
    ASSUME AdapterInv, Adapter!LookupAnswers \/ Adapter!LookupFails \/ Adapter!WaitEnds
    PROVE  AdapterInv'
<1>1. /\ call.at \in {"lookup", "wait"} /\ adapter = "CloudTrail" /\ world \in seen
      /\ DOMAIN call = {"at", "attempts", "delay", "next"}
      /\ ~Adapter!Refused /\ policy \in Policies
      /\ call.attempts = lookups /\ lookups \in Nat /\ waited \in Nat
      /\ call.next \in Nat /\ call.delay \in Nat
      /\ Adapter!Elapsed # Unset => call.delay <= Adapter!Elapsed
      /\ ~signal.given
  BY DEF AdapterInv, Looking, Budgeted, Adapter!LookupAnswers, Adapter!LookupFails, Adapter!WaitEnds
<1>2. Adapter!Attempts \in 1..10
  BY <1>1 DEF Adapter!Refused
<1>3. Adapter!Elapsed # Unset => Adapter!Elapsed \in Nat
  BY <1>1, AdapterAssumption DEF Adapter!Elapsed, Adapter!NotBelowZero
<1>4. CASE Adapter!LookupAnswers
  <2>. DEFINE s == [Adapter!Signal(TRUE, \E e \in world.events : ~Adapter!Filtered(e)) EXCEPT !.delay = call.delay]
  <2>1. Adapter!Gives(s) /\ call.at = "lookup"
    BY <1>4 DEF Adapter!LookupAnswers
  <2>2. s.delay = waited /\ s.detected = (\E e \in world.events : ~Adapter!Filtered(e))
    BY <2>1 DEF Adapter!Signal, AdapterInv, Budgeted
  <2>3. ~s.detected => ~Adapter!Drifted(world, world)
    BY <1>1, <2>2 DEF Adapter!Drifted, Adapter!Filtered
  <2>. QED
    BY <1>1, <2>1, <2>2, <2>3, Answers
<1>5. CASE Adapter!LookupFails /\ ~(call.attempts < Adapter!Attempts /\ Adapter!Retries)
  <2>. DEFINE s == [Adapter!Signal(FALSE, FALSE) EXCEPT !.delay = call.delay]
  <2>1. Adapter!Gives(s) /\ call.at = "lookup"
    BY <1>5 DEF Adapter!LookupFails
  <2>2. s.delay = waited /\ ~s.ok
    BY <2>1 DEF Adapter!Signal, AdapterInv, Budgeted
  <2>. QED
    BY <2>1, <2>2, Answers
<1>6. CASE Adapter!LookupFails /\ call.attempts < Adapter!Attempts /\ Adapter!Retries
  <2>1. /\ call.at = "lookup" /\ waited = call.delay
        /\ call' = [call EXCEPT !.at = "wait", !.delay = @ + call.next]
        /\ UNCHANGED <<world, adapter, policy, window, signal, seen, waited, lookups>>
    BY <1>6 DEF Adapter!LookupFails, Adapter!asked, AdapterInv, Budgeted
  <2>2. /\ call'.at = "wait" /\ call'.delay = call.delay + call.next /\ call'.next = call.next
        /\ call'.attempts = call.attempts /\ DOMAIN call' = {"at", "attempts", "delay", "next"}
    BY <1>1, <2>1
  <2>3. Adapter!Elapsed # Unset => call.delay + call.next <= Adapter!Elapsed
    BY <1>6 DEF Adapter!Retries
  <2>4. Looking'
    BY <1>1, <2>1, <2>2 DEF Looking
  <2>5. /\ Adapter!Elapsed' = Adapter!Elapsed /\ Adapter!Attempts' = Adapter!Attempts
        /\ Adapter!Refused' = Adapter!Refused
    BY <2>1 DEF Adapter!Elapsed, Adapter!Attempts, Adapter!Refused, Adapter!NotBelowZero
  <2>6. Budgeted'
    BY <1>1, <1>2, <1>3, <1>6, <2>1, <2>2, <2>3, <2>5 DEF Budgeted
  <2>7. Adapter!RetriesStayInBudget'
    BY <1>1, <2>1, <2>5 DEF AdapterInv, Adapter!RetriesStayInBudget
  <2>. QED
    BY <2>1, <2>4, <2>6, <2>7, CallStep
<1>7. CASE Adapter!WaitEnds
  <2>1. /\ call.at = "wait" /\ waited' = waited + call.next /\ lookups' = lookups + 1
        /\ call' = [call EXCEPT !.at = "lookup", !.attempts = @ + 1,
                                !.next = Adapter!Least(MaxSafe, 2 * call.next)]
        /\ UNCHANGED <<world, adapter, policy, window, signal, seen>>
    BY <1>7 DEF Adapter!WaitEnds, Adapter!asked
  <2>2. call.delay = waited + call.next /\ call.attempts < Adapter!Attempts
    BY <2>1 DEF AdapterInv, Budgeted
  <2>3. /\ call'.at = "lookup" /\ call'.delay = call.delay
        /\ call'.attempts = call.attempts + 1 /\ DOMAIN call' = {"at", "attempts", "delay", "next"}
        /\ call'.next = Adapter!Least(MaxSafe, 2 * call.next)
    BY <1>1, <2>1
  <2>4. call'.next \in Nat
    BY <1>1, <2>3, AdapterAssumption DEF Adapter!Least
  <2>5. Looking'
    BY <1>1, <2>1, <2>3 DEF Looking
  <2>6. /\ Adapter!Elapsed' = Adapter!Elapsed /\ Adapter!Attempts' = Adapter!Attempts
        /\ Adapter!Refused' = Adapter!Refused
    BY <2>1 DEF Adapter!Elapsed, Adapter!Attempts, Adapter!Refused, Adapter!NotBelowZero
  <2>7. Budgeted'
    BY <1>1, <1>2, <1>3, <2>1, <2>2, <2>3, <2>4, <2>6 DEF Budgeted
  <2>8. Adapter!RetriesStayInBudget'
    BY <1>1, <1>2, <2>1, <2>2, <2>6 DEF AdapterInv, Adapter!RetriesStayInBudget
  <2>. QED
    BY <2>1, <2>5, <2>7, <2>8, CallStep
<1>. QED
  BY <1>4, <1>5, <1>6, <1>7

\* The reads of the other adapters, one or two.
LEMMA ReadStep ==
    ASSUME AdapterInv, NEW c, Adapter!Reads(c),
           \/ c = [at |-> "log"] /\ call.at = "available"
           \/ c = [at |-> "latest", pinned |-> world.pinned] /\ call.at = "pinned"
           \/ c = [call EXCEPT !.live = <<world.live>>] /\ call.at = "snapshots"
           \/ c = [call EXCEPT !.desired = <<world.desired>>] /\ call.at = "snapshots"
    PROVE  AdapterInv'
<1>1. /\ call' = c /\ UNCHANGED <<world, adapter, policy, window, signal, seen, waited, lookups>>
      /\ Looking /\ Budgeted /\ Adapter!RetriesStayInBudget
  BY DEF Adapter!Reads, Adapter!asked, AdapterInv
<1>2. call'.at \in {"log", "latest", "snapshots"} /\ call.at \in {"available", "pinned", "snapshots"}
  BY <1>1 DEF Looking
<1>3. Looking'
  <2>1. CASE call.at = "snapshots"
    <3>1. /\ DOMAIN call = {"at", "live", "desired"} /\ adapter = "KubernetesApi" /\ world \in seen
          /\ call.live # << >> => \E v \in seen : call.live = <<v.live>>
          /\ call.desired # << >> => \E w \in seen : call.desired = <<w.desired>>
      BY <1>1, <2>1 DEF Looking
    <3>2. CASE c = [call EXCEPT !.live = <<world.live>>]
      <4>1. /\ DOMAIN call' = {"at", "live", "desired"} /\ call'.at = "snapshots"
            /\ call'.live = <<world.live>> /\ call'.desired = call.desired
        BY <1>1, <2>1, <3>1, <3>2
      <4>. QED
        BY <1>1, <3>1, <4>1 DEF Looking
    <3>3. CASE c = [call EXCEPT !.desired = <<world.desired>>]
      <4>1. /\ DOMAIN call' = {"at", "live", "desired"} /\ call'.at = "snapshots"
            /\ call'.live = call.live /\ call'.desired = <<world.desired>>
        BY <1>1, <2>1, <3>1, <3>3
      <4>. QED
        BY <1>1, <3>1, <4>1 DEF Looking
    <3>. QED
      BY <2>1, <3>2, <3>3
  <2>2. CASE c = [at |-> "log"] /\ call.at = "available"
    BY <1>1, <2>2 DEF Looking
  <2>3. CASE c = [at |-> "latest", pinned |-> world.pinned] /\ call.at = "pinned"
    BY <1>1, <2>3 DEF Looking
  <2>. QED
    BY <2>1, <2>2, <2>3
<1>4. Budgeted' /\ Adapter!RetriesStayInBudget'
  BY <1>1, <1>2 DEF Budgeted, Adapter!RetriesStayInBudget, Adapter!Elapsed, Adapter!Attempts,
              Adapter!Refused, Adapter!NotBelowZero
<1>. QED
  BY <1>1, <1>3, <1>4, CallStep

\* The answer of an adapter that does not wait.
LEMMA PlainAnswer ==
    ASSUME AdapterInv, NEW ok, NEW detected, Adapter!Gives(Adapter!Signal(ok, detected)),
           call.at \notin {"lookup", "wait", "done"},
           ok /\ ~detected => \E v, w \in seen : ~Adapter!Drifted(v, w)
    PROVE  AdapterInv'
<1>. DEFINE s == Adapter!Signal(ok, detected)
<1>1. s.delay = 0 /\ s.ok = ok /\ s.detected = detected
  BY DEF Adapter!Signal
<1>2. waited = 0
  BY DEF AdapterInv, Looking, Budgeted
<1>3. Adapter!Gives(s)
  OBVIOUS
<1>. HIDE DEF s
<1>. QED
  BY <1>1, <1>2, <1>3, Answers

\* The other adapters, and what fails.
LEMMA OtherAdapters ==
    ASSUME AdapterInv,
           \/ Adapter!Refuse \/ Adapter!GitAvailable \/ Adapter!GitLog \/ Adapter!ReadPinned
           \/ Adapter!ReadLatest \/ Adapter!ReadSnapshot \/ Adapter!CompareSnapshots
           \/ Adapter!Preview \/ Adapter!ReadFails
    PROVE  AdapterInv'
<1>0. Looking /\ Budgeted
  BY DEF AdapterInv
<1>3. ASSUME Adapter!Gives(Adapter!Signal(FALSE, FALSE)), call.at \notin {"lookup", "wait", "done"}
      PROVE  AdapterInv'
  BY <1>3, PlainAnswer
<1>4. CASE Adapter!Refuse \/ Adapter!ReadFails
  BY <1>3, <1>4 DEF Adapter!Refuse, Adapter!ReadFails
<1>5. CASE Adapter!GitAvailable
  BY <1>3, <1>5, ReadStep DEF Adapter!GitAvailable, Adapter!At
<1>6. CASE Adapter!GitLog
  <2>1. ~(world.commits > 0) => ~Adapter!Drifted(world, world)
    BY <1>0, <1>6 DEF Looking, Adapter!GitLog, Adapter!Drifted
  <2>. QED
    BY PlainAnswer, <1>0, <1>6, <2>1 DEF Adapter!GitLog, Looking
<1>7. CASE Adapter!ReadPinned
  BY <1>7, ReadStep DEF Adapter!ReadPinned
<1>8. CASE Adapter!ReadLatest
  <2>1. PICK v \in seen : call.pinned = v.pinned
    BY <1>0, <1>8 DEF Looking, Adapter!ReadLatest
  <2>2. ~Adapter!Behind(call.pinned, world.latest) => ~Adapter!Drifted(v, world)
    BY <1>0, <1>8, <2>1 DEF Looking, Adapter!ReadLatest, Adapter!Drifted
  <2>. QED
    BY PlainAnswer, <1>0, <1>8, <2>2 DEF Adapter!ReadLatest, Looking
<1>9. CASE Adapter!ReadSnapshot
  BY <1>9, ReadStep DEF Adapter!ReadSnapshot
<1>10. CASE Adapter!CompareSnapshots
  <2>1. PICK v \in seen, w \in seen : call.live = <<v.live>> /\ call.desired = <<w.desired>>
    BY <1>0, <1>10 DEF Looking, Adapter!CompareSnapshots
  <2>2. ~(call.live # call.desired) => ~Adapter!Drifted(v, w)
    BY <1>0, <1>10, <2>1 DEF Looking, Adapter!CompareSnapshots, Adapter!Drifted
  <2>. QED
    BY PlainAnswer, <1>0, <1>10, <2>2 DEF Adapter!CompareSnapshots, Looking
<1>11. CASE Adapter!Preview
  <2>1. ~(world.diff \/ world.updates > 0 \/ world.replaces > 0) => ~Adapter!Drifted(world, world)
    BY <1>0, <1>11 DEF Looking, Adapter!Preview, Adapter!Drifted
  <2>. QED
    BY PlainAnswer, <1>0, <1>11, <2>1 DEF Adapter!Preview, Looking
<1>. QED
  BY <1>4, <1>5, <1>6, <1>7, <1>8, <1>9, <1>10, <1>11

\* The world moves.
LEMMA MoveStep ==
    ASSUME AdapterInv, Adapter!Move
    PROVE  AdapterInv'
<1>1. /\ UNCHANGED <<adapter, policy, window, call, signal, waited, lookups>>
      /\ world' \in seen' /\ seen \subseteq seen'
  BY DEF Adapter!Move, Adapter!asked
<1>2. Looking'
  BY <1>1 DEF AdapterInv, Looking
<1>3. Budgeted' /\ Adapter!RetriesStayInBudget'
  BY <1>1 DEF AdapterInv, Budgeted, Adapter!RetriesStayInBudget, Adapter!Elapsed, Adapter!Attempts,
              Adapter!Refused, Adapter!NotBelowZero
<1>4. Adapter!LastingDriftIsSeen'
  BY <1>1 DEF AdapterInv, Adapter!LastingDriftIsSeen, Adapter!Drifted, Adapter!Behind, Adapter!Part
<1>. QED
  BY <1>2, <1>3, <1>4 DEF AdapterInv

\* Every step keeps it.
LEMMA AdapterStep ==
    ASSUME AdapterInv, [Adapter!Next]_adapterVars
    PROVE  AdapterInv'
<1>1. CASE UNCHANGED adapterVars
  BY <1>1 DEF adapterVars, AdapterInv, Looking, Budgeted, Adapter!RetriesStayInBudget,
     Adapter!LastingDriftIsSeen, Adapter!Drifted, Adapter!Behind, Adapter!Part,
     Adapter!Elapsed, Adapter!Attempts, Adapter!Refused, Adapter!NotBelowZero
<1>2. CASE Adapter!Next
  BY <1>2, LookupSteps, OtherAdapters, MoveStep DEF Adapter!Next
<1>. QED
  BY <1>1, <1>2

\* So it holds throughout.
LEMMA AdapterInvariant == Spec => []AdapterInv
<1>1. Init => AdapterInv
  BY AdapterInit DEF Init
<1>2. AdapterInv /\ [Next]_vars => AdapterInv'
  BY Alone, AdapterStep
<1>. QED
  BY <1>1, <1>2, PTL DEF Spec

\* No adapter of packages/drift says that it looked and saw no drift while there was
\* drift throughout its call: what fails, is refused or is cut off is no such answer.
THEOREM DriftIsSeen == Spec => []LastingDriftIsSeen
<1>1. AdapterInv => LastingDriftIsSeen
  BY DEF AdapterInv, LastingDriftIsSeen
<1>. QED
  BY <1>1, AdapterInvariant, PTL

\* The lookups of cloudtrail.ts and the delays between them, the last one included, stay
\* within the attempts and the time of its policy, and its signal says how long it waited.
THEOREM RetriesAreBounded == Spec => []RetriesStayInBudget
<1>1. AdapterInv => RetriesStayInBudget
  BY DEF AdapterInv, RetriesStayInBudget
<1>. QED
  BY <1>1, AdapterInvariant, PTL

-----------------------------------------------------------------------------
(***************************************************************************)
(* The live validator                                                      *)
(***************************************************************************)
\* What an adapter can contribute: what it answers, in time, or that it is degraded.
Said(a) == Live!Answer(a) \union {Live!Degraded(a)}

\* What the findings of a run are made of.
Contributions ==
    [adapter : Live!Adapters, findings : SUBSET UNION {Said(a) : a \in Live!Adapters}]

\* Where a worker can be.
WorkerStates == [state : {"free", "ready", "waiting"},
                 adapter : {Live!NoAdapter} \union Live!Adapters]

\* The types of the variables.
LiveFields ==
    /\ request \in Orders
    /\ at \in {"parse", "run", "render", "write", "done"}
    /\ cursor \subseteq Live!Adapters
    /\ worker \in [Workers -> WorkerStates]
    /\ findings \in Seq(Contributions)
    /\ artifacts \subseteq request.formats

\* A worker that waits for its adapter.
Waits(w) == worker[w].state = "waiting"

\* Who has an adapter: one contribution, or one worker that waits for it.
Taken ==
    /\ \A w \in Workers : Waits(w) => worker[w].adapter \in cursor
    /\ \A i \in DOMAIN findings : findings[i].adapter \in cursor
    /\ \A a \in cursor : \/ \E i \in DOMAIN findings : findings[i].adapter = a
                         \/ \E w \in Workers : Waits(w) /\ worker[w].adapter = a

\* Nobody is asked twice.
Once ==
    /\ \A i, j \in DOMAIN findings : findings[i].adapter = findings[j].adapter => i = j
    /\ \A w \in Workers, i \in DOMAIN findings :
          Waits(w) => findings[i].adapter # worker[w].adapter
    /\ \A w, v \in Workers : Waits(w) /\ Waits(v) /\ worker[w].adapter = worker[v].adapter => w = v

\* A contribution is the whole answer, or says that it is not.
Whole ==
    \A i \in DOMAIN findings :
        \/ /\ findings[i].findings = Live!Answer(findings[i].adapter)
           /\ request.adapters[findings[i].adapter].answers = "ok"
        \/ Live!Degraded(findings[i].adapter) \in findings[i].findings

\* The first worker ends when nothing is left, and the command after the last of them.
AllFree == \A w \in Workers : worker[w] = Live!Free

\* What each stage of the command has behind it.
Stages ==
    /\ at = "parse" => cursor = {}
    /\ at = "run" /\ worker[1].state = "free" => Live!Ahead = {}
    /\ at # "run" => AllFree
    /\ at \in {"render", "write"} => Live!Ahead = {} /\ \A f \in Live!AllFindings : f.status \in Live!Status
    /\ code = 0 => /\ at = "done" /\ Live!Ahead = {}
                   /\ \A f \in Live!AllFindings : f.status \in {"pass", "skipped"}
                   /\ request.outDir => artifacts = request.formats

\* The inductive invariant of the validator.
Complete == LiveFields /\ Taken /\ Once /\ Whole /\ Stages

\* It holds at the start.
LEMMA LiveInit ==
    ASSUME Live!Init
    PROVE  Complete
<1>1. worker = [w \in Workers |-> Live!Free] /\ request \in Orders /\ at = "parse"
      /\ cursor = {} /\ findings = << >> /\ artifacts = {} /\ code = Live!Running
  BY DEF Live!Init
<1>2. Live!Free \in WorkerStates /\ Live!Free.state = "free"
  BY DEF Live!Free, WorkerStates
<1>3. LiveFields
  BY <1>1, <1>2 DEF LiveFields
<1>4. DOMAIN findings = {}
  BY <1>1
<1>5. AllFree /\ \A w \in Workers : ~Waits(w)
  BY <1>1, <1>2 DEF AllFree, Waits
<1>6. Taken /\ Once /\ Whole
  BY <1>1, <1>4, <1>5, Zenon DEF Taken, Once, Whole
<1>7. Stages
  BY <1>1, <1>5 DEF Stages, Live!Running
<1>. QED
  BY <1>3, <1>6, <1>7 DEF Complete

\* There is at least one worker.
LEMMA FirstWorker ==
    ASSUME Complete
    PROVE  1 \in Workers /\ Live!Concurrency \in Nat \ {0}
<1>1. request.concurrency \in Nat \ {0} /\ 1 \in Workers
  BY ValidatorAssumption DEF Complete, LiveFields
<1>2. Live!Cardinality(Live!Adapters) = Cardinality(Live!Adapters)
  BY Zenon DEF Live!Cardinality, Cardinality
<1>3. Live!Cardinality(Live!Adapters) \in Nat
  BY <1>2, ValidatorAssumption, FS_CardinalityType DEF Complete, LiveFields, Live!Adapters
<1>. QED
  BY <1>1, <1>3 DEF Live!Concurrency

\* The command line is read, and the workers start.
LEMMA ParseStep ==
    ASSUME Complete, Live!Parse
    PROVE  Complete'
<1>1. UNCHANGED <<request, cursor, findings, artifacts>> /\ at = "parse" /\ cursor = {}
      /\ AllFree
  BY DEF Live!Parse, Complete, Stages
<1>2. CASE request.usage # "good" /\ UNCHANGED worker
  <2>1. at' = "done" /\ code' \in {1, 2}
    BY <1>2 DEF Live!Parse, Live!Exit
  <2>. QED
    BY <1>1, <1>2, <2>1 DEF Complete, LiveFields, Taken, Once, Whole, Stages, Waits, AllFree,
       Live!Adapters, Contributions, Said, Live!Answer, Live!Provider, Live!Degraded, WorkerStates
<1>3. CASE at' = "run"
  <2>1. /\ UNCHANGED code
        /\ worker' = [w \in Workers |->
                        [state |-> IF w <= Live!Concurrency THEN "ready" ELSE "free",
                         adapter |-> Live!NoAdapter]]
    BY <1>3 DEF Live!Parse, Live!Exit
  <2>2. /\ worker' \in [Workers -> WorkerStates] /\ worker'[1].state = "ready"
        /\ \A w \in Workers : worker'[w].state \in {"ready", "free"}
    BY <2>1, FirstWorker DEF WorkerStates
  <2>3. \A i \in DOMAIN findings : FALSE
    BY <1>1 DEF Complete, Taken
  <2>4. code # 0
    BY <1>1 DEF Complete, Stages
  <2>5. LiveFields'
    BY <1>1, <1>3, <2>2 DEF Complete, LiveFields, Live!Adapters, Contributions, Said, Live!Answer,
       Live!Provider, Live!Degraded, WorkerStates
  <2>6. \A w \in Workers : ~Waits(w)'
    BY <2>2 DEF Waits
  <2>7. Taken' /\ Once' /\ Whole'
    BY <1>1, <2>3, <2>6, Zenon DEF Taken, Once, Whole
  <2>8. Stages'
    BY <1>1, <1>3, <2>1, <2>2, <2>4 DEF Complete, Stages
  <2>. QED
    BY <2>5, <2>7, <2>8 DEF Complete
<1>. QED
  BY <1>2, <1>3 DEF Live!Parse

\* What depends on the request alone.
LEMMA LiveDefinitions ==
    ASSUME UNCHANGED request
    PROVE  /\ Live!Adapters' = Live!Adapters /\ WorkerStates' = WorkerStates
           /\ Contributions' = Contributions
           /\ \A a : Live!Answer(a)' = Live!Answer(a) /\ Live!Degraded(a)' = Live!Degraded(a)
BY DEF Live!Adapters, Contributions, Said, Live!Answer, Live!Provider, Live!Degraded, WorkerStates

\* A worker takes the next adapter.
LEMMA TakeStep ==
    ASSUME Complete, NEW w \in Workers, Live!Take(w)
    PROVE  Complete'
<1>1. /\ UNCHANGED <<request, at, findings, artifacts, code>>
      /\ worker[w].state = "ready"
      /\ LiveFields /\ Taken /\ Once /\ Whole /\ Stages
  BY DEF Live!Take, Complete
<1>2. PICK a \in Live!Ahead :
          /\ worker' = [worker EXCEPT ![w] = [state |-> "waiting", adapter |-> a]]
          /\ cursor' = cursor \union {a}
  BY DEF Live!Take
<1>3. a \in Live!Adapters /\ a \notin cursor
  BY <1>2 DEF Live!Ahead
<1>4. /\ worker' \in [Workers -> WorkerStates]
      /\ worker'[w] = [state |-> "waiting", adapter |-> a]
      /\ \A v \in Workers \ {w} : worker'[v] = worker[v]
  BY <1>1, <1>2, <1>3 DEF LiveFields, WorkerStates
<1>5. /\ Waits(w)' /\ worker'[w].adapter = a
      /\ \A v \in Workers \ {w} : Waits(v)' = Waits(v) /\ worker'[v].adapter = worker[v].adapter
  BY <1>4 DEF Waits
<1>6. LiveFields'
  BY <1>1, <1>2, <1>3, <1>4, LiveDefinitions DEF LiveFields
<1>7. \A v \in Workers : ~(Waits(v) /\ v = w)
  BY <1>1 DEF Waits
<1>8. Taken'
  BY <1>1, <1>2, <1>5, <1>7 DEF Taken
<1>9. Once'
  BY <1>1, <1>2, <1>3, <1>5, <1>7 DEF Taken, Once
<1>10. Whole'
  BY <1>1, LiveDefinitions DEF Whole
<1>11. at = "run"
  BY <1>1 DEF Stages, AllFree, Live!Free
<1>12. Stages'
  <2>1. code' # 0
    BY <1>1, <1>11 DEF Stages
  <2>2. worker'[1].state = "free" => Live!Ahead' = {}
    <3>1. 1 \in Workers
      BY ValidatorAssumption
    <3>2. worker'[1].state = "free" => worker[1].state = "free"
      BY <3>1, <1>4
    <3>3. a \in Live!Ahead
      BY <1>2
    <3>. QED
      BY <1>1, <1>11, <3>2, <3>3 DEF Stages
  <2>. QED
    BY <1>1, <1>11, <2>1, <2>2 DEF Stages
<1>. QED
  BY <1>6, <1>8, <1>9, <1>10, <1>12 DEF Complete

\* A worker finds nothing left.
LEMMA FinishStep ==
    ASSUME Complete, NEW w \in Workers, Live!Finish(w)
    PROVE  Complete'
<1>1. /\ UNCHANGED <<request, at, cursor, findings, artifacts, code>>
      /\ worker[w].state = "ready" /\ Live!Ahead = {}
      /\ worker' = [worker EXCEPT ![w] = Live!Free]
      /\ LiveFields /\ Taken /\ Once /\ Whole /\ Stages
  BY DEF Live!Finish, Complete
<1>2. /\ worker' \in [Workers -> WorkerStates]
      /\ worker'[w] = Live!Free
      /\ \A v \in Workers \ {w} : worker'[v] = worker[v]
  BY <1>1 DEF LiveFields, WorkerStates, Live!Free
<1>3. \A v \in Workers : Waits(v)' = Waits(v) /\ (Waits(v) => worker'[v].adapter = worker[v].adapter)
  BY <1>1, <1>2 DEF Waits, Live!Free
<1>4. LiveFields'
  BY <1>1, <1>2, LiveDefinitions DEF LiveFields
<1>5. Taken' /\ Once' /\ Whole'
  BY <1>1, <1>3, LiveDefinitions DEF Taken, Once, Whole
<1>6. at = "run"
  BY <1>1 DEF Stages, AllFree, Live!Free
<1>7. Live!Ahead' = {}
  BY <1>1, LiveDefinitions DEF Live!Ahead
<1>8. Stages'
  BY <1>1, <1>6, <1>7 DEF Stages
<1>. QED
  BY <1>4, <1>5, <1>8 DEF Complete

\* A contribution, by whichever way.
LEMMA ContributesStep ==
    ASSUME Complete, NEW w \in Workers, Waits(w), NEW fs, Live!Contributes(w, fs),
           fs \in SUBSET Said(worker[w].adapter),
           \/ fs = Live!Answer(worker[w].adapter) /\ request.adapters[worker[w].adapter].answers = "ok"
           \/ Live!Degraded(worker[w].adapter) \in fs
    PROVE  Complete'
<1>. DEFINE a == worker[w].adapter
            new == [adapter |-> a, findings |-> fs]
<1>1. /\ UNCHANGED <<request, at, cursor, artifacts, code>>
      /\ findings' = Append(findings, new)
      /\ worker' = [worker EXCEPT ![w] = [state |-> "ready", adapter |-> Live!NoAdapter]]
      /\ LiveFields /\ Taken /\ Once /\ Whole /\ Stages
  BY DEF Live!Contributes, Complete
<1>2. a \in cursor /\ a \in Live!Adapters /\ fs \in SUBSET Said(a)
  BY <1>1 DEF LiveFields, Taken
<1>3. new \in Contributions
  BY <1>2 DEF Contributions
<1>. HIDE DEF a
<1>4. /\ findings' \in Seq(Contributions) /\ DOMAIN findings' = 1..(Len(findings) + 1)
      /\ DOMAIN findings = 1..Len(findings) /\ Len(findings) \in Nat
      /\ findings'[Len(findings) + 1] = new
      /\ \A i \in DOMAIN findings : findings'[i] = findings[i]
  BY <1>1, <1>3 DEF LiveFields
<1>5. /\ worker' \in [Workers -> WorkerStates]
      /\ worker'[w].state = "ready"
      /\ \A v \in Workers \ {w} : worker'[v] = worker[v]
  BY <1>1 DEF LiveFields, WorkerStates
<1>6. ~Waits(w)' /\ \A v \in Workers \ {w} : Waits(v)' = Waits(v) /\ worker'[v].adapter = worker[v].adapter
  BY <1>5 DEF Waits
<1>7. \A i \in DOMAIN findings' : i \in DOMAIN findings \/ i = Len(findings) + 1
  BY <1>4
<1>8. LiveFields'
  BY <1>1, <1>4, <1>5, LiveDefinitions DEF LiveFields
<1>9. Len(findings) + 1 \in DOMAIN findings' /\ new.adapter = a /\ new.findings = fs
      /\ \A i \in DOMAIN findings : i \in DOMAIN findings' /\ i # Len(findings) + 1
  BY <1>4
<1>. DEFINE last == Len(findings) + 1
<1>. HIDE DEF last, new
<1>10. Taken'
  BY <1>1, <1>2, <1>4, <1>6, <1>7, <1>9 DEF Taken, last, a
<1>11. \A i \in DOMAIN findings : findings[i].adapter # a
  BY <1>1 DEF Once, a
<1>12. \A v \in Workers \ {w} : Waits(v) => worker[v].adapter # a
  BY <1>1 DEF Once, a
<1>13. Once'
  BY <1>1, <1>4, <1>6, <1>7, <1>9, <1>11, <1>12 DEF Once, last
<1>14. Whole'
  BY <1>1, <1>4, <1>7, <1>9, LiveDefinitions DEF Whole, last, a
<1>15. at = "run"
  BY <1>1 DEF Stages, AllFree, Live!Free, Waits
<1>16. Stages'
  <2>1. Live!Ahead' = Live!Ahead
    BY <1>1, LiveDefinitions DEF Live!Ahead
  <2>2. 1 \in Workers /\ (worker'[1].state = "free" => worker[1].state = "free")
    BY <1>5, ValidatorAssumption
  <2>. QED
    BY <1>1, <1>15, <2>1, <2>2 DEF Stages
<1>. QED
  BY <1>8, <1>10, <1>13, <1>14, <1>16 DEF Complete

\* An adapter answers, fails or is cut off.
LEMMA WaitSteps ==
    ASSUME Complete, NEW w \in Workers, Live!AnswerInTime(w) \/ Live!FailsOrTimesOut(w)
    PROVE  Complete'
<1>. DEFINE a == worker[w].adapter
<1>1. Waits(w)
  BY DEF Live!AnswerInTime, Live!FailsOrTimesOut, Waits
<1>2. CASE Live!AnswerInTime(w)
  <2>1. PICK fs \in Live!Cap(a, Live!Answer(a)) : Live!Contributes(w, fs)
    BY <1>2 DEF Live!AnswerInTime
  <2>2. request.adapters[a].answers = "ok"
    BY <1>2 DEF Live!AnswerInTime
  <2>3. fs \in SUBSET Said(a) /\ (fs = Live!Answer(a) \/ Live!Degraded(a) \in fs)
    BY <2>1 DEF Live!Cap, Live!Firsts, Said
  <2>. QED
    BY <1>1, <2>1, <2>2, <2>3, ContributesStep
<1>3. CASE Live!FailsOrTimesOut(w)
  BY <1>1, <1>3, ContributesStep DEF Live!FailsOrTimesOut, Said
<1>. QED
  BY <1>2, <1>3

\* The command after its workers: nothing is taken or contributed any more.
LEMMA LaterSteps ==
    ASSUME Complete, UNCHANGED <<request, cursor, worker, findings>>, AllFree, Live!Ahead = {},
           at' \in {"render", "write", "done"}, artifacts' \subseteq request.formats,
           at' # "done" => \A f \in Live!AllFindings : f.status \in Live!Status,
           \/ code' # 0
           \/ (/\ code' = 0 /\ at' = "done"
               /\ \A f \in Live!AllFindings : f.status \in {"pass", "skipped"}
               /\ request.outDir => artifacts' = request.formats)
    PROVE  Complete'
<1>1. Live!Ahead' = Live!Ahead /\ Live!AllFindings' = Live!AllFindings /\ Live!Status' = Live!Status
  BY LiveDefinitions, Zenon DEF Live!Ahead, Live!AllFindings, Live!Status
<1>2. LiveFields'
  BY LiveDefinitions DEF Complete, LiveFields
<1>3. Taken' /\ Once' /\ Whole'
  BY LiveDefinitions DEF Complete, Taken, Once, Whole, Waits
<1>4. AllFree'
  BY DEF AllFree
<1>5. Stages'
  BY <1>1, <1>4 DEF Stages, Live!Running
<1>. QED
  BY <1>2, <1>3, <1>5 DEF Complete

\* The report, the artifacts and the exit code.
LEMMA EndSteps ==
    ASSUME Complete,
           \/ Live!Summarize \/ Live!Render \/ (\E f \in Formats : Live!Write(f))
           \/ Live!WriteFails \/ Live!Written
    PROVE  Complete'
<1>1. /\ UNCHANGED <<request, cursor, worker, findings>> /\ at \in {"run", "render", "write"}
      /\ Stages /\ LiveFields
  BY DEF Live!Summarize, Live!Render, Live!Write, Live!WriteFails, Live!Written, Complete
<1>2. AllFree
  BY <1>1 DEF Stages, Live!Summarize, Live!Render, Live!Write, Live!WriteFails, Live!Written, AllFree
<1>3. Live!Ahead = {} /\ code # 0
  <2>1. 1 \in Workers /\ worker[1].state = "free"
    BY <1>2, ValidatorAssumption DEF AllFree, Live!Free
  <2>2. code # 0
    BY <1>1 DEF Stages
  <2>. QED
    BY <1>1, <2>1, <2>2 DEF Stages
<1>4. Live!ExitCode \in {0, 1}
      /\ (Live!ExitCode = 0 => \A f \in Live!AllFindings : f.status \notin {"fail", "degraded"})
  BY DEF Live!ExitCode
<1>5. CASE Live!Summarize
  <2>1. at = "run" /\ artifacts' = artifacts
    BY <1>5 DEF Live!Summarize
  <2>2. CASE at' = "done" /\ code' = 1
    BY <1>1, <1>2, <1>3, <2>1, <2>2, LaterSteps DEF LiveFields
  <2>3. CASE at' = "render" /\ code' = code /\ \A f \in Live!AllFindings : f.status \in Live!Status
    BY <1>1, <1>2, <1>3, <2>1, <2>3, LaterSteps DEF LiveFields
  <2>. QED
    BY <1>5, <2>2, <2>3 DEF Live!Summarize, Live!Exit
<1>6. ASSUME at \in {"render", "write"}
      PROVE  \A f \in Live!AllFindings : f.status \in Live!Status
  BY <1>1, <1>6 DEF Stages
<1>7. ASSUME at \in {"render", "write"}, Live!ExitCode = 0
      PROVE  \A f \in Live!AllFindings : f.status \in {"pass", "skipped"}
  BY <1>4, <1>6, <1>7 DEF Live!Status
<1>8. CASE Live!Render
  <2>1. at = "render" /\ artifacts' = artifacts /\ artifacts \subseteq request.formats
    BY <1>1, <1>8 DEF Live!Render, LiveFields
  <2>2. CASE at' = "done" /\ code' = 1
    BY <1>1, <1>2, <1>3, <2>1, <2>2, LaterSteps
  <2>3. CASE at' = "write" /\ code' = code
    BY <1>1, <1>2, <1>3, <1>6, <2>1, <2>3, LaterSteps
  <2>4. CASE ~request.outDir /\ at' = "done" /\ code' = Live!ExitCode
    BY <1>1, <1>2, <1>3, <1>4, <1>7, <2>1, <2>4, LaterSteps
  <2>. QED
    BY <1>8, <2>2, <2>3, <2>4 DEF Live!Render, Live!Exit
<1>9. CASE \E f \in Formats : Live!Write(f)
  <2>1. at = "write" /\ at' = "write" /\ code' = code /\ artifacts' \subseteq request.formats
    BY <1>1, <1>9 DEF Live!Write, LiveFields
  <2>. QED
    BY <1>1, <1>2, <1>3, <1>6, <2>1, LaterSteps
<1>10. CASE Live!WriteFails
  <2>1. at' = "done" /\ code' = 1 /\ artifacts' \subseteq request.formats
    BY <1>1, <1>10 DEF Live!WriteFails, LiveFields, Live!Exit
  <2>. QED
    BY <1>1, <1>2, <1>3, <2>1, LaterSteps
<1>11. CASE Live!Written
  <2>1. at = "write" /\ at' = "done" /\ code' = Live!ExitCode /\ artifacts' = request.formats
    BY <1>1, <1>11 DEF Live!Written, LiveFields, Live!Exit
  <2>. QED
    BY <1>1, <1>2, <1>3, <1>4, <1>7, <2>1, LaterSteps
<1>. QED
  BY <1>5, <1>8, <1>9, <1>10, <1>11

\* Every step keeps it.
LEMMA LiveStep ==
    ASSUME Complete, [Live!Next]_liveVars
    PROVE  Complete'
<1>1. CASE UNCHANGED liveVars
  <2>1. /\ UNCHANGED <<request, at, cursor, worker, findings, artifacts, code>>
    BY <1>1 DEF liveVars
  <2>2. Live!Ahead' = Live!Ahead /\ Live!AllFindings' = Live!AllFindings /\ Live!Status' = Live!Status
    BY <2>1, LiveDefinitions, Zenon DEF Live!Ahead, Live!AllFindings, Live!Status
  <2>3. LiveFields' /\ Taken' /\ Once' /\ Whole'
    BY <2>1, LiveDefinitions DEF Complete, LiveFields, Taken, Once, Whole, Waits
  <2>. QED
    BY <2>1, <2>2, <2>3 DEF Complete, Stages, AllFree
<1>2. CASE Live!Next
  BY <1>2, ParseStep, TakeStep, FinishStep, WaitSteps, EndSteps DEF Live!Next, Live!Works
<1>. QED
  BY <1>1, <1>2

\* So it holds throughout.
LEMMA CompleteInvariant == Spec => []Complete
<1>1. Init => Complete
  BY LiveInit DEF Init
<1>2. Complete /\ [Next]_vars => Complete'
  BY Alone, LiveStep
<1>. QED
  BY <1>1, <1>2, PTL DEF Spec

\* evaluateGitHubRunnerGovernance: what is wrong at GitHub is a finding that says so.
LEMMA WrongIsFound ==
    ASSUME NEW g, Live!Wrong(g)
    PROVE  \E f \in Live!Governance(g) : f.status \in {"fail", "degraded"}
<1>1. CASE \E e \in g.expected : e \notin DOMAIN g.live
  <2>1. PICK e \in g.expected : e \notin DOMAIN g.live
    BY <1>1
  <2>2. Live!Finding("environment-exists", "fail", e) \in Live!EnvironmentFindings(g)
    BY <2>1, Zenon DEF Live!EnvironmentFindings
  <2>. QED
    BY <2>2 DEF Live!Governance, Live!Finding
<1>2. CASE \E e \in g.expected \intersect g.production : e \in DOMAIN g.live /\ ~g.live[e]
  <2>1. PICK e \in g.expected \intersect g.production : e \in DOMAIN g.live /\ ~g.live[e]
    BY <1>2
  <2>2. Live!Finding("requires-reviewers", "fail", e) \in Live!EnvironmentFindings(g)
    BY <2>1 DEF Live!EnvironmentFindings
  <2>. QED
    BY <2>2 DEF Live!Governance, Live!Finding
<1>3. CASE \E j \in g.jobs : Live!SelfHosted(j) /\ ~Live!Approved(j, g)
  <2>1. PICK j \in g.jobs : Live!SelfHosted(j) /\ ~Live!Approved(j, g)
    BY <1>3
  <2>2. Live!Finding("self-hosted-approved", "fail", j.name) \in Live!RunnerFindings(g)
    BY <2>1 DEF Live!RunnerFindings
  <2>. QED
    BY <2>2 DEF Live!Governance, Live!Finding
<1>4. CASE \E j \in g.jobs : j.secrets \/ ~j.oidc
  <2>1. PICK j \in g.jobs : j.secrets \/ ~j.oidc
    BY <1>4
  <2>2. Live!Finding("no-long-lived-secrets", "fail", j.name) \in Live!RunnerFindings(g)
    BY <2>1 DEF Live!RunnerFindings
  <2>. QED
    BY <2>2 DEF Live!Governance, Live!Finding
<1>5. CASE ~g.complete
  <2>1. Live!Finding("page-cap-complete", "degraded", "runners") \in Live!Governance(g)
    BY <1>5 DEF Live!Governance
  <2>. QED
    BY <2>1 DEF Live!Finding
<1>. QED
  BY <1>1, <1>2, <1>3, <1>4, <1>5 DEF Live!Wrong, Live!Approved

\* An exit code 0 of live-validator.ts: every adapter contributed once, in time and with
\* all it had to say, none of it failed, degraded or went unread, and the artifacts are there.
THEOREM CleanExits == Spec => []CleanExitIsEarned
<1>1. ASSUME Complete, code = 0
      PROVE  Live!CleanExitIsEarned
  <2>1. /\ LiveFields /\ Taken /\ Once /\ Whole /\ AllFree /\ Live!Ahead = {}
        /\ \A f \in Live!AllFindings : f.status \in {"pass", "skipped"}
        /\ request.outDir => artifacts = request.formats
    BY <1>1 DEF Complete, Stages
  <2>2. ASSUME NEW a \in Live!Adapters
        PROVE  \E i \in DOMAIN findings :
              /\ findings[i] = [adapter |-> a, findings |-> Live!Answer(a)]
              /\ \A j \in DOMAIN findings : findings[j].adapter = a => j = i
              /\ request.adapters[a].answers = "ok"
              /\ Live!Provider(a) = "github" => ~Live!Wrong(request.adapters[a].settings)
              /\ Live!Provider(a) # "github" =>
                    \A f \in request.adapters[a].findings : f.status \in {"pass", "skipped"}
    <3>1. a \in cursor
      BY <2>1 DEF Live!Ahead
    <3>2. PICK i \in DOMAIN findings : findings[i].adapter = a
      BY <2>1, <3>1 DEF Taken, AllFree, Waits, Live!Free
    <3>3. \A f \in findings[i].findings : f.status \in {"pass", "skipped"}
      BY <2>1 DEF Live!AllFindings
    <3>4. findings[i].findings = Live!Answer(a) /\ request.adapters[a].answers = "ok"
      BY <2>1, <3>2, <3>3 DEF Whole, Live!Degraded, Live!Finding
    <3>5. findings[i] = [adapter |-> a, findings |-> Live!Answer(a)]
      <4>1. findings[i] \in Contributions
        BY <2>1 DEF LiveFields
      <4>. QED
        BY <3>2, <3>4, <4>1 DEF Contributions
    <3>6. Live!Provider(a) = "github" => ~Live!Wrong(request.adapters[a].settings)
      BY <3>3, <3>4, WrongIsFound DEF Live!Answer
    <3>7. Live!Provider(a) # "github" =>
              \A f \in request.adapters[a].findings : f.status \in {"pass", "skipped"}
      BY <3>3, <3>4 DEF Live!Answer
    <3>8. \A j \in DOMAIN findings : findings[j].adapter = a => j = i
      BY <2>1, <3>2 DEF Once
    <3>. QED
      BY <3>4, <3>5, <3>6, <3>7, <3>8
  <2>. QED
    BY <2>1, <2>2 DEF Live!CleanExitIsEarned
<1>2. Complete => CleanExitIsEarned
  BY <1>1 DEF CleanExitIsEarned, Live!CleanExitIsEarned
<1>. QED
  BY <1>2, CompleteInvariant, PTL

-----------------------------------------------------------------------------
(***************************************************************************)
(* The decision kernel                                                     *)
(***************************************************************************)
\* The kernel of the walk and the one the theorems are about are one.
LEMMA SamePlan ==
    ASSUME NEW in
    PROVE  Kernel!Plan(in) = KernelProofs!Plan(in)
<1>1. Kernel!FirstFailure(in) = KernelProofs!FirstFailure(in)
  BY Zenon
     DEF Kernel!FirstFailure, KernelProofs!FirstFailure, Kernel!Failures, KernelProofs!Failures,
         Kernel!ShapeFailures, KernelProofs!ShapeFailures, Kernel!FreshnessFailures,
         KernelProofs!FreshnessFailures, Kernel!GroupFailures, KernelProofs!GroupFailures,
         Kernel!MembershipFailures, KernelProofs!MembershipFailures, Kernel!Ec2Failures,
         KernelProofs!Ec2Failures, Kernel!TaintFailures, KernelProofs!TaintFailures,
         Kernel!When, KernelProofs!When, Kernel!SameKey, KernelProofs!SameKey,
         Kernel!Memberships, KernelProofs!Memberships, Kernel!CaptureTimes,
         KernelProofs!CaptureTimes, Kernel!Malformed, KernelProofs!Malformed,
         Kernel!OrderedScaling, KernelProofs!OrderedScaling, Kernel!Cardinality,
         KernelProofs!Cardinality, Kernel!NoFailure, KernelProofs!NoFailure
<1>. QED
  BY <1>1, Zenon DEF Kernel!Plan, KernelProofs!Plan, Kernel!PlanFailure, KernelProofs!PlanFailure,
     Kernel!Decision, KernelProofs!Decision, Kernel!Conflicting, KernelProofs!Conflicting,
     Kernel!CanSafelyRevoke, KernelProofs!CanSafelyRevoke, Kernel!NoFailure, KernelProofs!NoFailure

\* So is what a decision must rest on.
LEMMA SameProof ==
    ASSUME NEW in
    PROVE  /\ Kernel!Bounded(in) = KernelProofs!Bounded(in)
           /\ Kernel!Trustworthy(in) = KernelProofs!Trustworthy(in)
           /\ Kernel!Conflicting(in.node) = KernelProofs!Conflicting(in.node)
           /\ Kernel!CanSafelyRevoke(in.node) = KernelProofs!CanSafelyRevoke(in.node)
BY Zenon DEF Kernel!Bounded, KernelProofs!Bounded, Kernel!Trustworthy, KernelProofs!Trustworthy,
   Kernel!Conflicting, KernelProofs!Conflicting, Kernel!CanSafelyRevoke, KernelProofs!CanSafelyRevoke,
   Kernel!Fresh, KernelProofs!Fresh, Kernel!OneHealthyMembership, KernelProofs!OneHealthyMembership,
   Kernel!CaptureTimes, KernelProofs!CaptureTimes, Kernel!OrderedScaling, KernelProofs!OrderedScaling,
   Kernel!Expected, KernelProofs!Expected

\* What an Auto Scaling group looks like.
Snapshots == [name : {a1, a2}, members : SUBSET [id : Instances, healthy : BOOLEAN], at : Int]

\* The inputs a walk reaches: typed, with finitely many groups and members.
Walked ==
    /\ DOMAIN input = {"now", "node", "group", "asgs", "ec2"}
    /\ DOMAIN input.node = {"name", "uid", "rv", "pid", "label", "grp", "meta"}
    /\ DOMAIN input.group = {"name", "status", "asgs", "scaling", "at"}
    /\ input.now \in Int /\ input.group.at \in Int /\ input.ec2.at \in Int
    /\ input.node.pid \in Kernel!ProviderIds
    /\ input.asgs \subseteq Snapshots /\ IsFiniteSet(input.asgs)
    /\ \A g \in input.asgs : IsFiniteSet(g.members)
    /\ input.ec2 = [instance |-> input.ec2.instance, account |-> input.ec2.account,
                    region |-> input.ec2.region, zone |-> input.ec2.zone, type |-> input.ec2.type,
                    state |-> input.ec2.state, at |-> input.ec2.at]

\* A pair is finite.
LEMMA TwoAreFinite ==
    ASSUME NEW x, NEW y
    PROVE  IsFiniteSet({x, y})
<1>1. {x, y} = {x} \union {y}
  OBVIOUS
<1>2. IsFiniteSet({x}) /\ IsFiniteSet({y})
  BY FS_Singleton
<1>3. IsFiniteSet({x} \union {y})
  BY <1>2, FS_Union
<1>. QED
  BY <1>1, <1>3

\* The trustworthy input.
LEMMA WalkInit ==
    ASSUME Kernel!Init
    PROVE  Walked
<1>1. input = Kernel!Good
  BY DEF Kernel!Init
<1>2. input.node.pid \in Kernel!ProviderIds
  BY <1>1, DecisionAssumption DEF Kernel!Good, Kernel!ProviderIds
<1>3. input.asgs \subseteq Snapshots
  BY <1>1, DecisionAssumption DEF Kernel!Good, Kernel!Asg, Kernel!Member, Snapshots
<1>. DEFINE Group(a, i) == Kernel!Asg(a, {Kernel!Member(i, TRUE)}, 1)
<1>4. IsFiniteSet(input.asgs) /\ \A g \in input.asgs : IsFiniteSet(g.members)
  <2>1. input.asgs = {Group(a1, i1), Group(a2, i2)}
    BY <1>1 DEF Kernel!Good
  <2>2. \A a, i : Group(a, i).members = {Kernel!Member(i, TRUE)}
    BY DEF Kernel!Asg
  <2>. HIDE DEF Group
  <2>3. IsFiniteSet(input.asgs)
    BY <2>1, TwoAreFinite
  <2>4. ASSUME NEW g \in input.asgs PROVE IsFiniteSet(g.members)
    <3>1. PICK a, i : g = Group(a, i)
      BY <2>1
    <3>2. g.members = {Kernel!Member(i, TRUE)}
      BY <2>2, <3>1
    <3>3. \A m : IsFiniteSet({m})
      BY FS_Singleton
    <3>. QED
      BY <3>2, <3>3
  <2>. QED
    BY <2>3, <2>4
<1>5. /\ DOMAIN input = {"now", "node", "group", "asgs", "ec2"}
      /\ DOMAIN input.node = {"name", "uid", "rv", "pid", "label", "grp", "meta"}
      /\ DOMAIN input.group = {"name", "status", "asgs", "scaling", "at"}
      /\ input.now \in Int /\ input.group.at \in Int /\ input.ec2.at \in Int
  BY <1>1 DEF Kernel!Good
<1>6. input.ec2 = [instance |-> input.ec2.instance, account |-> input.ec2.account,
                   region |-> input.ec2.region, zone |-> input.ec2.zone, type |-> input.ec2.type,
                   state |-> input.ec2.state, at |-> input.ec2.at]
  BY <1>1 DEF Kernel!Good
<1>. QED
  BY <1>2, <1>3, <1>4, <1>5, <1>6 DEF Walked

\* One snapshot is replaced by another of the same group.
LEMMA SnapshotReplaced ==
    ASSUME Walked, NEW g \in input.asgs, NEW h \in Snapshots, IsFiniteSet(h.members),
           input' = [input EXCEPT !.asgs = (@ \ {g}) \union {h}]
    PROVE  Walked'
<1>1. /\ input'.asgs = (input.asgs \ {g}) \union {h}
      /\ UNCHANGED <<input.now, input.node, input.group, input.ec2, DOMAIN input>>
  BY DEF Walked
<1>2. IsFiniteSet(input'.asgs)
  BY <1>1, FS_RemoveElement, FS_AddElement DEF Walked
<1>. QED
  BY <1>1, <1>2 DEF Walked

\* A fact of the Node changes.
LEMMA NodeChanges ==
    ASSUME Walked, Kernel!NodeChange
    PROVE  Walked'
<1>. DEFINE Node(n) == /\ input' = [input EXCEPT !.node = n]
                       /\ DOMAIN n = DOMAIN input.node /\ n.pid \in Kernel!ProviderIds
<1>1. ASSUME NEW n, Node(n) PROVE Walked'
  <2>1. UNCHANGED <<input.now, input.asgs, input.group, input.ec2, DOMAIN input>> /\ input'.node = n
    BY <1>1 DEF Walked
  <2>. QED
    BY <1>1, <2>1 DEF Walked
<1>2. \A l : Node([input.node EXCEPT !.label = l]) <=> input' = [input EXCEPT !.node.label = l]
  BY DEF Walked
<1>3. \A m : Node([input.node EXCEPT !.meta = m]) <=> input' = [input EXCEPT !.node.meta = m]
  BY DEF Walked
<1>4. \A p \in Kernel!ProviderIds : Node([input.node EXCEPT !.pid = p]) <=> input' = [input EXCEPT !.node.pid = p]
  BY DEF Walked
<1>5. \A m : Node([input.node EXCEPT !.name = m]) <=> input' = [input EXCEPT !.node.name = m]
  BY DEF Walked
<1>. HIDE DEF Node
<1>6. CASE \E l \in Labels \union {Absent} : input' = [input EXCEPT !.node.label = l]
  BY <1>1, <1>2, <1>6
<1>7. CASE \E p \in {[zone |-> z2, instance |-> i1], [zone |-> z1, instance |-> i2], Kernel!MalformedId} :
             input' = [input EXCEPT !.node.pid = p]
  <2>1. {[zone |-> z2, instance |-> i1], [zone |-> z1, instance |-> i2], Kernel!MalformedId} \subseteq Kernel!ProviderIds
    BY DecisionAssumption DEF Kernel!ProviderIds
  <2>. QED
    BY <1>1, <1>4, <1>7, <2>1
<1>8. CASE \/ \E ts \in Kernel!TaintSets : input' = [input EXCEPT !.node.meta.taints = ts]
           \/ input' = [input EXCEPT !.node.meta.zone = z2]
           \/ input' = [input EXCEPT !.node.meta.type = t3]
  BY <1>1, <1>3, <1>8
<1>9. CASE input' = [input EXCEPT !.node.name = long]
  BY <1>1, <1>5, <1>9
<1>. QED
  BY <1>6, <1>7, <1>8, <1>9 DEF Kernel!NodeChange

\* A fact of the provider's snapshots changes.
LEMMA ProviderChanges ==
    ASSUME Walked, Kernel!ProviderChange
    PROVE  Walked'
<1>1. ASSUME NEW v, input' = [input EXCEPT !.group = v], DOMAIN v = DOMAIN input.group, v.at \in Int
      PROVE  Walked'
  <2>1. UNCHANGED <<input.now, input.asgs, input.node, input.ec2, DOMAIN input>> /\ input'.group = v
    BY <1>1 DEF Walked
  <2>. QED
    BY <1>1, <2>1 DEF Walked
<1>2. ASSUME NEW v, input' = [input EXCEPT !.ec2 = v], v.at \in Int,
             v = [instance |-> v.instance, account |-> v.account, region |-> v.region,
                  zone |-> v.zone, type |-> v.type, state |-> v.state, at |-> v.at]
      PROVE  Walked'
  <2>1. UNCHANGED <<input.now, input.asgs, input.node, input.group, DOMAIN input>> /\ input'.ec2 = v
    BY <1>2 DEF Walked
  <2>. QED
    BY <1>2, <2>1 DEF Walked
<1>3. CASE \/ \E s \in {"ACTIVE", "DEGRADED"} : input' = [input EXCEPT !.group.status = s]
           \/ input' = [input EXCEPT !.group.name = "other"]
           \/ input' = [input EXCEPT !.group.scaling.max = 0]
           \/ input' = [input EXCEPT !.group.asgs = {a1}]
  BY <1>1, <1>3 DEF Walked
<1>4. CASE \/ input' = [input EXCEPT !.ec2.instance = i2]
           \/ input' = [input EXCEPT !.ec2.account = "other"]
           \/ input' = [input EXCEPT !.ec2.region = "other"]
           \/ input' = [input EXCEPT !.ec2.zone = z2]
           \/ input' = [input EXCEPT !.ec2.type = t3]
           \/ input' = [input EXCEPT !.ec2.state = "stopped"]
  BY <1>2, <1>4 DEF Walked
<1>5. CASE \E g \in input.asgs : input' = [input EXCEPT !.asgs = @ \ {g}]
  <2>1. PICK g \in input.asgs : input' = [input EXCEPT !.asgs = @ \ {g}]
    BY <1>5
  <2>2. /\ input'.asgs = input.asgs \ {g}
        /\ UNCHANGED <<input.now, input.node, input.group, input.ec2, DOMAIN input>>
    BY <2>1 DEF Walked
  <2>3. IsFiniteSet(input'.asgs)
    BY <2>2, FS_RemoveElement DEF Walked
  <2>. QED
    BY <2>2, <2>3 DEF Walked
<1>6. CASE \E g \in input.asgs, i \in {i1, i2}, h \in BOOLEAN :
              input' = [input EXCEPT !.asgs =
                           (@ \ {g}) \union {[g EXCEPT !.members = @ \union {Kernel!Member(i, h)}]}]
  <2>1. PICK g \in input.asgs, i \in {i1, i2}, h \in BOOLEAN :
            input' = [input EXCEPT !.asgs =
                         (@ \ {g}) \union {[g EXCEPT !.members = @ \union {Kernel!Member(i, h)}]}]
    BY <1>6
  <2>2. g \in Snapshots /\ IsFiniteSet(g.members)
    BY DEF Walked
  <2>. DEFINE new == [g EXCEPT !.members = @ \union {Kernel!Member(i, h)}]
  <2>3. Kernel!Member(i, h) \in [id : Instances, healthy : BOOLEAN]
    BY DecisionAssumption DEF Kernel!Member
  <2>4. new \in Snapshots /\ new.members = g.members \union {Kernel!Member(i, h)}
    BY <2>2, <2>3 DEF Snapshots
  <2>5. IsFiniteSet(new.members)
    BY <2>2, <2>4, FS_AddElement
  <2>. QED
    BY <2>1, <2>4, <2>5, SnapshotReplaced
<1>7. CASE \E g \in input.asgs : input' = [input EXCEPT !.asgs = (@ \ {g}) \union {[g EXCEPT !.members = {}]}]
  <2>1. PICK g \in input.asgs : input' = [input EXCEPT !.asgs = (@ \ {g}) \union {[g EXCEPT !.members = {}]}]
    BY <1>7
  <2>2. g \in Snapshots
    BY DEF Walked
  <2>. DEFINE new == [g EXCEPT !.members = {}]
  <2>3. new \in Snapshots /\ new.members = {}
    BY <2>2 DEF Snapshots
  <2>. QED
    BY <2>1, <2>3, FS_EmptySet, SnapshotReplaced
<1>. QED
  BY <1>3, <1>4, <1>5, <1>6, <1>7 DEF Kernel!ProviderChange

\* The clock or a capture time changes.
LEMMA TimeChanges ==
    ASSUME Walked, Kernel!TimeChange
    PROVE  Walked'
<1>1. CASE \E t \in 0 .. 4 : input' = [input EXCEPT !.now = t]
  BY <1>1 DEF Walked
<1>2. CASE \E t \in 0 .. 4 : input' = [input EXCEPT !.group.at = t]
  BY <1>2 DEF Walked
<1>3. CASE \E t \in 0 .. 4 : input' = [input EXCEPT !.ec2.at = t]
  <2>1. PICK t \in 0 .. 4 : input' = [input EXCEPT !.ec2.at = t]
    BY <1>3
  <2>2. /\ UNCHANGED <<input.now, input.asgs, input.node, input.group, DOMAIN input>>
        /\ input'.ec2 = [input.ec2 EXCEPT !.at = t]
    BY <2>1 DEF Walked
  <2>. QED
    BY <2>2 DEF Walked
<1>4. CASE \E g \in input.asgs, t \in 0 .. 4 :
              input' = [input EXCEPT !.asgs = (@ \ {g}) \union {[g EXCEPT !.at = t]}]
  <2>1. PICK g \in input.asgs, t \in 0 .. 4 :
            input' = [input EXCEPT !.asgs = (@ \ {g}) \union {[g EXCEPT !.at = t]}]
    BY <1>4
  <2>2. g \in Snapshots /\ IsFiniteSet(g.members)
    BY DEF Walked
  <2>. DEFINE new == [g EXCEPT !.at = t]
  <2>3. new \in Snapshots /\ new.members = g.members
    BY <2>2 DEF Snapshots
  <2>. QED
    BY <2>1, <2>2, <2>3, SnapshotReplaced
<1>. QED
  BY <1>1, <1>2, <1>3, <1>4 DEF Kernel!TimeChange

\* So a walk stays among them.
LEMMA WalkedInvariant == Spec => []Walked
<1>1. Init => Walked
  BY WalkInit DEF Init
<1>2. ASSUME Walked, [Kernel!Next]_kernelVars PROVE Walked'
  <2>1. CASE UNCHANGED kernelVars
    BY <1>2, <2>1 DEF kernelVars, Walked
  <2>2. CASE Kernel!Next
    BY <1>2, <2>2, NodeChanges, ProviderChanges, TimeChanges DEF Kernel!Next
  <2>. QED
    BY <1>2, <2>1, <2>2
<1>3. Walked /\ [Next]_vars => Walked'
  BY <1>2, Alone
<1>. QED
  BY <1>1, <1>3, PTL DEF Spec

\* They are the inputs of the theorems about the kernel.
LEMMA WalkedIsTyped ==
    ASSUME Walked
    PROVE  KernelProofs!Typed(input)
<1>1. \A S : IsFiniteSet(S) => KernelProofs!IsFiniteSet(S)
  BY Zenon DEF IsFiniteSet, KernelProofs!IsFiniteSet
<1>2. KernelProofs!ProviderIds = Kernel!ProviderIds
  BY Zenon DEF KernelProofs!ProviderIds, Kernel!ProviderIds, KernelProofs!MalformedId, Kernel!MalformedId
<1>3. \A g \in input.asgs : g.at \in Int /\ g.members \subseteq [id : Instances, healthy : BOOLEAN]
  BY DEF Walked, Snapshots
<1>4. KernelProofs!CaptureTimes(input) \subseteq Int
  BY <1>3 DEF Walked, KernelProofs!CaptureTimes
<1>. QED
  BY <1>1, <1>2, <1>3, <1>4 DEF Walked, KernelProofs!Typed

\* What the kernel's checks make of every input the walk reaches: an action exactly
\* on proof, and a revocation whenever a proof fails.
THEOREM Decisions == Spec => []ActsExactlyOnProof
<1>1. KernelProofs!KernelAssumption
  BY DecisionAssumption DEF Kernel!KernelAssumption, KernelProofs!KernelAssumption
<1>. DEFINE Acts == KernelProofs!Plan(input).action \in {"patch", "noop"}
            Proved == KernelProofs!Bounded(input) /\ KernelProofs!Trustworthy(input)
            Denied == KernelProofs!Conflicting(input.node)
<1>2. ASSUME Walked PROVE Acts => Proved /\ ~Denied
  BY <1>1, <1>2, WalkedIsTyped, KernelProofs!ActsOnlyOnProof
<1>3. ASSUME Walked PROVE Proved /\ ~Denied => Acts
  BY <1>1, <1>3, WalkedIsTyped, KernelProofs!ProofIsActedOn
<1>4. ASSUME Walked, input.node.label = Trusted, ~Proved
      PROVE  KernelProofs!CanSafelyRevoke(input.node) => KernelProofs!Plan(input).action = "revoke"
  BY <1>1, <1>4, WalkedIsTyped, KernelProofs!FailedProofIsRevoked
<1>5. ASSUME KernelProofs!Plan(input).action = "revoke" PROVE KernelProofs!CanSafelyRevoke(input.node)
  BY <1>5 DEF KernelProofs!Plan, KernelProofs!PlanFailure, KernelProofs!Decision, KernelProofs!Conflicting
<1>6. Denied => KernelProofs!Plan(input).action = "deny"
  BY DEF KernelProofs!Plan, KernelProofs!PlanFailure, KernelProofs!Decision, KernelProofs!Conflicting
<1>. HIDE DEF Acts, Proved, Denied
<1>7. Walked => Kernel!ActsExactlyOnProof
  <2>1. Kernel!ActsExactlyOnProof <=> (Acts <=> Proved /\ ~Denied)
    BY SamePlan, SameProof, Zenon DEF Kernel!ActsExactlyOnProof, Acts, Proved, Denied
  <2>. QED
    BY <1>2, <1>3, <2>1
<1>8. Walked => Kernel!FailedProofRevokes
  <2>1. Kernel!FailedProofRevokes <=>
            /\ input.node.label = Trusted /\ ~Proved =>
                  (KernelProofs!Plan(input).action = "revoke" <=> KernelProofs!CanSafelyRevoke(input.node))
            /\ Denied => KernelProofs!Plan(input).action = "deny"
    BY SamePlan, SameProof, Zenon DEF Kernel!FailedProofRevokes, Proved, Denied
  <2>. QED
    BY <1>4, <1>5, <1>6, <2>1
<1>9. Walked => ActsExactlyOnProof
  BY <1>7, <1>8 DEF ActsExactlyOnProof
<1>. QED
  BY <1>9, WalkedInvariant, PTL

-----------------------------------------------------------------------------
(***************************************************************************)
(* Types                                                                   *)
(***************************************************************************)
\* The scopes a component may be given.
BrokerScopes == {Broker!Canonical(a) : a \in {b \in Scopes : Broker!Normal(b)}}

\* The types of the broker.  Installing the App anew takes of what others may change.
BrokerTypes ==
    /\ tag \in BrokerScopes /\ functions \subseteq BrokerScopes
    /\ {update, tokenSecret.scope, population.scope} \subseteq BrokerScopes \cup {Broker!Nothing}
    /\ \A c \in Calls : tokenCalls[c].at # "idle" => tokenCalls[c].broker \in BrokerScopes
    /\ installation.id \in Nat \ {0} /\ left \in Nat
    /\ installation.id + left <= Disturbances + 1
    /\ keys \subseteq AppKeys

\* One call moves on, its broker the one it had.
LEMMA CallGoesTyped ==
    ASSUME BrokerInv, BrokerTypes, NEW c \in Calls, NEW changes_, Broker!Goes(c, changes_),
           tokenCalls[c].at # "idle" \/ ("broker" \in DOMAIN changes_ /\ changes_.broker \in BrokerScopes),
           "broker" \in DOMAIN changes_ => changes_.broker \in BrokerScopes
    PROVE  BrokerTypes'
<1>1. /\ DOMAIN tokenCalls = Calls /\ DOMAIN tokenCalls[c] = CallFields
  BY DEF BrokerInv, CallInv
<1>2. /\ tokenCalls'[c] = Broker!With(tokenCalls[c], changes_)
      /\ \A d \in Calls \ {c} : tokenCalls'[d] = tokenCalls[d]
  BY <1>1 DEF Broker!Goes
<1>3. tokenCalls'[c].broker \in BrokerScopes
  BY <1>1, <1>2 DEF Broker!With, CallFields, BrokerTypes
<1>4. \A d \in Calls : tokenCalls'[d].at # "idle" => tokenCalls'[d].broker \in BrokerScopes
  BY <1>2, <1>3 DEF BrokerTypes
<1>5. UNCHANGED <<tag, functions, update, tokenSecret, population, keys, installation, left>>
  BY DEF Broker!Goes, Broker!world
<1>. QED
  BY <1>4, <1>5 DEF BrokerTypes

\* A call of the broker.
LEMMA CallsTyped ==
    ASSUME BrokerInv, BrokerTypes, NEW c \in Calls,
           Broker!Invoke(c) \/ Broker!ReadSecret(c) \/ Broker!Lookup(c) \/ Broker!Mint(c)
    PROVE  BrokerTypes'
<1>1. CASE Broker!Invoke(c)
  <2>1. PICK f \in functions, q \in Requests :
           Broker!Goes(c, [at |-> IF Broker!Allows(f, q) THEN "read" ELSE "failed",
                           broker |-> f, request |-> q,
                           agreeable |-> Broker!Agreeable(f, q), disturbed |-> FALSE])
    BY <1>1 DEF Broker!Invoke
  <2>2. f \in BrokerScopes
    BY DEF BrokerTypes
  <2>. QED
    BY <2>1, <2>2, CallGoesTyped
<1>2. CASE Broker!ReadSecret(c)
  BY <1>2, CallGoesTyped DEF Broker!ReadSecret, Broker!Throws
<1>3. CASE Broker!Lookup(c)
  BY <1>3, CallGoesTyped DEF Broker!Lookup, Broker!Throws
<1>4. CASE Broker!Mint(c)
  BY <1>4, CallGoesTyped DEF Broker!Mint, Broker!Throws
<1>. QED
  BY <1>1, <1>2, <1>3, <1>4

\* Failures, deployments, the operator and the App.
LEMMA BrokerOthersTyped ==
    ASSUME BrokerInv, BrokerTypes,
           \/ \E c \in Calls : Broker!Fails(c)
           \/ Broker!Deploy \/ Broker!CreateBroker \/ Broker!DeleteOldBrokers
           \/ Broker!Populate \/ Broker!PutSecret \/ Broker!ChangeKeys
           \/ Broker!ChangeInstallation
    PROVE  BrokerTypes'
<1>0. DOMAIN tokenCalls = Calls /\ \A c \in Calls : DOMAIN tokenCalls[c] = CallFields
  BY DEF BrokerInv, CallInv
<1>1. \A a \in Scopes : Broker!Normal(a) => Broker!Canonical(a) \in BrokerScopes
  BY DEF BrokerScopes
<1>2. \A c \in Calls : tokenCalls'[c].at # "idle" => tokenCalls'[c].broker \in BrokerScopes
  <2>1. CASE \E c \in Calls : Broker!Fails(c)
    <3>1. PICK c \in Calls : Broker!Fails(c)
      BY <2>1
    <3>2. /\ tokenCalls[c].at # "idle"
          /\ tokenCalls'[c] = [tokenCalls[c] EXCEPT !.at = "failed", !.disturbed = TRUE]
          /\ \A d \in Calls \ {c} : tokenCalls'[d] = tokenCalls[d]
      BY <1>0, <3>1 DEF Broker!Fails
    <3>3. tokenCalls'[c].broker = tokenCalls[c].broker
      BY <1>0, <3>2
    <3>. QED
      BY <3>2, <3>3 DEF BrokerTypes
  <2>2. CASE tokenCalls' = Broker!Disturbed
    <3>1. \A c \in Calls : tokenCalls'[c].at = tokenCalls[c].at /\ tokenCalls'[c].broker = tokenCalls[c].broker
      BY <1>0, <2>2 DEF Broker!Disturbed, CallFields
    <3>. QED
      BY <3>1 DEF BrokerTypes
  <2>. QED
    BY <2>1, <2>2 DEF Broker!Deploy, Broker!CreateBroker, Broker!DeleteOldBrokers, Broker!Populate,
         Broker!PutSecret, Broker!ChangeKeys, Broker!ChangeInstallation, Broker!Changes
<1>10. ASSUME left > 0, left' = left - 1, installation' = installation
      PROVE  /\ installation'.id \in Nat \ {0} /\ left' \in Nat
             /\ installation'.id + left' <= Disturbances + 1
  BY <1>10, BrokerAssumption DEF BrokerTypes
<1>3. CASE \E c \in Calls : Broker!Fails(c)
  BY <1>2, <1>10, <1>3 DEF Broker!Fails, Broker!world, BrokerTypes
<1>4. CASE Broker!Deploy
  BY <1>1, <1>2, <1>10, <1>4 DEF Broker!Deploy, Broker!Changes, BrokerTypes
<1>5. CASE Broker!CreateBroker \/ Broker!DeleteOldBrokers
  BY <1>2, <1>5 DEF Broker!CreateBroker, Broker!DeleteOldBrokers, BrokerTypes
<1>6. CASE Broker!Populate
  BY <1>1, <1>2, <1>10, <1>6 DEF Broker!Populate, Broker!Value, Broker!Changes, BrokerTypes
<1>7. CASE Broker!PutSecret
  BY <1>2, <1>7 DEF Broker!PutSecret, Broker!Empty, Broker!Value, BrokerTypes
<1>8. CASE Broker!ChangeKeys
  BY <1>2, <1>10, <1>8 DEF Broker!ChangeKeys, Broker!Changes, BrokerTypes
<1>9. CASE Broker!ChangeInstallation
  <2>1. DOMAIN installation = {"id", "owner", "repos", "grants"}
    BY DEF BrokerInv
  <2>2. installation'.id \in {installation.id, installation.id + 1}
    BY <1>9, <2>1 DEF Broker!ChangeInstallation
  <2>3. left > 0 /\ left' = left - 1
    BY <1>9 DEF Broker!ChangeInstallation, Broker!Changes
  <2>4. UNCHANGED <<tag, functions, update, tokenSecret, population, keys>>
    BY <1>9 DEF Broker!ChangeInstallation
  <2>5. /\ installation'.id \in Nat \ {0} /\ left' \in Nat
        /\ installation'.id + left' <= Disturbances + 1
    BY <2>2, <2>3, BrokerAssumption DEF BrokerTypes
  <2>. QED
    BY <1>2, <2>4, <2>5 DEF BrokerTypes
<1>. QED
  BY <1>3, <1>4, <1>5, <1>6, <1>7, <1>8, <1>9

\* They hold at the start.
LEMMA BrokerTypesStart == Broker!Init => BrokerTypes
<1> SUFFICES ASSUME Broker!Init PROVE BrokerTypes
  OBVIOUS
<1>1. tag \in BrokerScopes /\ functions = {tag}
  BY DEF Broker!Init, BrokerScopes
<1>2. update = Broker!Nothing /\ tokenSecret.scope = Broker!Nothing /\ population.scope = Broker!Nothing
  BY DEF Broker!Init, Broker!Empty, Broker!Value
<1>3. \A c \in Calls : tokenCalls[c].at = "idle"
  BY DEF Broker!Init, Broker!Idle
<1>4. installation.id = 1 /\ left = Disturbances /\ keys \subseteq AppKeys
  BY DEF Broker!Init
<1>. QED
  BY <1>1, <1>2, <1>3, <1>4, BrokerAssumption DEF BrokerTypes

\* And after every step.
LEMMA BrokerTypesStep ==
    ASSUME BrokerInv, BrokerTypes, [Broker!Next]_brokerVars
    PROVE  BrokerTypes'
<1>1. CASE UNCHANGED brokerVars
  BY <1>1 DEF brokerVars, BrokerTypes
<1>2. CASE Broker!Next
  BY <1>2, BrokerOthersTyped, CallsTyped DEF Broker!Next
<1>. QED
  BY <1>1, <1>2

\* So the state of the broker is of its type.
LEMMA BrokerTyped == BrokerTypes => Broker!TypeOK
<1> SUFFICES ASSUME BrokerTypes PROVE Broker!TypeOK
  OBVIOUS
<1>1. installation.id \in 1..(Disturbances + 1) /\ left \in 0..Disturbances
  BY BrokerAssumption DEF BrokerTypes
<1>. QED
  BY <1>1 DEF BrokerTypes, BrokerScopes, Broker!TypeOK

\* The rest of the validator's types: files are of formats there are, and the exit code.
LiveTypes == artifacts \subseteq Formats /\ code \in {Live!Running, 0, 1, 2}

\* No step writes anything else.
LEMMA LiveTypesStep == LiveTypes /\ [Live!Next]_liveVars => LiveTypes'
<1> SUFFICES ASSUME LiveTypes, [Live!Next]_liveVars PROVE LiveTypes'
  OBVIOUS
<1>1. CASE UNCHANGED liveVars
  BY <1>1 DEF liveVars, LiveTypes
<1>2. CASE Live!Next
  <2>1. artifacts' = artifacts \/ \E f \in Formats : artifacts' = artifacts \union {f}
    BY <1>2 DEF Live!Next, Live!Parse, Live!Works, Live!Take, Live!Finish, Live!AnswerInTime,
       Live!FailsOrTimesOut, Live!Contributes, Live!Summarize, Live!Render, Live!Write,
       Live!WriteFails, Live!Written
  <2>2. code' = code \/ code' \in {0, 1, 2}
    BY <1>2 DEF Live!Next, Live!Parse, Live!Works, Live!Take, Live!Finish, Live!AnswerInTime,
       Live!FailsOrTimesOut, Live!Contributes, Live!Summarize, Live!Render, Live!Write,
       Live!WriteFails, Live!Written, Live!Exit, Live!ExitCode
  <2>. QED
    BY <2>1, <2>2 DEF LiveTypes
<1>. QED
  BY <1>1, <1>2

\* So the state of the validator is of its type.
LEMMA LiveTyped == Complete /\ LiveTypes => Live!TypeOK
BY DEF Complete, LiveFields, LiveTypes, WorkerStates, Live!TypeOK

\* The types of the adapters.
Signals == [ok : BOOLEAN, detected : BOOLEAN, given : BOOLEAN, delay : Nat]

AdapterTypes ==
    /\ world \in Looks /\ seen \subseteq Looks /\ signal \in Signals
    /\ lookups \in 0..10 /\ moves \in 0..MaxMoves

\* They hold when the adapter is asked.
LEMMA AdapterTypesStart == Adapter!Init => AdapterTypes
<1> SUFFICES ASSUME Adapter!Init PROVE AdapterTypes
  OBVIOUS
<1>1. signal \in Signals
  BY DEF Adapter!Init, Adapter!NoSignal, Signals
<1>2. lookups \in {0, 1}
  BY DEF Adapter!Init
<1>. QED
  BY <1>1, <1>2, AdapterAssumption DEF Adapter!Init, AdapterTypes

\* What an answer is made of.
LEMMA SignalsAre ==
    ASSUME NEW ok \in BOOLEAN, NEW detected \in BOOLEAN
    PROVE  /\ Adapter!Signal(ok, detected) \in Signals
           /\ \A d \in Nat : [Adapter!Signal(ok, detected) EXCEPT !.delay = d] \in Signals
BY DEF Adapter!Signal, Signals

\* And after every step: a lookup is one of those that normalizeRetry allows.
LEMMA AdapterTypesStep ==
    ASSUME AdapterInv, AdapterTypes, [Adapter!Next]_adapterVars
    PROVE  AdapterTypes'
<1>1. CASE UNCHANGED adapterVars
  BY <1>1 DEF adapterVars, AdapterTypes
<1>2. CASE Adapter!Move
  <2>1. PICK w \in Looks : world' = w /\ seen' = seen \union {w}
    BY <1>2 DEF Adapter!Move
  <2>2. moves > 0 /\ moves' = moves - 1
    BY <1>2 DEF Adapter!Move
  <2>3. moves' \in 0..MaxMoves
    BY <2>2, AdapterAssumption DEF AdapterTypes
  <2>. QED
    BY <1>2, <2>1, <2>3 DEF Adapter!Move, AdapterTypes
<1>3. CASE Adapter!WaitEnds
  <2>1. lookups' = lookups + 1 /\ lookups \in Nat /\ lookups < Adapter!Attempts
    BY <1>3 DEF Adapter!WaitEnds, AdapterInv, Budgeted
  <2>2. Adapter!Attempts \in 1..10
    BY <1>3 DEF Adapter!WaitEnds, AdapterInv, Budgeted, Adapter!Refused
  <2>3. lookups' \in 0..10
    BY <2>1, <2>2
  <2>. QED
    BY <1>3, <2>3 DEF Adapter!WaitEnds, AdapterTypes
<1>4. ASSUME UNCHANGED <<world, lookups, seen, moves>>, signal' = signal \/ signal' \in Signals
      PROVE  AdapterTypes'
  BY <1>4 DEF AdapterTypes
<1>5. ASSUME NEW s \in Signals, Adapter!Gives(s)
      PROVE  AdapterTypes'
  BY <1>4, <1>5 DEF Adapter!Gives
<1>6. call.at = "lookup" => call.delay \in Nat
  BY DEF AdapterInv, Budgeted
<1>7. CASE Adapter!LookupAnswers \/ Adapter!LookupFails
  BY <1>4, <1>5, <1>6, <1>7, SignalsAre DEF Adapter!LookupAnswers, Adapter!LookupFails
<1>8. CASE Adapter!Refuse \/ Adapter!GitAvailable \/ Adapter!GitLog
  <2>1. (world.commits > 0) \in BOOLEAN
    OBVIOUS
  <2>2. CASE Adapter!Refuse \/ Adapter!GitLog
    BY <1>5, <2>1, <2>2, SignalsAre DEF Adapter!Refuse, Adapter!GitLog
  <2>3. CASE Adapter!GitAvailable
    BY <1>4, <1>5, <2>3, SignalsAre DEF Adapter!GitAvailable, Adapter!Reads
  <2>. QED
    BY <1>8, <2>2, <2>3
<1>9. CASE Adapter!ReadPinned \/ Adapter!ReadSnapshot
  BY <1>4, <1>9 DEF Adapter!ReadPinned, Adapter!ReadSnapshot, Adapter!Reads
<1>10. CASE Adapter!ReadLatest \/ Adapter!CompareSnapshots \/ Adapter!ReadFails
  <2>1. Adapter!Behind(call.pinned, world.latest) \in BOOLEAN
    BY DEF Adapter!Behind
  <2>. QED
    BY <1>5, <1>10, <2>1, SignalsAre DEF Adapter!ReadLatest, Adapter!CompareSnapshots, Adapter!ReadFails
<1>11. CASE Adapter!Preview
  <2>1. (world.diff \/ world.updates > 0 \/ world.replaces > 0) \in BOOLEAN
    OBVIOUS
  <2>. QED
    BY <1>5, <1>11, <2>1, SignalsAre DEF Adapter!Preview
<1>. QED
  BY <1>1, <1>2, <1>3, <1>7, <1>8, <1>9, <1>10, <1>11 DEF Adapter!Next

\* So the state of an adapter is of its type.
LEMMA AdapterTyped == AdapterTypes => Adapter!TypeOK
BY DEF AdapterTypes, Signals, Adapter!TypeOK

\* The types of remediation and merge.
RemediationTypes ==
    /\ files \in [Remediation!Targets -> Remediation!Contents]
    /\ staged \in [Remediation!Targets -> Remediation!Contents \union {Remediation!NoFile}]
    /\ head.files \in [Remediation!Targets -> Remediation!Contents]
    /\ remediation # Remediation!Idle => remediation.attempt \in 0..MaxIterations
    /\ merger.at \in {"idle", "gate", "audit", "result"}
    /\ remediationLeft \in 0..Mishaps

\* They hold at the start.
LEMMA RemediationTypesStart == Remediation!Init => RemediationTypes
<1> SUFFICES ASSUME Remediation!Init PROVE RemediationTypes
  OBVIOUS
<1>1. files \in [Remediation!Targets -> Remediation!Contents]
  BY DEF Remediation!Init
<1>2. staged = [f \in Remediation!Targets |-> Remediation!NoFile] /\ head.files = files
  BY DEF Remediation!Init
<1>3. remediation = Remediation!Idle /\ merger.at = "idle" /\ remediationLeft = Mishaps
  BY DEF Remediation!Init, Remediation!Idle
<1>. QED
  BY <1>1, <1>2, <1>3, RemediationAssumption DEF RemediationTypes

\* Only the review tries again, and only so often.
LEMMA AttemptsTyped ==
    ASSUME Diligence, RemediationTypes, Remediation!Next
    PROVE  remediation' # Remediation!Idle => remediation'.attempt \in 0..MaxIterations
<1>1. ASSUME remediation # Remediation!Idle
      PROVE  DOMAIN remediation = RemediationFields /\ remediation.attempt \in 0..MaxIterations
  BY <1>1 DEF Diligence, Remediates, RemediationTypes
<1>2. remediation.at # "idle" => remediation # Remediation!Idle
  BY DEF Remediation!Idle
<1>3. CASE \E r \in remediations : Remediation!Start(r)
  <2>1. remediation'.attempt = 0
    BY <1>3 DEF Remediation!Start
  <2>. QED
    BY <2>1, RemediationAssumption
<1>4. CASE Remediation!Bind \/ Remediation!Select \/ Remediation!Validate \/ Remediation!Unchanged
  BY <1>1, <1>2, <1>4 DEF Remediation!Bind, Remediation!Select, Remediation!Validate,
     Remediation!Unchanged, Remediation!Goes, Remediation!Throws, RemediationFields
<1>5. CASE \E a \in Remediation!Answers : Remediation!Review(a)
  <2>1. PICK a \in Remediation!Answers : Remediation!Review(a)
    BY <1>5
  <2>2. DOMAIN remediation = RemediationFields /\ remediation.attempt \in 0..MaxIterations
    BY <1>1, <1>2, <2>1 DEF Remediation!Review
  <2>3. \/ remediation'.attempt = remediation.attempt
        \/ Remediation!MayTryAgain /\ remediation'.attempt = remediation.attempt + 1
    BY <2>1, <2>2 DEF Remediation!Review, Remediation!Escalated, RemediationFields
  <2>. QED
    BY <2>2, <2>3, RemediationAssumption DEF Remediation!MayTryAgain
<1>6. CASE Remediation!Read \/ Remediation!Reread
  BY <1>1, <1>2, <1>6 DEF Remediation!Read, Remediation!Reread, Remediation!Goes, Remediation!Throws,
     RemediationFields
<1>7. CASE Remediation!Revise \/ Remediation!Verify
  BY <1>1, <1>2, <1>7 DEF Remediation!Revise, Remediation!Verify, Remediation!Goes, Remediation!Throws,
     Remediation!Onwards, RemediationFields
<1>8. CASE Remediation!Stage \/ Remediation!Check \/ Remediation!Rename \/ Remediation!Output
  BY <1>1, <1>2, <1>8 DEF Remediation!Stage, Remediation!Check, Remediation!Rename, Remediation!Output,
     Remediation!Goes, Remediation!Throws, RemediationFields
<1>9. CASE \/ Remediation!MergeStarts \/ Remediation!Gate \/ Remediation!Audit \/ Remediation!Release
           \/ Remediation!Render
  BY <1>1, <1>9 DEF Remediation!MergeStarts, Remediation!Gate, Remediation!Audit, Remediation!Release,
     Remediation!Render
<1>10. CASE \/ \E f \in Remediation!Targets : \E c \in Remediation!Edits(f) : Remediation!Edit(f, c)
            \/ Remediation!Commit \/ Remediation!TriageAgain \/ Remediation!RulesetDrifts
            \/ Remediation!KillRun \/ Remediation!KillMerge
  BY <1>1, <1>10 DEF Remediation!Edit, Remediation!Commit, Remediation!TriageAgain,
     Remediation!RulesetDrifts, Remediation!KillRun, Remediation!KillMerge, Remediation!Throws
<1>. QED
  BY <1>3, <1>4, <1>5, <1>6, <1>7, <1>8, <1>9, <1>10 DEF Remediation!Next, Remediation!Steps

\* Files have what was written: what replaces them, an edit or a link.
LEMMA FilesTyped ==
    ASSUME Diligence, RemediationTypes, Remediation!Next
    PROVE  /\ files' \in [Remediation!Targets -> Remediation!Contents]
           /\ staged' \in [Remediation!Targets -> Remediation!Contents \union {Remediation!NoFile}]
           /\ head'.files \in [Remediation!Targets -> Remediation!Contents]
<1>1. ASSUME remediation.at \in Replacing \ {"revise"}
      PROVE  /\ Remediation!File \in Remediation!Targets
             /\ Remediation!Replacement(Remediation!File, Remediation!Old) \in Remediation!Contents
             /\ remediation.at = "rename" =>
                   staged[Remediation!File] = Remediation!Replacement(Remediation!File, Remediation!Old)
  <2>1. Remediates(remediation)
    BY <1>1 DEF Diligence, Remediation!Idle, Replacing
  <2>2. remediation.next \in DOMAIN Files /\ Remediation!Old \in Remediation!Parsed
    BY <1>1, <2>1, FilesAre DEF Remediates, Remediation!Old
  <2>3. Remediation!File \in Remediation!Targets
    BY <2>2 DEF Remediation!File, Remediation!Targets
  <2>4. Remediation!Replacement(Remediation!File, Remediation!Old) \in Remediation!Contents
    BY <2>2, ReplacementParses
  <2>. QED
    BY <1>1, <2>1, <2>3, <2>4 DEF Remediates, Fixing, Reading, Remediation!File, Remediation!Old
<1>2. ASSUME UNCHANGED <<files, staged, head>>
      PROVE  /\ files' \in [Remediation!Targets -> Remediation!Contents]
             /\ staged' \in [Remediation!Targets -> Remediation!Contents \union {Remediation!NoFile}]
             /\ head'.files \in [Remediation!Targets -> Remediation!Contents]
  BY <1>2 DEF RemediationTypes
<1>3. CASE Remediation!Stage
  <2>1. Remediation!Replacement(Remediation!File, Remediation!Old) \in Remediation!Contents
    BY <1>1, <1>3 DEF Remediation!Stage, Replacing
  <2>. QED
    BY <1>1, <1>3, <2>1 DEF Remediation!Stage, RemediationTypes
<1>4. CASE Remediation!Check
  BY <1>4 DEF Remediation!Check, RemediationTypes
<1>5. CASE Remediation!Rename
  <2>1. staged[Remediation!File] \in Remediation!Contents
    BY <1>1, <1>5 DEF Remediation!Rename, Replacing
  <2>. QED
    BY <1>5, <2>1 DEF Remediation!Rename, RemediationTypes
<1>6. CASE \E f \in Remediation!Targets : \E c \in Remediation!Edits(f) : Remediation!Edit(f, c)
  <2>. QED
    BY <1>6, EditsParse DEF Remediation!Edit, RemediationTypes
<1>7. CASE Remediation!Commit
  BY <1>7 DEF Remediation!Commit, RemediationTypes
<1>8. CASE \/ \E r \in remediations : Remediation!Start(r)
           \/ Remediation!Bind \/ Remediation!Select \/ Remediation!Validate \/ Remediation!Unchanged
           \/ \E a \in Remediation!Answers : Remediation!Review(a)
           \/ Remediation!Read \/ Remediation!Reread \/ Remediation!Revise \/ Remediation!Verify
           \/ Remediation!Output
           \/ Remediation!MergeStarts \/ Remediation!Gate \/ Remediation!Audit \/ Remediation!Release
           \/ Remediation!Render
           \/ Remediation!TriageAgain \/ Remediation!RulesetDrifts
           \/ Remediation!KillRun \/ Remediation!KillMerge
  BY <1>2, <1>8 DEF Remediation!Start, Remediation!Bind, Remediation!Select, Remediation!Validate,
     Remediation!Unchanged, Remediation!Review, Remediation!Read, Remediation!Reread,
     Remediation!Revise, Remediation!Verify, Remediation!Output, Remediation!MergeStarts,
     Remediation!Gate, Remediation!Audit, Remediation!Release, Remediation!Render,
     Remediation!TriageAgain, Remediation!RulesetDrifts, Remediation!KillRun, Remediation!KillMerge,
     Remediation!repo
<1>. QED
  BY <1>3, <1>4, <1>5, <1>6, <1>7, <1>8 DEF Remediation!Next, Remediation!Steps

\* The merger goes from the gate to the audit and the result.
LEMMA MergerTyped ==
    ASSUME Diligence, RemediationTypes, Remediation!Next
    PROVE  merger'.at \in {"idle", "gate", "audit", "result"}
<1>1. merger # Remediation!Idle => DOMAIN merger = {"at", "plan"}
  BY DEF Diligence, Merges
<1>2. merger.at # "idle" => merger # Remediation!Idle
  BY DEF Remediation!Idle
<1>3. Remediation!Idle.at = "idle"
  BY DEF Remediation!Idle
<1>4. CASE UNCHANGED merger
  BY <1>4 DEF RemediationTypes
<1>5. CASE merger' = Remediation!Idle
  BY <1>3, <1>5
<1>6. CASE Remediation!MergeStarts
  BY <1>6 DEF Remediation!MergeStarts
<1>7. CASE Remediation!Gate
  BY <1>1, <1>2, <1>5, <1>7 DEF Remediation!Gate, Remediation!Moves, Remediation!Blocked
<1>8. CASE Remediation!Audit
  BY <1>1, <1>2, <1>5, <1>8 DEF Remediation!Audit, Remediation!Moves, Remediation!Blocked
<1>9. CASE Remediation!Release \/ Remediation!KillMerge
  BY <1>5, <1>9 DEF Remediation!Release, Remediation!KillMerge, Remediation!Blocked
<1>10. CASE \/ \E r \in remediations : Remediation!Start(r)
            \/ Remediation!Steps \/ Remediation!Render
            \/ \E f \in Remediation!Targets : \E c \in Remediation!Edits(f) : Remediation!Edit(f, c)
            \/ Remediation!Commit \/ Remediation!TriageAgain \/ Remediation!RulesetDrifts
            \/ Remediation!KillRun
  BY <1>4, <1>10 DEF Remediation!Steps, Remediation!Start, Remediation!Bind, Remediation!Select,
     Remediation!Validate, Remediation!Unchanged, Remediation!Review, Remediation!Read,
     Remediation!Reread, Remediation!Revise, Remediation!Stage, Remediation!Check,
     Remediation!Rename, Remediation!Verify, Remediation!Output, Remediation!Render,
     Remediation!Edit, Remediation!Commit, Remediation!TriageAgain, Remediation!RulesetDrifts,
     Remediation!KillRun, Remediation!merging
<1>. QED
  BY <1>6, <1>7, <1>8, <1>9, <1>10 DEF Remediation!Next

\* What befalls the commands takes of what may.
LEMMA MishapsTyped ==
    ASSUME RemediationTypes, Remediation!Next
    PROVE  remediationLeft' \in 0..Mishaps
<1>1. remediationLeft' = remediationLeft \/ Remediation!Happens
  BY DEF Remediation!Next, Remediation!Steps, Remediation!Start, Remediation!Bind, Remediation!Select,
     Remediation!Validate, Remediation!Unchanged, Remediation!Review, Remediation!Read,
     Remediation!Reread, Remediation!Revise, Remediation!Stage, Remediation!Check,
     Remediation!Rename, Remediation!Verify, Remediation!Output, Remediation!MergeStarts,
     Remediation!Gate, Remediation!Audit, Remediation!Release, Remediation!Render,
     Remediation!Edit, Remediation!Commit, Remediation!TriageAgain, Remediation!RulesetDrifts,
     Remediation!KillRun, Remediation!KillMerge, Remediation!bounds, Remediation!Calm
<1>. QED
  BY <1>1, RemediationAssumption DEF RemediationTypes, Remediation!Happens

\* So the types are kept.
LEMMA RemediationTypesStep ==
    ASSUME Diligence, RemediationTypes, [Remediation!Next]_remediationVars
    PROVE  RemediationTypes'
<1>1. CASE UNCHANGED remediationVars
  BY <1>1 DEF remediationVars, RemediationTypes
<1>2. CASE Remediation!Next
  BY <1>2, AttemptsTyped, FilesTyped, MergerTyped, MishapsTyped DEF RemediationTypes
<1>. QED
  BY <1>1, <1>2

\* And the state of the two is of its type.
LEMMA RemediationTyped == Diligence /\ RemediationTypes => Remediation!TypeOK
BY DEF Diligence, Remediates, Early, Applying, RemediationTypes, Remediation!Idle, Remediation!TypeOK
=============================================================================
