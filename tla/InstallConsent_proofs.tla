------------------------ MODULE InstallConsent_proofs ------------------------
(* What is installed and approved is what the user saw, for any registry,  *)
(* any clients and any length of run.                                      *)
EXTENDS InstallConsent, SequenceTheorems, WellFoundedInduction, TLAPS

-----------------------------------------------------------------------------
(* The least element of a set of naturals. *)

Below == {ss \in Nat \X Nat : ss[1] < ss[2]}

LEMMA BelowIsWellFounded == IsWellFoundedOn(Below, Nat)
BY NatLessThanWellFounded DEF OpToRel, Below

LEMMA MinIsMember ==
  ASSUME NEW S \in SUBSET Nat, S # {}
  PROVE  Min(S) \in S
<1>1. PICK x \in S : \A y \in S : ~(<<y, x>> \in Below)
  BY WFMin, BelowIsWellFounded, Zenon
<1>2. ASSUME NEW y \in S PROVE x <= y
  <2>1. y \in Nat /\ x \in Nat /\ ~(<<y, x>> \in Below)
    BY <1>1
  <2> QED BY <2>1 DEF Below
<1> QED BY <1>2 DEF Min

-----------------------------------------------------------------------------
(* Plans. *)

\* A process whose package or image is the same at every start.
Fixed(input) == ~Moving(input.token)

\* An image named by a tag.
Tagged(input) == input.token # Unset /\ input.token[1] = "image" /\ input.token[3] = "tag"

\* What a pinned plan names for good, unless it warns that it does not.
FixedOrTagged(plan) ==
  /\ plan.pinned => Fixed(plan.input) \/ Tagged(plan.input)
  /\ Tagged(plan.input) => "tags are mutable" \in plan.warnings

\* A candidate whose exact versions have a number.
Installable(c) ==
  /\ c = [name |-> c.name, source |-> c.source, status |-> c.status,
          packages |-> c.packages, remotes |-> c.remotes]
  /\ DOMAIN c.packages \in SUBSET Nat
  /\ c.packages # <<>> => 1 \in DOMAIN c.packages
  /\ \A i \in DOMAIN c.packages :
       /\ "version" \in DOMAIN c.packages[i]
       /\ Exact(c.packages[i].version) => c.packages[i].version.no # 0

LEMMA FixedLoads ==
  ASSUME NEW input, Fixed(input), NEW r
  PROVE  Loaded(input, r) = input.token
BY DEF Fixed, Loaded

\* The lookups of releases leave a candidate installable.
LEMMA PinLatestInstallable ==
  ASSUME NEW c, Installable(c), NEW r \in Nat \ {0}, NEW found
  PROVE  /\ Installable(PinLatest(c, r, found))
         /\ PinLatest(c, r, found).status = c.status
<1> DEFINE list == [i \in DOMAIN c.packages |->
                      IF LooksUp(c.packages[i]) /\ found
                      THEN [c.packages[i] EXCEPT !.version = [no |-> r, exact |-> TRUE]]
                      ELSE c.packages[i]]
           d == [name |-> c.name, source |-> c.source, status |-> c.status,
                 packages |-> list, remotes |-> c.remotes]
<1>1. PinLatest(c, r, found) = d
  <2>1. PinLatest(c, r, found) = [c EXCEPT !.packages = list]
    BY DEF PinLatest
  <2>2. c = [name |-> c.name, source |-> c.source, status |-> c.status,
             packages |-> c.packages, remotes |-> c.remotes]
    BY DEF Installable
  <2> HIDE DEF list
  <2> QED BY <2>1, <2>2
<1>2. DOMAIN list = DOMAIN c.packages
  OBVIOUS
<1>3. list # <<>> => c.packages # <<>>
  OBVIOUS
<1>4. ASSUME NEW i \in DOMAIN list
      PROVE  /\ "version" \in DOMAIN list[i]
             /\ Exact(list[i].version) => list[i].version.no # 0
  BY DEF Installable, Exact
<1> HIDE DEF list
<1>5. Installable(d)
  BY <1>2, <1>3, <1>4 DEF Installable
<1> QED BY <1>1, <1>5

\* A package of a plan is one of the candidate's.
LEMMA ChosenIsListed ==
  ASSUME NEW c, Installable(c), NEW transport, ChosenPackage(c, transport) # Unset
  PROVE  \E i \in DOMAIN c.packages : ChosenPackage(c, transport) = c.packages[i]
<1> DEFINE stdio == {i \in DOMAIN c.packages : c.packages[i].stdio}
<1>1. c.packages # <<>> /\ ChosenPackage(c, transport) = c.packages[FirstOr1(stdio)]
  BY DEF ChosenPackage
<1>2. stdio # {} => Min(stdio) \in stdio
  BY MinIsMember DEF Installable
<1>3. FirstOr1(stdio) \in DOMAIN c.packages
  BY <1>1, <1>2 DEF FirstOr1, Installable
<1> QED BY <1>1, <1>3

\* A package is called pinned when its token names one release or image.
LEMMA PackageFixed ==
  ASSUME NEW pkg, Exact(pkg.version) => pkg.version.no # 0, NEW stored,
         BuildPackage(pkg, stored).pinned
  PROVE  Fixed(BuildPackage(pkg, stored)) \/ Tagged(BuildPackage(pkg, stored))
<1> DEFINE pinned == IF pkg.type = "oci" THEN OciPinned(pkg) ELSE Exact(pkg.version)
<1>1. \/ OciPinned(pkg) /\ BuildPackage(pkg, stored).token = OciToken(pkg)
      \/ /\ pkg.type # "oci" /\ BuildPackage(pkg, stored).pinned = pinned
         /\ BuildPackage(pkg, stored).token = PackageToken(pkg, pinned)
  BY DEF BuildPackage, Built
<1>2. OciToken(pkg)[1] = "image" /\ (OciPinned(pkg) => OciToken(pkg)[3] \in {"digest", "tag"})
  BY DEF OciToken, OciPinned
<1>3. pinned /\ pkg.type # "oci" => PackageToken(pkg, pinned)[3] # 0
  BY DEF PackageToken, Exact
<1>4. pinned /\ pkg.type # "oci" => PackageToken(pkg, pinned)[1] = "package"
  BY DEF PackageToken
<1> HIDE DEF pinned
<1> QED BY <1>1, <1>2, <1>3, <1>4 DEF Fixed, Tagged, Moving

\* An image named by a tag comes with the warning that tags are mutable.
LEMMA TagsWarned ==
  ASSUME NEW pkg, NEW stored, Tagged(BuildPackage(pkg, stored))
  PROVE  "tags are mutable" \in BuildPackage(pkg, stored).warnings
<1>1. BuildPackage(pkg, stored).token # Unset
      /\ BuildPackage(pkg, stored).token[1] = "image" /\ BuildPackage(pkg, stored).token[3] = "tag"
  BY DEF Tagged
<1>2. PackageToken(pkg, Exact(pkg.version))[1] = "package"
  BY DEF PackageToken
<1>3. pkg.type = "oci" /\ BuildPackage(pkg, stored).token = OciToken(pkg)
  BY <1>1, <1>2 DEF BuildPackage, Built
<1>4. OciPinned(pkg) /\ pkg.image # "digest"
  BY <1>1, <1>3 DEF OciToken, OciPinned
<1> QED BY <1>1, <1>3, <1>4 DEF BuildPackage, Built

\* A plan called pinned is fixed or says that it is not, and one for an entry taken down is blocked.
LEMMA PlanFixed ==
  ASSUME NEW c, Installable(c), NEW transport, NEW stored,
         NEW plan, plan = BuildInstallPlan(c, transport, stored)
  PROVE  /\ FixedOrTagged(plan)
         /\ c.status = "deleted" => plan.blocked # Unset
<1> DEFINE pkg == ChosenPackage(c, transport)
<1>1. c.status = "deleted" => plan.blocked # Unset
  BY UnsetIsNoReason DEF BuildInstallPlan, Blocked
<1>2. CASE pkg # Unset
  <2>1. /\ plan.pinned = BuildPackage(pkg, stored).pinned
        /\ plan.input.token = BuildPackage(pkg, stored).token
        /\ BuildPackage(pkg, stored).warnings \subseteq plan.warnings
    BY <1>2 DEF BuildInstallPlan
  <2>2. Exact(pkg.version) => pkg.version.no # 0
    BY <1>2, ChosenIsListed DEF Installable
  <2>3. plan.pinned => Fixed(plan.input) \/ Tagged(plan.input)
    BY <2>1, <2>2, PackageFixed DEF Fixed, Tagged
  <2>4. Tagged(plan.input) => "tags are mutable" \in plan.warnings
    BY <2>1, TagsWarned DEF Tagged
  <2> QED BY <1>1, <2>3, <2>4 DEF FixedOrTagged
<1>3. CASE pkg = Unset
  <2>1. ~plan.pinned /\ plan.input.token = Unset
    BY <1>3 DEF BuildInstallPlan, BuildRemote, Built
  <2> QED BY <1>1, <2>1 DEF FixedOrTagged, Tagged
<1> QED BY <1>2, <1>3

\* The check of a package adds no more than warnings.
LEMMA PlansFixed ==
  ASSUME NEW c, Installable(c), release \in Nat \ {0}, NEW plan \in Plans(c)
  PROVE  /\ FixedOrTagged(plan)
         /\ c.status = "deleted" => plan.blocked # Unset
<1>1. PICK found, check : plan = Checked(Plan(c, found), check)
  BY DEF Plans
<1>2. Plan(c, found) = BuildInstallPlan(PinLatest(c, release, found), Unset, {})
  BY DEF Plan
<1>3. /\ Installable(PinLatest(c, release, found))
      /\ PinLatest(c, release, found).status = c.status
  BY PinLatestInstallable
<1>4. /\ FixedOrTagged(Plan(c, found))
      /\ c.status = "deleted" => Plan(c, found).blocked # Unset
  BY <1>2, <1>3, PlanFixed
<1>5. /\ plan.pinned = Plan(c, found).pinned /\ plan.input = Plan(c, found).input
      /\ plan.blocked = Plan(c, found).blocked
      /\ Plan(c, found).warnings \subseteq plan.warnings
  BY <1>1, <1>2 DEF Checked, BuildInstallPlan
<1> QED BY <1>4, <1>5 DEF FixedOrTagged

-----------------------------------------------------------------------------
(* The inductive invariant. *)

\* What a question shows is what its digest stands for.
ShowsInput(view, input) ==
  /\ <<view.transport, view.command, view.token, view.args, view.url>> =
       <<input.transport, input.command, input.token, input.args, input.url>>
  /\ \A k \in DOMAIN input.env \cap Loader :
       input.env[k] # Blank => k \in DOMAIN view.loader_env /\ view.loader_env[k] = input.env[k]

Truthful(q) ==
  /\ q = [kind |-> q.kind, digest |-> q.digest, view |-> q.view, loads |-> q.loads,
          answer |-> q.answer]
  /\ q.kind = "install" => /\ ShowsInput(q.view, q.digest)
                           /\ Fixed(q.digest) => q.loads = q.digest.token
                           /\ Tagged(q.digest) => "tags are mutable" \in q.view.warnings
  /\ q.kind = "approve" => q.view = q.digest

\* Versions are those of the known shapes; the mirror has copies of them.
WorldInv ==
  /\ registry = [n \in Entry |-> registry[n]]
  /\ \A n \in Entry : registry[n] \in Seq(Versions) /\ registry[n] # <<>>
  /\ release \in Nat \ {0}
  /\ mirror = [n \in Entry |-> mirror[n]]
  /\ \A n \in Entry : mirror[n] = None \/ Installable(mirror[n].candidate)

AskedInv ==
  /\ asked = [c \in Client |-> asked[c]]
  /\ \A c \in Client : asked[c] = None \/ Truthful(asked[c])

\* A request carries a reply to a true question, remembers no more takedowns than
\* there were, and of a version it knows to be taken down has a deleted candidate.
CallInv ==
  /\ call = [c \in Client |-> call[c]]
  /\ \A c \in Client :
       /\ call[c].pc \in {"resolve", "latest"} =>
            call[c].reply = None \/ Truthful(call[c].reply)
       /\ call[c].pc = "resolve" => call[c].gone \subseteq Gone
       /\ call[c].pc = "resolve" => call[c].req \in Requests
       /\ call[c].pc = "latest" =>
            /\ Installable(call[c].candidate)
            /\ call[c].gone = "told" => call[c].candidate.status = "deleted"

\* What a client installed was accepted by its user, for this very input.
RowInv ==
  row # None =>
    /\ row.gone # "told"
    /\ row.pinned => Fixed(row.input) \/ Tagged(row.input)
    /\ row.by = "client" /\ ~AllowUnconfirmedInstall =>
         /\ row.reply # None /\ Truthful(row.reply)
         /\ Accepted(row.reply, "install", row.input)

ShownInv == shown # None => shown.req \in Requests

ConsentInv == WorldInv /\ AskedInv /\ CallInv /\ RowInv /\ ShownInv

-----------------------------------------------------------------------------
(* The parts of a step. *)

LEMMA GoneMember ==
  ASSUME NEW n, NEW i
  PROVE  <<n, i>> \in Gone <=> /\ n \in Entry /\ i \in DOMAIN registry[n]
                               /\ registry[n][i].status = "deleted"
BY DEF Gone

LEMMA ShapesInstallable ==
  ASSUME NEW n, NEW version \in Versions
  PROVE  Installable(Candidate(n, version)) /\ Candidate(n, version).status = version.status
<1> DEFINE c == Candidate(n, version)
           list == version.server.packages
<1>1. version.server \in Shape
  BY DEF Versions
<1>2. list \in Seq(Range(list))
  BY <1>1, ShapeAssumption
<1>3. DOMAIN list \in SUBSET Nat /\ (list # <<>> => 1 \in DOMAIN list)
  BY <1>2
<1>4. c.packages = list
  BY DEF Candidate
<1>5. c = [name |-> c.name, source |-> c.source, status |-> c.status,
           packages |-> c.packages, remotes |-> c.remotes]
  BY DEF Candidate
<1>6. Candidate(n, version).status = version.status
  BY DEF Candidate
<1> HIDE DEF c, list
<1>7. Installable(c)
  BY <1>1, <1>3, <1>4, <1>5, ShapeAssumption DEF Installable, list
<1> QED BY <1>6, <1>7 DEF c

LEMMA PackageServerInstallable ==
  ASSUME NEW source, NEW id, release \in Nat \ {0}
  PROVE  Installable(PackageServer(source, id))
BY DEF PackageServer, Installable, Exact

\* A resolved candidate is installable, and is deleted when the answer says that
\* the version had been taken down.
LEMMA ResolvedInstallable ==
  ASSUME WorldInv, NEW req \in Requests, NEW found \in Resolved(req), NEW gone \in SUBSET Gone
  PROVE  /\ Installable(found.candidate)
         /\ TakenDown(found, gone) = "told" => found.candidate.status = "deleted"
<1>1. \A n \in Entry : DOMAIN registry[n] \subseteq Nat \ {0}
  BY DEF WorldInv
<1>2. \A n : <<n, 0>> \notin Gone
  BY <1>1, GoneMember
<1>3. CASE req.source # "registry"
  <2>1. found.candidate = PackageServer(req.source, req.name) /\ found.no = 0
    BY <1>3 DEF Resolved
  <2> QED BY <1>2, <2>1, PackageServerInstallable DEF WorldInv, TakenDown
<1>4. CASE req.source = "registry" /\ reachable
  <2>1. req.name \in Entry
    BY <1>4 DEF Requests
  <2>2. PICK v \in DOMAIN registry[req.name] :
          found = [candidate |-> Candidate(req.name, registry[req.name][v]), no |-> v,
                   copy |-> FALSE]
    BY <1>4 DEF Resolved
  <2>3. registry[req.name][v] \in Versions
    BY <2>1, <2>2 DEF WorldInv
  <2>4. /\ Installable(found.candidate)
        /\ found.candidate.status = registry[req.name][v].status
        /\ found.no = v /\ found.candidate.name = req.name
    BY <2>2, <2>3, ShapesInstallable DEF Candidate
  <2> QED BY <2>4, GoneMember DEF TakenDown
<1>5. CASE req.source = "registry" /\ ~reachable
  <2>1. req.name \in Entry
    BY <1>5 DEF Requests
  <2>2. /\ found.candidate = mirror[req.name].candidate /\ found.copy
        /\ mirror[req.name] # None
    BY <1>5 DEF Resolved
  <2> QED BY <2>1, <2>2 DEF WorldInv, TakenDown
<1> QED BY <1>3, <1>4, <1>5

LEMMA CopiedKeeps ==
  ASSUME WorldInv, NEW n \in Entry
  PROVE  /\ Copied(n) = [m \in Entry |-> Copied(n)[m]]
         /\ \A m \in Entry : Copied(n)[m] = None \/ Installable(Copied(n)[m].candidate)
<1>1. Installable(Latest(n))
  <2>1. registry[n][Len(registry[n])] \in Versions
    BY DEF WorldInv
  <2> QED BY <2>1, ShapesInstallable DEF Latest
<1>2. Copied(n) = [mirror EXCEPT ![n] = [candidate |-> Latest(n), no |-> Len(registry[n])]]
  BY DEF Copied
<1>3. mirror = [m \in Entry |-> mirror[m]]
      /\ \A m \in Entry : mirror[m] = None \/ Installable(mirror[m].candidate)
  BY DEF WorldInv
<1> QED BY <1>1, <1>2, <1>3

LEMMA RefreshedKeeps ==
  ASSUME WorldInv, NEW req \in Requests
  PROVE  /\ Refreshed(req) = [n \in Entry |-> Refreshed(req)[n]]
         /\ \A n \in Entry : Refreshed(req)[n] = None \/ Installable(Refreshed(req)[n].candidate)
<1>1. CASE Refreshed(req) = mirror
  BY <1>1 DEF WorldInv
<1>2. CASE Refreshed(req) # mirror
  <2>1. req.name \in Entry /\ Refreshed(req) = Copied(req.name)
    BY <1>2 DEF Refreshed, Requests
  <2> QED BY <2>1, CopiedKeeps
<1> QED BY <1>1, <1>2

LEMMA InstallQuestionTruthful ==
  ASSUME NEW plan, FixedOrTagged(plan), NEW r
  PROVE  Truthful(Question("install", plan.input, PlanView(plan, Loader), Loaded(plan.input, r)))
<1> DEFINE view == PlanView(plan, Loader)
           loads == Loaded(plan.input, r)
<1>1. ShowsInput(view, plan.input)
  BY DEF ShowsInput, PlanView
<1>2. Fixed(plan.input) => loads = plan.input.token
  BY FixedLoads
<1>3. Tagged(plan.input) => "tags are mutable" \in view.warnings
  BY DEF FixedOrTagged, PlanView
<1> HIDE DEF view, loads
<1>4. Truthful(Question("install", plan.input, view, loads))
  BY <1>1, <1>2, <1>3 DEF Truthful, Question
<1> QED BY <1>4 DEF view, loads

LEMMA ApproveQuestionTruthful ==
  ASSUME NEW n
  PROVE  Truthful(Question("approve", n, n, <<>>))
BY DEF Truthful, Question

LEMMA AskKeeps ==
  ASSUME AskedInv, NEW c \in Client, NEW reply, NEW question, Truthful(question),
         Ask(c, reply, question) \/ UNCHANGED asked
  PROVE  AskedInv'
BY DEF AskedInv, Ask

\* Changes of the world leave what was asked, planned and installed as it was.
LEMMA CallKept ==
  ASSUME CallInv, NEW c \in Client, call' = [call EXCEPT ![c] = Idle], UNCHANGED registry
  PROVE  CallInv'
<1>1. Gone' = Gone
  BY DEF Gone
<1>2. Idle.pc = "idle"
  BY DEF Idle
<1>3. \A d \in Client : call'[d] = call[d] \/ call'[d].pc = "idle"
  BY <1>2 DEF CallInv
<1>4. call' = [d \in Client |-> call'[d]]
  BY DEF CallInv
<1>5. ASSUME NEW d \in Client, call'[d] = call[d]
      PROVE  /\ call'[d].pc \in {"resolve", "latest"} =>
                  call'[d].reply = None \/ Truthful(call'[d].reply)
             /\ call'[d].pc = "resolve" => call'[d].gone \subseteq Gone'
             /\ call'[d].pc = "resolve" => call'[d].req \in Requests
             /\ call'[d].pc = "latest" =>
                  /\ Installable(call'[d].candidate)
                  /\ call'[d].gone = "told" => call'[d].candidate.status = "deleted"
  BY <1>1, <1>5 DEF CallInv
<1> QED BY <1>3, <1>4, <1>5 DEF CallInv

LEMMA DecideKeeps ==
  ASSUME ConsentInv, NEW c \in Client, NEW plan, NEW reply, NEW gone,
         FixedOrTagged(plan), gone = "told" => plan.blocked # Unset,
         reply = None \/ Truthful(reply),
         Decide(c, plan, reply, gone), UNCHANGED <<world, mirror, shown>>
  PROVE  ConsentInv'
<1>1. WorldInv' /\ ShownInv'
  BY DEF ConsentInv, WorldInv, ShownInv, world, Versions, Requests, Installable, Exact
<1>2. CallInv'
  BY CallKept DEF ConsentInv, Decide, world
<1>3. AskedInv'
  <2> DEFINE question == Question("install", plan.input, PlanView(plan, Loader),
                                  Loaded(plan.input, release))
  <2>1. Truthful(question)
    BY InstallQuestionTruthful
  <2>2. Ask(c, reply, question) \/ UNCHANGED asked
    BY DEF Decide
  <2> HIDE DEF question
  <2> QED BY <2>1, <2>2, AskKeeps DEF ConsentInv
<1>4. RowInv'
  <2>1. CASE UNCHANGED installed
    BY <2>1 DEF ConsentInv, RowInv, installed, Truthful, ShowsInput, Fixed, Tagged, Moving,
                  Accepted, Answered
  <2>2. CASE ~UNCHANGED installed
    <3>1. /\ plan.blocked = Unset
          /\ AllowUnconfirmedInstall \/ Accepted(reply, "install", plan.input)
          /\ row' = [input |-> plan.input, pinned |-> plan.pinned, by |-> "client",
                     reply |-> reply, gone |-> gone]
      BY <2>2 DEF Decide, Install
    <3>2. AllowUnconfirmedInstall \/ (reply # None /\ Truthful(reply))
      BY <3>1 DEF Accepted, Answered
    <3> QED BY <3>1, <3>2 DEF RowInv, FixedOrTagged, Truthful, ShowsInput, Fixed, Tagged,
                                 Moving, Accepted, Answered
  <2> QED BY <2>1, <2>2
<1> QED BY <1>1, <1>2, <1>3, <1>4 DEF ConsentInv

-----------------------------------------------------------------------------
(* Requests, questions and answers. *)

LEMMA StartKeeps ==
  ASSUME ConsentInv, NEW c \in Client, NEW req \in Requests, NEW reply \in {None, asked[c]},
         StartInstall(c, req, reply)
  PROVE  ConsentInv'
<1>1. /\ call' = [call EXCEPT ![c] = [pc |-> "resolve", req |-> req, reply |-> reply,
                                      gone |-> Gone]]
      /\ UNCHANGED <<world, mirror, installed, asked, shown>>
  BY DEF StartInstall
<1>2. reply = None \/ Truthful(reply)
  BY DEF ConsentInv, AskedInv
<1>3. Gone' = Gone
  BY <1>1 DEF Gone, world
<1>4. CallInv'
  BY <1>1, <1>2, <1>3 DEF ConsentInv, CallInv
<1>5. WorldInv' /\ AskedInv' /\ RowInv' /\ ShownInv'
  BY <1>1 DEF ConsentInv, WorldInv, AskedInv, RowInv, ShownInv, world, installed
<1> QED BY <1>4, <1>5 DEF ConsentInv

LEMMA ManualKeeps ==
  ASSUME ConsentInv, NEW c \in Client, NEW input \in Manual, NEW reply \in {None, asked[c]},
         InstallManual(c, input, reply)
  PROVE  ConsentInv'
<1>1. FixedOrTagged(ManualPlan(input))
  BY ManualAssumption DEF ManualPlan, FixedOrTagged, Tagged
<1>2. reply = None \/ Truthful(reply)
  BY DEF ConsentInv, AskedInv
<1>3. Decide(c, ManualPlan(input), reply, "no") /\ UNCHANGED <<world, mirror, shown>>
  BY DEF InstallManual
<1> QED BY <1>1, <1>2, <1>3, DecideKeeps

LEMMA ResolveKeeps ==
  ASSUME ConsentInv, NEW c \in Client, Resolve(c)
  PROVE  ConsentInv'
<1>1. /\ call[c].pc = "resolve" /\ mirror' = Refreshed(call[c].req)
      /\ UNCHANGED <<world, installed, asked, shown>>
  BY DEF Resolve
<1>2. call[c].req \in Requests
  BY <1>1 DEF ConsentInv, CallInv
<1>3. WorldInv'
  BY <1>1, <1>2, RefreshedKeeps DEF ConsentInv, WorldInv, world
<1>4. AskedInv' /\ RowInv' /\ ShownInv'
  BY <1>1 DEF ConsentInv, AskedInv, RowInv, ShownInv, installed
<1>5. Gone' = Gone
  BY <1>1 DEF Gone, world
<1>6. CASE call' = [call EXCEPT ![c] = Idle]
  <2>1. CallInv'
    BY <1>1, <1>6, CallKept DEF ConsentInv, world
  <2> QED BY <1>3, <1>4, <2>1 DEF ConsentInv
<1>7. CASE call' # [call EXCEPT ![c] = Idle]
  <2>1. PICK found \in Resolved(call[c].req) :
          call' = [call EXCEPT ![c] =
                     [pc |-> "latest", candidate |-> found.candidate, reply |-> call[c].reply,
                      gone |-> TakenDown(found, call[c].gone)]]
    BY <1>7 DEF Resolve
  <2>3. call[c].gone \subseteq Gone /\ (call[c].reply = None \/ Truthful(call[c].reply))
    BY <1>1 DEF ConsentInv, CallInv
  <2>2. /\ Installable(found.candidate)
        /\ TakenDown(found, call[c].gone) = "told" => found.candidate.status = "deleted"
    BY <1>2, <2>3, ResolvedInstallable DEF ConsentInv
  <2> DEFINE next == [pc |-> "latest", candidate |-> found.candidate, reply |-> call[c].reply,
                      gone |-> TakenDown(found, call[c].gone)]
  <2>4. /\ next.pc = "latest" /\ Installable(next.candidate)
        /\ next.gone = "told" => next.candidate.status = "deleted"
        /\ next.reply = None \/ Truthful(next.reply)
    <3>1. /\ next.pc = "latest" /\ next.candidate = found.candidate
          /\ next.reply = call[c].reply /\ next.gone = TakenDown(found, call[c].gone)
      BY Zenon
    <3> HIDE DEF next
    <3> QED BY <2>2, <2>3, <3>1
  <2>5. call' = [call EXCEPT ![c] = next]
    BY <2>1
  <2> HIDE DEF next
  <2>6. CallInv'
    BY <1>5, <2>4, <2>5 DEF ConsentInv, CallInv
  <2> QED BY <1>3, <1>4, <2>6 DEF ConsentInv
<1> QED BY <1>6, <1>7

LEMMA ConcludeKeeps ==
  ASSUME ConsentInv, NEW c \in Client, Conclude(c)
  PROVE  ConsentInv'
<1>1. PICK plan \in Plans(call[c].candidate) :
        Decide(c, plan, call[c].reply, call[c].gone)
  BY DEF Conclude
<1>2. call[c].pc = "latest" /\ UNCHANGED <<world, mirror, shown>>
  BY DEF Conclude
<1>3. /\ Installable(call[c].candidate)
      /\ call[c].gone = "told" => call[c].candidate.status = "deleted"
      /\ call[c].reply = None \/ Truthful(call[c].reply)
  BY <1>2 DEF ConsentInv, CallInv
<1>4. /\ FixedOrTagged(plan)
      /\ call[c].gone = "told" => plan.blocked # Unset
  BY <1>3, PlansFixed DEF ConsentInv, WorldInv
<1> QED BY <1>1, <1>2, <1>3, <1>4, DecideKeeps

LEMMA UserAnswersKeeps ==
  ASSUME ConsentInv, NEW c \in Client, NEW answer, UserAnswers(c, answer)
  PROVE  ConsentInv'
<1>1. /\ asked[c] # None /\ asked' = [asked EXCEPT ![c].answer = answer]
      /\ UNCHANGED <<world, mirror, installed, call, shown>>
  BY DEF UserAnswers
<1> DEFINE q == asked[c]
<1>2. Truthful(q)
  BY <1>1 DEF ConsentInv, AskedInv
<1>3. [q EXCEPT !.answer = answer] =
        [kind |-> q.kind, digest |-> q.digest, view |-> q.view, loads |-> q.loads,
         answer |-> answer]
  <2>1. q = [kind |-> q.kind, digest |-> q.digest, view |-> q.view, loads |-> q.loads,
             answer |-> q.answer]
    BY <1>2 DEF Truthful
  <2> HIDE DEF q
  <2> QED BY <2>1
<1>4. asked' = [asked EXCEPT ![c] = [q EXCEPT !.answer = answer]]
  BY <1>1
<1> HIDE DEF q
<1>5. Truthful([q EXCEPT !.answer = answer])
  BY <1>2, <1>3 DEF Truthful
<1>6. AskedInv'
  BY <1>4, <1>5 DEF ConsentInv, AskedInv
<1>7. WorldInv' /\ CallInv' /\ RowInv' /\ ShownInv'
  BY <1>1 DEF ConsentInv, WorldInv, CallInv, RowInv, ShownInv, world, installed, Gone
<1> QED BY <1>6, <1>7 DEF ConsentInv

LEMMA EnableKeeps ==
  ASSUME ConsentInv, NEW c \in Client, NEW reply, EnableServer(c, reply)
  PROVE  ConsentInv'
<1>1. UNCHANGED <<world, mirror, row, tools, call, shown>>
  BY DEF EnableServer
<1>2. Ask(c, reply, Question("approve", tools, tools, <<>>)) \/ UNCHANGED asked
  BY DEF EnableServer
<1>3. AskedInv'
  BY <1>2, ApproveQuestionTruthful, AskKeeps DEF ConsentInv
<1>4. WorldInv' /\ CallInv' /\ RowInv' /\ ShownInv'
  BY <1>1 DEF ConsentInv, WorldInv, CallInv, RowInv, ShownInv, world, Gone
<1> QED BY <1>3, <1>4 DEF ConsentInv

-----------------------------------------------------------------------------
(* The pane and the world. *)

LEMMA PaneKeeps ==
  ASSUME ConsentInv, PaneInstall \/ \E req \in Requests : PaneShowPlan(req)
  PROVE  ConsentInv'
<1>1. CASE PaneInstall
  <2>1. /\ shown.req \in Requests /\ mirror' = Refreshed(shown.req) /\ shown' = None
        /\ UNCHANGED <<world, call, asked>>
    BY <1>1 DEF PaneInstall, ConsentInv, ShownInv
  <2>2. WorldInv'
    BY <2>1, RefreshedKeeps DEF ConsentInv, WorldInv, world
  <2>3. AskedInv' /\ CallInv' /\ ShownInv'
    BY <2>1 DEF ConsentInv, AskedInv, CallInv, ShownInv, world, Gone
  <2>4. PICK found \in Resolved(shown.req) : \E plan \in Plans(found.candidate) :
          /\ plan.blocked = Unset
          /\ \E reply : row' = [input |-> plan.input, pinned |-> plan.pinned, by |-> "pane",
                                reply |-> reply, gone |-> TakenDown(found, Gone)]
    BY <1>1 DEF PaneInstall, Install
  <2>5. PICK plan \in Plans(found.candidate) :
          /\ plan.blocked = Unset
          /\ \E reply : row' = [input |-> plan.input, pinned |-> plan.pinned, by |-> "pane",
                                reply |-> reply, gone |-> TakenDown(found, Gone)]
    BY <2>4
  <2>6. /\ Installable(found.candidate)
        /\ TakenDown(found, Gone) = "told" => found.candidate.status = "deleted"
    BY <2>1, ResolvedInstallable DEF ConsentInv
  <2>8. /\ FixedOrTagged(plan)
        /\ found.candidate.status = "deleted" => plan.blocked # Unset
    BY <2>5, <2>6, PlansFixed DEF ConsentInv, WorldInv
  <2>7. RowInv'
    <3>1. PICK reply : row' = [input |-> plan.input, pinned |-> plan.pinned, by |-> "pane",
                               reply |-> reply, gone |-> TakenDown(found, Gone)]
      BY <2>5, Zenon
    <3>2. /\ row'.input = plan.input /\ row'.pinned = plan.pinned /\ row'.by = "pane"
          /\ row'.gone = TakenDown(found, Gone)
      BY <3>1
    <3>3. TakenDown(found, Gone) # "told"
      BY <2>5, <2>6, <2>8
    <3>4. plan.pinned => Fixed(plan.input) \/ Tagged(plan.input)
      BY <2>8 DEF FixedOrTagged
    <3> QED BY <3>2, <3>3, <3>4 DEF RowInv
  <2> QED BY <2>2, <2>3, <2>7 DEF ConsentInv
<1>2. ASSUME NEW req \in Requests, PaneShowPlan(req) PROVE ConsentInv'
  <2>1. /\ mirror' = Refreshed(req) /\ shown'.req = req
        /\ UNCHANGED <<registry, release, reachable, installed, call, asked>>
    BY <1>2 DEF PaneShowPlan
  <2>2. WorldInv'
    BY <2>1, RefreshedKeeps DEF ConsentInv, WorldInv
  <2>3. AskedInv' /\ CallInv' /\ ShownInv' /\ RowInv'
    BY <2>1 DEF ConsentInv, AskedInv, CallInv, ShownInv, RowInv, installed, Gone
  <2> QED BY <2>2, <2>3 DEF ConsentInv
<1> QED BY <1>1, <1>2

\* The registry only grows, and what is taken down stays so.
LEMMA RegistryKeeps ==
  ASSUME ConsentInv, registry' = [n \in Entry |-> registry'[n]],
         \A n \in Entry : registry'[n] \in Seq(Versions) /\ registry'[n] # <<>>,
         \A n \in Entry : \A i \in DOMAIN registry[n] :
           i \in DOMAIN registry'[n]
             /\ (registry[n][i].status = "deleted" => registry'[n][i].status = "deleted"),
         UNCHANGED <<release, mirror, installed, call, asked, shown>>
  PROVE  ConsentInv'
<1>1. Gone \subseteq Gone'
  <2> SUFFICES ASSUME NEW n \in Entry, NEW i \in DOMAIN registry[n],
                      registry[n][i].status = "deleted"
               PROVE  <<n, i>> \in Gone'
    BY DEF Gone
  <2> QED BY DEF Gone
<1>2. CallInv'
  BY <1>1 DEF ConsentInv, CallInv
<1>3. WorldInv'
  BY DEF ConsentInv, WorldInv
<1>4. AskedInv' /\ RowInv' /\ ShownInv'
  BY DEF ConsentInv, AskedInv, RowInv, ShownInv, installed
<1> QED BY <1>2, <1>3, <1>4 DEF ConsentInv

LEMMA PublishKeeps ==
  ASSUME ConsentInv, NEW n \in Entry, NEW shape \in Shape, Publish(n, shape)
  PROVE  ConsentInv'
<1> DEFINE version == [server |-> shape, status |-> "active"]
<1>1. version \in Versions
  BY DEF Versions
<1>2. /\ registry' = [registry EXCEPT ![n] = Append(registry[n], version)]
      /\ UNCHANGED <<release, mirror, installed, call, asked, shown>>
  BY DEF Publish
<1> HIDE DEF version
<1>3. /\ registry = [m \in Entry |-> registry[m]]
      /\ \A m \in Entry : registry[m] \in Seq(Versions) /\ registry[m] # <<>>
  BY DEF ConsentInv, WorldInv
<1>4. /\ Append(registry[n], version) \in Seq(Versions) /\ Append(registry[n], version) # <<>>
      /\ \A i \in DOMAIN registry[n] : i \in DOMAIN Append(registry[n], version)
                                        /\ Append(registry[n], version)[i] = registry[n][i]
  BY <1>1, <1>3
<1> QED BY <1>2, <1>3, <1>4, RegistryKeeps

LEMMA TakeDownKeeps ==
  ASSUME ConsentInv, NEW n \in Entry, NEW i \in DOMAIN registry[n],
         NEW status \in {"deprecated", "deleted"}, TakeDown(n, i, status)
  PROVE  ConsentInv'
<1> DEFINE version == [registry[n][i] EXCEPT !.status = status]
<1>1. /\ registry = [m \in Entry |-> registry[m]]
      /\ \A m \in Entry : registry[m] \in Seq(Versions) /\ registry[m] # <<>>
  BY DEF ConsentInv, WorldInv
<1>2. version \in Versions
  <2>1. registry[n][i] \in Versions
    BY <1>1
  <2> QED BY <2>1 DEF Versions
<1>3. /\ registry[n][i].status = "active"
      /\ registry' = [registry EXCEPT ![n] = [registry[n] EXCEPT ![i] = version]]
      /\ UNCHANGED <<release, mirror, installed, call, asked, shown>>
  BY DEF TakeDown
<1> HIDE DEF version
<1>4. [registry[n] EXCEPT ![i] = version] \in Seq(Versions)
  BY <1>1, <1>2, ExceptSeq
<1>5. DOMAIN [registry[n] EXCEPT ![i] = version] = DOMAIN registry[n]
  OBVIOUS
<1>6. [registry[n] EXCEPT ![i] = version] # <<>>
  BY <1>1, <1>4, <1>5
<1> QED BY <1>1, <1>3, <1>4, <1>5, <1>6, RegistryKeeps

LEMMA SyncKeeps ==
  ASSUME ConsentInv, NEW n \in Entry, Sync(n)
  PROVE  ConsentInv'
<1>1. mirror' = Copied(n) /\ UNCHANGED <<world, installed, call, asked, shown>>
  BY DEF Sync
<1>2. WorldInv'
  BY <1>1, CopiedKeeps DEF ConsentInv, WorldInv, world
<1>3. AskedInv' /\ CallInv' /\ RowInv' /\ ShownInv'
  BY <1>1 DEF ConsentInv, AskedInv, CallInv, RowInv, ShownInv, world, installed, Gone
<1> QED BY <1>2, <1>3 DEF ConsentInv

LEMMA WorldKeeps ==
  ASSUME ConsentInv, Uninstall \/ Drift \/ Release \/ Network
  PROVE  ConsentInv'
<1>1. /\ UNCHANGED <<registry, mirror, call, asked, shown>>
      /\ release' = release \/ release' = release + 1
      /\ row' = None \/ row' = row
  BY DEF Uninstall, Drift, Release, Network, Move, installed
<1>2. WorldInv'
  BY <1>1 DEF ConsentInv, WorldInv
<1>3. AskedInv' /\ CallInv' /\ RowInv' /\ ShownInv'
  BY <1>1 DEF ConsentInv, AskedInv, CallInv, RowInv, ShownInv, Gone
<1> QED BY <1>2, <1>3 DEF ConsentInv

LEMMA InitConsent == Init => ConsentInv
<1> SUFFICES ASSUME Init PROVE ConsentInv
  OBVIOUS
<1>1. ASSUME NEW n \in Entry
      PROVE  registry[n] \in Seq(Versions) /\ registry[n] # <<>>
  <2>1. PICK s \in Shape : registry[n] = <<[server |-> s, status |-> "active"]>>
    BY DEF Init
  <2>2. [server |-> s, status |-> "active"] \in Versions
    BY DEF Versions
  <2> HIDE DEF Versions
  <2> QED BY <2>1, <2>2
<1>2. WorldInv
  BY <1>1 DEF Init, WorldInv
<1>3. AskedInv /\ CallInv /\ RowInv /\ ShownInv
  BY DEF Init, AskedInv, CallInv, RowInv, ShownInv, Idle
<1> QED BY <1>2, <1>3 DEF ConsentInv

LEMMA NextConsent ==
  ASSUME ConsentInv, [Next]_vars
  PROVE  ConsentInv'
<1>1. ASSUME NEW c \in Client, NEW reply \in {None, asked[c]},
             NEW req \in Requests, StartInstall(c, req, reply)
      PROVE  ConsentInv'
  BY <1>1, StartKeeps
<1>2. ASSUME NEW c \in Client, NEW reply \in {None, asked[c]},
             NEW input \in Manual, InstallManual(c, input, reply)
      PROVE  ConsentInv'
  BY <1>2, ManualKeeps
<1>3. ASSUME NEW c \in Client, NEW reply \in {None, asked[c]}, EnableServer(c, reply)
      PROVE  ConsentInv'
  BY <1>3, EnableKeeps
<1>4. ASSUME NEW c \in Client, Resolve(c) PROVE ConsentInv'
  BY <1>4, ResolveKeeps
<1>5. ASSUME NEW c \in Client, Conclude(c) PROVE ConsentInv'
  BY <1>5, ConcludeKeeps
<1>6. ASSUME NEW c \in Client, NEW answer, UserAnswers(c, answer) PROVE ConsentInv'
  BY <1>6, UserAnswersKeeps
<1>7. CASE PaneInstall \/ \E req \in Requests : PaneShowPlan(req)
  BY <1>7, PaneKeeps
<1>8. CASE Uninstall \/ Drift \/ Release \/ Network
  BY <1>8, WorldKeeps
<1>9. ASSUME NEW n \in Entry, NEW shape \in Shape, Publish(n, shape) PROVE ConsentInv'
  BY <1>9, PublishKeeps
<1>10. ASSUME NEW n \in Entry, NEW i \in DOMAIN registry[n],
              NEW status \in {"deprecated", "deleted"}, TakeDown(n, i, status)
       PROVE  ConsentInv'
  BY <1>10, TakeDownKeeps
<1>11. ASSUME NEW n \in Entry, Sync(n) PROVE ConsentInv'
  BY <1>11, SyncKeeps
<1>12. CASE UNCHANGED vars
  BY <1>12 DEF vars, world, installed, ConsentInv, WorldInv, AskedInv, CallInv, RowInv,
               ShownInv, Gone
<1> QED
  BY <1>1, <1>2, <1>3, <1>4, <1>5, <1>6, <1>7, <1>8, <1>9, <1>10, <1>11, <1>12, Zenon
  DEF Next

-----------------------------------------------------------------------------
(* The results. *)

LEMMA AlwaysConsent == Spec => []ConsentInv
<1>1. Init => ConsentInv
  BY InitConsent
<1>2. ConsentInv /\ [Next]_vars => ConsentInv'
  BY NextConsent
<1> QED BY <1>1, <1>2, PTL DEF Spec

\* Without the switch that turns questions off, whatever a client's request installed
\* is what its user was shown and accepted (tools.ts confirm and install_server).
THEOREM ConfirmedCorrect ==
  ASSUME ~AllowUnconfirmedInstall
  PROVE  Spec => []InstalledAsConfirmed
<1>1. ConsentInv => InstalledAsConfirmed
  BY DEF ConsentInv, RowInv, InstalledAsConfirmed, Truthful, ShowsInput, Accepted, Answered
<1> QED BY <1>1, AlwaysConsent, PTL

\* An installation shown as pinned, and not as a tag that can move, loads what its
\* question said, whatever is released or pushed later (marketplace.ts plan,
\* install-plan.ts ociReference).
THEOREM PinnedCorrect ==
  ASSUME ~AllowUnconfirmedInstall
  PROVE  Spec => []PinnedLoadsAsShown
<1>1. ConsentInv => PinnedLoadsAsShown
  <2> SUFFICES ASSUME ConsentInv, row # None, row.by = "client", row.pinned,
                      "tags are mutable" \notin row.reply.view.warnings
               PROVE  Loaded(row.input, release) = row.reply.loads
    BY DEF PinnedLoadsAsShown
  <2>1. /\ Fixed(row.input) \/ Tagged(row.input)
        /\ Truthful(row.reply) /\ row.reply.kind = "install" /\ row.reply.digest = row.input
    BY DEF ConsentInv, RowInv, Accepted, Answered
  <2>2. Fixed(row.input) /\ row.reply.loads = row.input.token
    BY <2>1 DEF Truthful
  <2> QED BY <2>2, FixedLoads
<1> QED BY <1>1, AlwaysConsent, PTL

\* A version taken down before a request began is not installed by that request,
\* whether the registry answered or a copy made since (install-plan.ts: deleted
\* entries are blocked); a copy made before the takedown is left out.
THEOREM TakedownCorrect == Spec => []TakenDownStaysOut
<1>1. ConsentInv => TakenDownStaysOut
  BY DEF ConsentInv, RowInv, TakenDownStaysOut
<1> QED BY <1>1, AlwaysConsent, PTL

\* The pins of an installed server change only to tools that some user was shown and
\* accepted, and that are listed when they do (tools.ts enable_server).
THEOREM ReviewCorrect == Spec => ApprovedAsReviewed
<1> DEFINE Reviewed == row # None /\ row' = row /\ pins' # pins =>
             \E c \in Client : /\ asked[c] # None /\ asked[c].kind = "approve"
                               /\ asked[c].answer = "accept" /\ asked[c].view = pins'
                               /\ pins' = tools
<1>1. ConsentInv /\ [Next]_vars => [Reviewed]_vars
  <2> SUFFICES ASSUME ConsentInv, Next, row # None, row' = row, pins' # pins
               PROVE  \E c \in Client :
                        /\ asked[c] # None /\ asked[c].kind = "approve"
                        /\ asked[c].answer = "accept" /\ asked[c].view = pins'
                        /\ pins' = tools
    BY DEF vars, installed
  <2>1. \A c, plan, reply, gone : Decide(c, plan, reply, gone) => UNCHANGED pins
    BY DEF Decide, installed
  <2>2. PICK c \in Client : \E reply \in {None, asked[c]} : EnableServer(c, reply)
    BY <2>1 DEF Next, StartInstall, InstallManual, Resolve, Conclude, UserAnswers, PaneShowPlan,
                PaneInstall, Uninstall, Drift, Release, Network, Sync, Publish, TakeDown, installed
  <2>3. PICK reply \in {None, asked[c]} : Accepted(reply, "approve", tools) /\ pins' = tools
    BY <2>2 DEF EnableServer
  <2>4. reply = asked[c] /\ asked[c] # None /\ Truthful(asked[c])
    BY <2>2, <2>3 DEF Accepted, Answered, ConsentInv, AskedInv
  <2>5. asked[c].view = tools
    BY <2>3, <2>4 DEF Accepted, Answered, Truthful
  <2> QED BY <2>3, <2>4, <2>5 DEF Accepted, Answered
<1> QED BY <1>1, AlwaysConsent, PTL DEF Spec, ApprovedAsReviewed
=============================================================================
