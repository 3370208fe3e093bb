---------------------------- MODULE InstallPlans ----------------------------
(***************************************************************************)
(* What an entry of a registry becomes: the install plan                   *)
(* (domain/install-plan.ts, the lookups of domain/marketplace.ts, the      *)
(* checks of domain/provenance.ts and the view of mcp/tools.ts).  A plan   *)
(* holds the input of the installation: the exact process or endpoint.     *)
(*                                                                         *)
(* Text is abstract.  A value is Unset (absent), Open (a placeholder       *)
(* {var} is left in it), Blank ("") or an opaque token.  A version is      *)
(* Unset, [no |-> n, exact |-> TRUE], or one that names no single release, *)
(* a range or `latest`, with exact FALSE.                                  *)
(***************************************************************************)
EXTENDS Naturals, SequencesExt

CONSTANTS Unset, Open, Blank

ASSUME UnsetIsNoReason == Unset # "taken down"

NoValues == [k \in {} |-> Blank]

-----------------------------------------------------------------------------
(* Arguments, env vars and headers. *)

ArgMissing(a) ==
  \/ a.value = Open
  \/ a.value = Unset /\ a.required /\ (a.type = "positional" \/ a.name # Unset)

ArgTokens(a) ==
  IF a.value \in {Unset, Open} \/ (a.type = "named" /\ a.name = Unset) THEN <<>>
  ELSE IF a.type = "positional" THEN <<<<"value", a.value>>>>
  ELSE IF a.value = Blank THEN <<<<"flag", a.name>>>>
  ELSE <<<<"flag", a.name, a.value>>>>

BuildArgs(list) == FlattenSeq([i \in DOMAIN list |-> ArgTokens(list[i])])

ArgsMissing(list) == \E i \in DOMAIN list : ArgMissing(list[i])

Known(kv) == ~kv.secret /\ kv.value \notin {Unset, Open}

RequirementsOf(list, kind, stored) ==
  {[key |-> kv.key, kind |-> kind, required |-> kv.required, secret |-> kv.secret,
    present |-> Known(kv) \/ kv.key \in stored] : kv \in list}

\* A key without a value is listed blank, so that it shows as missing until a
\* secret fills it; an optional env var without a value is left out.
ValuesOf(list, kind) ==
  LET kept == {kv \in list : Known(kv) \/ kind = "header" \/ kv.secret \/ kv.required}
  IN  [k \in {kv.key : kv \in kept} |->
        LET kv == CHOOSE kv \in kept : kv.key = k IN IF Known(kv) THEN kv.value ELSE Blank]

-----------------------------------------------------------------------------
(* A package, a remote endpoint. *)

\* The command line is the command, the token of the package or image, and the
\* arguments around that.
Built(transport) ==
  [transport |-> transport, command |-> Unset, token |-> Unset, args |-> <<>>, url |-> Unset,
   env |-> NoValues, headers |-> NoValues, requirements |-> {}, version |-> Unset,
   pinned |-> FALSE, warnings |-> {}, blocked |-> Unset]

Exact(version) == version # Unset /\ version.exact

\* Slips no plan makes, here and below: each breaks a property (see PROJECT.json).
PackageTokenUnpinned(pkg, pinned) == <<"package", pkg.id, 0>>

\* `pinned ? identifier@version : identifier`: a range or a tag is not passed on.
PackageToken(pkg, pinned) == <<"package", pkg.id, IF pinned THEN pkg.version.no ELSE 0>>

OciPinned(pkg) == pkg.image \in {"digest", "tag"} \/ (pkg.image = "bare" /\ Exact(pkg.version))

OciToken(pkg) ==
  IF pkg.image = "bare" /\ Exact(pkg.version)
  THEN <<"image", pkg.id, "tag">> ELSE <<"image", pkg.id, pkg.image>>

BuildPackage(pkg, stored) ==
  LET base    == [Built("stdio") EXCEPT !.env = ValuesOf(pkg.env, "env"), !.version = pkg.version,
                                        !.requirements = RequirementsOf(pkg.env, "env", stored)]
      pinned  == IF pkg.type = "oci" THEN OciPinned(pkg) ELSE Exact(pkg.version)
      floats  == pkg.type = "oci" /\ pinned /\ pkg.image # "digest"
      args    == BuildArgs(pkg.args)
      runs(command, token, list) ==
        [base EXCEPT !.command = command, !.token = token, !.args = list, !.pinned = pinned,
                     !.warnings = (IF pkg.otherBase THEN {"registry not verified"} ELSE {})
                                    \cup (IF floats THEN {"tags are mutable"} ELSE {})]
      blocked(why) == [base EXCEPT !.blocked = why]
  IN  CASE ~pkg.stdio -> blocked("local http transport")
        [] pkg.stdio /\ ArgsMissing(pkg.args) -> blocked("argument without a value")
        [] pkg.stdio /\ ~ArgsMissing(pkg.args) /\ pkg.type = "npm" ->
             runs("npx", PackageToken(pkg, pinned), args)
        [] pkg.stdio /\ ~ArgsMissing(pkg.args) /\ pkg.type = "pypi" ->
             runs("uvx", PackageToken(pkg, pinned), args)
        [] pkg.stdio /\ ~ArgsMissing(pkg.args) /\ pkg.type = "oci" ->
             runs("docker", OciToken(pkg), <<<<"forward", {kv.key : kv \in pkg.env}>>>> \o args)
        [] OTHER -> blocked("package type not supported")

BuildRemote(remote, stored) ==
  LET base == [Built(remote.type) EXCEPT !.url = remote.url,
                 !.headers = ValuesOf(remote.headers, "header"),
                 !.requirements = RequirementsOf(remote.headers, "header", stored)]
  IN  CASE remote.url = Open -> [base EXCEPT !.blocked = "url variables"]
        [] remote.scheme = "other" -> [base EXCEPT !.blocked = "not an http url"]
        [] remote.url # Open /\ remote.scheme = "http" -> [base EXCEPT !.warnings = {"not https"}]
        [] OTHER -> base

-----------------------------------------------------------------------------
(* The plan of a candidate [name, source, status, packages, remotes].      *)
(* `transport` is what the caller asked for, or Unset.                     *)

\* The first of the kind asked for, else the first at all.
FirstOr1(wanted) == IF wanted = {} THEN 1 ELSE Min(wanted)
ChosenPackage(c, transport) ==
  IF transport \in {"sse", "streamable-http"} \/ c.packages = <<>> THEN Unset
  ELSE c.packages[FirstOr1({i \in DOMAIN c.packages : c.packages[i].stdio})]

ChosenRemote(c, transport) ==
  IF ChosenPackage(c, transport) # Unset \/ c.remotes = <<>> THEN Unset
  ELSE c.remotes[FirstOr1({i \in DOMAIN c.remotes : c.remotes[i].type = transport})]

BlockedAsBuilt(c, built) == built.blocked

\* An entry deleted in the registry is a takedown.
Blocked(c, built) == IF c.status = "deleted" THEN "taken down" ELSE built.blocked

BuildInstallPlan(c, transport, stored) ==
  LET pkg     == ChosenPackage(c, transport)
      remote  == ChosenRemote(c, transport)
      built   == CASE pkg # Unset -> BuildPackage(pkg, stored)
                   [] pkg = Unset /\ remote # Unset -> BuildRemote(remote, stored)
                   [] OTHER -> [Built("stdio") EXCEPT !.blocked = "neither packages nor remotes"]
      blocked == Blocked(c, built)
  IN  [source |-> c.source, version |-> built.version, pinned |-> built.pinned,
       package |-> pkg, requirements |-> built.requirements, blocked |-> blocked,
       warnings |-> built.warnings
         \cup (IF c.status = "deprecated" THEN {"deprecated"} ELSE {})
         \cup (IF pkg # Unset /\ ~built.pinned /\ blocked = Unset THEN {"not pinned"} ELSE {})
         \cup (IF \E r \in built.requirements : r.required /\ ~r.present
               THEN {"requires a value"} ELSE {}),
       input |-> [transport |-> built.transport, command |-> built.command,
                  token |-> built.token, args |-> built.args, url |-> built.url,
                  env |-> built.env, headers |-> built.headers,
                  package |-> IF pkg = Unset THEN Unset ELSE pkg.id,
                  registry_name |-> IF c.source = "registry" THEN c.name ELSE Unset]]

\* A command or url given by hand: nothing to look up, to verify or to pin.
ManualPlan(input) ==
  [source |-> "manual", version |-> Unset, pinned |-> FALSE, package |-> Unset,
   requirements |-> {[key |-> k, kind |-> "env", required |-> FALSE, secret |-> FALSE,
                      present |-> TRUE] : k \in DOMAIN input.env},
   blocked |-> Unset, warnings |-> {}, input |-> input]

-----------------------------------------------------------------------------
(* What the registries of packages add to a plan. *)

LooksUp(pkg) == pkg.version = Unset /\ pkg.type \in {"npm", "pypi"}

\* The packages without a version get the current release; a failed lookup
\* (`found` FALSE) leaves them without one.
PinLatest(c, release, found) ==
  [c EXCEPT !.packages = [i \in DOMAIN c.packages |->
     IF LooksUp(c.packages[i]) /\ found
     THEN [c.packages[i] EXCEPT !.version = [no |-> release, exact |-> TRUE]]
     ELSE c.packages[i]]]

\* The possible results of the check of the plan's package against `c`.
CheckProvenance(plan, c) ==
  IF plan.package = Unset \/ plan.blocked # Unset THEN {"none"}
  ELSE IF plan.package.type \notin {"npm", "pypi", "oci"} THEN {"none"}
  ELSE IF c.source # "registry"
    THEN {"skipped"} \cup IF plan.package.type = "npm" THEN {"error"} ELSE {}
  ELSE {"error", IF plan.package.owner = c.name THEN "pass" ELSE "fail"}
         \cup (IF plan.package.type = "oci" THEN {"skipped"} ELSE {})

Checked(plan, check) ==
  [plan EXCEPT !.warnings = @ \cup IF check = "fail" THEN {"provenance check failed"} ELSE {}]

\* What the consent shows: what runs, the keys of its values, the values of
\* the env vars that change what code is loaded (Loader), and the warnings.
PlanView(plan, Loader) ==
  [transport |-> plan.input.transport, command |-> plan.input.command,
   token |-> plan.input.token, args |-> plan.input.args, url |-> plan.input.url, keys |-> {r.key : r \in plan.requirements},
   loader_env |-> [k \in {k \in DOMAIN plan.input.env \cap Loader : plan.input.env[k] # Blank} |->
                     plan.input.env[k]],
   pinned |-> plan.pinned, warnings |-> plan.warnings]

\* Names that say no more than the current release: a package without a version
\* is the one its registry has, an image's tag is whatever was pushed under it
\* last.  A digest names one image for good.
Moving(token) ==
  /\ token # Unset
  /\ \/ token[1] = "package" /\ token[3] = 0
     \/ token[1] = "image" /\ token[3] # "digest"

\* What a start of the process loads, when the current release is `release`.
Loaded(input, release) ==
  IF Moving(input.token) THEN <<input.token[1], input.token[2], release>> ELSE input.token
=============================================================================
