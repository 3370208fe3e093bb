-------------------------- MODULE MCInstallConsent --------------------------
(* A small instance of InstallConsent for TLC. *)
EXTENDS InstallConsent

CONSTANTS Opts, Url

Package == [type |-> "npm", id |-> "pkg", stdio |-> TRUE, version |-> Unset, args |-> <<>>,
            env |-> {}, image |-> "none", otherBase |-> FALSE, owner |-> "n1"]
Server(packages, remotes) == [packages |-> packages, remotes |-> remotes]
KeyValue(key, value, secret) == [key |-> key, value |-> value, secret |-> secret, required |-> TRUE]

Image(kind) == [Package EXCEPT !.type = "oci", !.image = kind, !.id = "image"]

\* A package without a version, one whose env decides what node loads, an entry
\* with only a remote endpoint, an image by its tag and one by its digest.
MCShape == {
  Server(<<Package>>, <<>>),
  Server(<<[Package EXCEPT !.version = [no |-> 1, exact |-> TRUE],
                           !.env = {KeyValue("NODE_OPTIONS", Opts, FALSE)}]>>, <<>>),
  Server(<<>>, <<[type |-> "sse", url |-> Url, scheme |-> "https",
                  headers |-> {KeyValue("authorization", Unset, TRUE)}]>>),
  Server(<<Image("tag")>>, <<>>),
  Server(<<Image("digest")>>, <<>>)}

\* A command given by hand.
MCManual == {[transport |-> "stdio", command |-> "node", token |-> Unset, args |-> <<>>, url |-> Unset,
              env |-> [k \in {"NODE_OPTIONS"} |-> Opts], headers |-> NoValues,
              package |-> Unset, registry_name |-> Unset]}
MCLoader == {"NODE_OPTIONS"}
=============================================================================
