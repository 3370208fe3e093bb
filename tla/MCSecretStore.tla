--------------------------- MODULE MCSecretStore ---------------------------
(* A small instance of SecretStore for TLC. *)
EXTENDS SecretStore, TLC

CONSTANTS short, long, longer, k, l, t, u

\* Nothing tells two secrets of a server apart.
KeySymmetry == Permutations(Key)

MCChunks == [v \in Value |-> CASE v = short -> 0 [] v = long -> 2 [] OTHER -> 3]

New == [version |-> 0, cols |-> {}, active |-> FALSE, enabled |-> FALSE, transport |-> "stdio",
        homepage |-> Absent, url |-> Absent, source |-> "local", indexed |-> FALSE, tools |-> {},
        hashed |-> FALSE, pins |-> NoPin, fts |-> [by |-> "triggers", rows |-> {}], vectors |-> FALSE]
Stdio1x == [New EXCEPT !.version = 3, !.cols = {"active", "installed", "latest_version"},
                       !.active = TRUE, !.homepage = "site", !.tools = {t, u}]
Remote1x == [Stdio1x EXCEPT !.version = 6, !.transport = "sse", !.homepage = "address",
                            !.source = "smithery", !.fts.rows = {t, u}, !.vectors = TRUE]
\* 2.0 with a pin from before the upstream changed.
Pinned2x == [New EXCEPT !.version = 9, !.cols = {"url", "enabled", "registry_name"},
                        !.enabled = TRUE, !.url = "address", !.transport = "sse", !.indexed = TRUE,
                        !.tools = {t, u}, !.hashed = TRUE, !.pins = [tools |-> {t}, hashed |-> TRUE],
                        !.fts.rows = {t, u}]
MCOldSchemas == {New, Stdio1x, Remote1x, Pinned2x}
=============================================================================
