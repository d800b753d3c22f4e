----------------------------- MODULE MCPipeline -----------------------------
(***************************************************************************)
(* The pipeline over the resources of src/examples/converge-build/go.hcl   *)
(* (the depends lists and the param references of its templates), next to *)
(* a user.user vertex with a file that depends on it, on two workers.      *)
(***************************************************************************)
EXTENDS Pipeline


GoVersion  == <<"root", "param", "go-version">>
GoSum      == <<"root", "param", "go-sha256sum">>
Sha256     == <<"root", "file.content", "go-sha256">>
CurlCheck  == <<"root", "wait.query", "curl-check">>
GoDl       == <<"root", "task", "go-dl">>
GoChecksum == <<"root", "task", "go-checksum">>
GoExtract  == <<"root", "task", "go-extract">>
GoSymlink  == <<"root", "file", "go-symlink">>
Builder    == <<"root", "user.user", "builder">>
Profile    == <<"root", "file.content", "profile">>

MCGraph ==
    [vertices |-> {GoVersion, GoSum, Sha256, CurlCheck, GoDl, GoChecksum,
                   GoExtract, GoSymlink, Builder, Profile},
     kind |-> [v \in {GoVersion, GoSum, Sha256, CurlCheck, GoDl, GoChecksum,
                      GoExtract, GoSymlink, Builder, Profile} |-> "resource"],
     edges |-> {<<Sha256, GoVersion>>, <<Sha256, GoSum>>,
                <<GoDl, GoVersion>>, <<GoDl, CurlCheck>>, <<GoDl, Sha256>>,
                <<GoChecksum, GoVersion>>, <<GoChecksum, Sha256>>,
                <<GoChecksum, GoDl>>,
                <<GoExtract, GoVersion>>, <<GoExtract, GoChecksum>>,
                <<GoSymlink, GoExtract>>,
                <<Profile, Builder>>}]

MCWorkers == {"w1", "w2"}
MCUserVertices == {Builder}

\* One record per branch of Prepare: uid and gid at the sentinel, at the
\* largest valid id (two decimal digits for Width 4) and unset; a move
\* without a home directory; state left empty.
MCUserPreparers ==
    LET base == [Username |-> "u", UID |-> Unset, GroupName |-> "",
                 GID |-> Unset, HomeDir |-> "", MoveDir |-> FALSE,
                 State |-> ""]
    IN  {[base EXCEPT !.UID = 15], [base EXCEPT !.GID = 15],
         [base EXCEPT !.MoveDir = TRUE],
         [base EXCEPT !.UID = 14, !.GID = 0, !.HomeDir = "/h", !.MoveDir = TRUE,
                      !.State = "absent"],
         [base EXCEPT !.UID = 7, !.GroupName = "g"]}
====
