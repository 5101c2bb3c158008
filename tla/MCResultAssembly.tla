-------------------------- MODULE MCResultAssembly --------------------------
(* Instances of ResultAssembly for TLC. *)
EXTENDS ResultAssembly, TLC

Entry(id, task) == [id |-> id, task |-> task]
MCManifest == <<Entry("base", "all"), Entry("api", "all"), Entry("db", "all"),
                Entry("null", "nullable-patch"), Entry("lock", "optimistic-locking")>>
MCKind == ("base" :> "baseline") @@ ("api" :> "api") @@ ("db" :> "database")
          @@ ("null" :> "nullable-patch") @@ ("lock" :> "optimistic-locking") @@ ("new" :> "baseline")
MCRegistries ==
    {MCManifest, Tail(MCManifest), SubSeq(MCManifest, 1, 4), Append(MCManifest, Entry("new", "all")),
     Append(MCManifest, MCManifest[2]), [MCManifest EXCEPT ![1] = MCManifest[2]],
     [MCManifest EXCEPT ![1].task = "optimistic-locking"],
     [MCManifest EXCEPT ![4].task = "optimistic-locking"]}

Cell(task, mode, treatment) == [task |-> task, mode |-> mode, treatment |-> treatment]
MCCells == {Cell("baseline-service", "greenfield", "direct"),
            Cell("nullable-patch", "full-workflow", "codegen"),
            Cell("nullable-patch", "propagation-only", "direct")}

Files == ("api" :> "target") @@ ("queries" :> "target") @@ ("m1" :> "base") @@ ("m2" :> "target")
Line(p, c) == [path |-> p, content |-> c]
Exact == <<Line("api", "target"), Line("m1", "base"), Line("m2", "target"), Line("queries", "target")>>
Plain(tree, lines) ==
    [exists |-> TRUE, files |-> tree, declared |-> lines,
     migration |-> [p \in DOMAIN tree |-> p \in {"m1", "m2", "m3"}],
     hidden |-> [p \in DOMAIN tree |-> p = ".cache/x"]]
MCWorkspaces ==
    {Plain(Files, Exact), Plain(Files, Tail(Exact)), Plain(Files, <<>>),
     Plain([Files EXCEPT !["m2"] = "edited"], Exact), Plain(Files, Append(Exact, Exact[1])),
     Plain([Files EXCEPT !["api"] = "unparseable"], Exact),
     Plain(Files @@ (".cache/x" :> "binary"), Exact),
     [Plain(<<>>, <<>>) EXCEPT !.exists = FALSE]}
MCTargetFiles == ("api" :> "target") @@ ("queries" :> "target") @@ ("m2" :> "target")

=============================================================================
