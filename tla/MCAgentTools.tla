---------------------------- MODULE MCAgentTools ----------------------------
(***************************************************************************)
(* AgentTools with two processes, of which one owns an MCP client with two *)
(* servers; a text file, a binary one and a folder, of which the user may  *)
(* make the text file one that is longer than MAX_BYTES; two skill ids and *)
(* two branches with two commits each.                                     *)
(***************************************************************************)
EXTENDS AgentTools

Package(tree, flaw, verdict, agent) ==
    [tree |-> tree, flaw |-> flaw, verdict |-> verdict, agent |-> agent]

First == Package("first", "none", "safe", TRUE)
Second == Package("second", "none", "caution", TRUE)
Legacy == Package("legacy", "none", "safe", FALSE)
Injection == Package("injection", "none", "dangerous", TRUE)
NoManifest == Package("nomanifest", "invalid", "safe", TRUE)
Symlink == Package("symlink", "unsafe", "safe", TRUE)

MCPackages == {First, Second, Legacy, Injection, NoManifest, Symlink}

MCCommits == [s \in {"main", "fork"} |-> IF s = "main" THEN {"c1", "c2"} ELSE {"c3", "c4"}]
MCPackageAt ==
    [c \in {"c1", "c2", "c3", "c4"} |->
        IF c = "c1" THEN First ELSE IF c = "c2" THEN Second
        ELSE IF c = "c3" THEN First ELSE Legacy]

MCServers == <<"m1", "m2">>

Schema(names, required, additional) ==
    [known |-> TRUE, properties |-> [n \in names |-> "string"],
     required |-> required, additional |-> additional]

MCMcpSchemas ==
    {Schema({"query"}, {}, TRUE), [Schema({"query"}, {}, TRUE) EXCEPT !.known = FALSE]}

Tool(name, schema, permission) ==
    [name |-> name, permission |-> permission, readOnly |-> permission = "safe",
     sideEffects |-> permission = "confirm", outboxRequired |-> permission = "confirm",
     schema |-> schema]

MCBuiltins ==
    {Tool("read_file", Schema({"path"}, {"path"}, TRUE), "safe"),
     Tool("write_file", Schema({"path", "content"}, {"path", "content"}, TRUE), "confirm"),
     Tool("install_skill", Schema({"source_path", "skill_id"}, {"source_path", "skill_id"}, TRUE),
          "confirm"),
     Tool("install_github_skill", Schema({"source", "skill_id"}, {"source", "skill_id"}, TRUE),
          "confirm")}

Strings(names) == [n \in names |-> "string"]

Read(f) == [tool |-> "read_file", args |-> Strings({"path"}), file |-> f]
Write(f, text) ==
    [tool |-> "write_file", args |-> Strings({"path", "content"}), file |-> f, text |-> text]
Install(id, pkg) ==
    [tool |-> "install_skill", args |-> Strings({"source_path", "skill_id"}),
     target |-> id, pkg |-> pkg]
InstallGitHub(id, source) ==
    [tool |-> "install_github_skill", args |-> Strings({"source", "skill_id"}),
     target |-> id, source |-> source]
AskMcp(s) == [tool |-> "mcp", args |-> Strings({"query"}), target |-> s]

MCInitialFiles ==
    {[f \in {"f", "logo", "src"} |->
        IF f = "f" THEN "x" ELSE IF f = "logo" THEN Binary ELSE Folder]}

MCCalls ==
    {Read("f"), Read("logo"), Read("src"), Read("../f"),
     Write("f", "x"), Write("f", "y"), Write("f", "log"),
     Write("logo", "x"), Write("src", "x"), Write("../f", "x"),
     Install("a", First), Install("a", Second), Install("a", Injection),
     Install("a", NoManifest), Install("a", Symlink), Install("A!", First),
     Install("a", Outside), InstallGitHub("b", "gist"),
     InstallGitHub("a", "main"), InstallGitHub("a", "fork"), InstallGitHub("b", "fork"),
     AskMcp("m1"), AskMcp("m2"),
     [Read("f") EXCEPT !.args = [path |-> "integer"]],
     [Read("f") EXCEPT !.tool = "delete_file"]}
=============================================================================
