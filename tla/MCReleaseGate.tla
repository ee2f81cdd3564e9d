--------------------------- MODULE MCReleaseGate ----------------------------
(***************************************************************************)
(* Files in every kind of directory: source, caches and build output in and *)
(* outside src and inside each other, run dirs at the root, below src and   *)
(* outside the repository, an environment, a directory named like a label,  *)
(* files named like build output and like a cache.  "runs" may be a link    *)
(* out of the repository or into it.                                        *)
(*                                                                         *)
(* At the start: one file with a secret, or a source file that is empty or  *)
(* undecodable, and other programs put a second one beside it or remove it; *)
(* or a source file with any line of up to three tokens, two allowed forms, *)
(* or any two lines of what the guard tells apart.                          *)
(***************************************************************************)
EXTENDS ReleaseGate

In(dirs, name) == <<"repo">> \o Append(dirs, name)

MCSource == In(<<"src">>, "a")
MCPaths ==
  {MCSource, LocalPatternFile, In(<<>>, "quoted"), In(<<>>, ".env"),
   In(<<"src", "__pycache__">>, "a"), In(<<"scripts", "__pycache__">>, "a"),
   In(<<"build">>, "a"), In(<<"src", "pkg", "build">>, "a"), In(<<"src", "build", "dist">>, "a"),
   In(<<"scripts", "dist">>, "a"), In(<<"scripts">>, "build"), In(<<>>, ".mypy_cache"),
   In(<<"runs">>, "a"), In(<<"src", "runs">>, "a"), In(<<".venv">>, "a"),
   In(<<"aitw", "runs">>, "a"), In(<<"scripts">>, "label_scan.py"),
   <<"home", "runs", "a">>}
MCQuoted == {In(<<>>, "quoted")}

MCWorkDirs == {<<"repo">>, <<"repo", "src">>, <<"home">>}
MCNames ==
  {"runs", "workspaces"} \union UNION {ToSet(path) : path \in MCPaths \union MCWorkDirs}

MCSecret == <<<<"value">>>>
MCWritten == {MCSecret}

NoFiles == [p \in MCPaths |-> Absent]
MCSimple ==
  {[NoFiles EXCEPT ![p] = MCSecret] : p \in MCPaths}
    \union {[NoFiles EXCEPT ![MCSource] = c] : c \in {<<>>, Undecodable}}

MCLine == UNION {[1..n -> {"aitw", "canary", "import", ".tools"}] : n \in 0..3}
MCForms == {f \o g : f, g \in AllowedForms}
MCGuardLine(length) == [1..length -> {"assignment", "environ", "codename", "marker"}]
MCTexts ==
  {<<line>> : line \in MCLine \union MCForms}
    \union {<<first, second>> : first \in MCGuardLine(2), second \in MCGuardLine(1)}
MCTextTrees ==
  {[NoFiles EXCEPT ![MCSource] = text, ![LocalPatternFile] = local] :
     text \in MCTexts, local \in {<<>>, <<<<"codename">>>>, Absent}}
    \union {[NoFiles EXCEPT ![In(<<"scripts">>, "label_scan.py")] = <<<<"canary">>>>],
            [NoFiles EXCEPT ![LocalPatternFile] = <<<<"malformed">>>>]}

MCStartTrees == MCSimple \union MCTextTrees

MCLinks ==
  {[dir \in {} |-> Root], [dir \in {<<"repo", "runs">>} |-> <<"home", "runs">>],
   [dir \in {<<"repo", "runs">>} |-> <<"repo", "src", "runs">>]}

(* Lines are told apart by the scans alone: such a tree is neither linked   *)
(* nor edited.                                                              *)
MCFew ==
  \/ \A p \in MCPaths : tree[p] \in MCWritten \union {<<>>, Undecodable, Absent}
  \/ edits = 0 /\ DOMAIN links = {}
=============================================================================
