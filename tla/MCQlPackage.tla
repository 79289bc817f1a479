---------------------------- MODULE MCQlPackage ----------------------------
(* Archives of up to three entries: folders, configurations, names that meet *)
(* on the QL, files of no, one and two blocks, every fault of an entry, and   *)
(* names that the QL cannot write, in what it sees of them and elsewhere.     *)
EXTENDS QlPackage

MCLowerCase == [part \in {"boot", "a", "game", "foreign", "/", ".", "_", ".qcf", ".zip", ".qlpak",
                          "flp", "mdv", "fl"} |-> part]
               @@ [part \in {"BOOT", "GAME", "FLP", ".ZIP"} |->
                      CASE part = "BOOT" -> "boot" [] part = "GAME" -> "game"
                        [] part = "FLP" -> "flp"   [] part = ".ZIP" -> ".zip"]

Plain == [size |-> 0, fault |-> "none", bytes |-> <<>>, inline |-> <<>>, extra |-> <<>>,
          localExtra |-> <<>>, config |-> [root |-> <<>>, device |-> "flp"]]

File(path, bytes) == [path |-> path, size |-> Len(bytes)] @@ [bytes |-> bytes] @@ Plain

References == <<<<"device", "FLP", 1>>, <<"device", "mdv", 1>>, <<"device", "flp", 2>>>>
Text(n)    == [i \in 1 .. n |-> <<"text", i, 0>>]

MCConfigs ==
    {[File(<<"game", ".qcf">>, Text(1)) EXCEPT !.config = [root |-> root, device |-> device]] :
        root \in {<<>>, <<"GAME">>, <<"/", "game", "/">>}, device \in {"FLP", "mdv", "fl"}}

MCFiles ==
    {File(<<"game", "/", "boot">>, References), File(<<"BOOT">>, References),
     File(<<"game", "/", "a">>, References), File(<<"game", ".", "a">>, Text(3)),
     File(<<"game", "_", "a", "a">>, Text(6)), File(<<"a">>, <<>>),
     File(<<"game", "/", "a", "/">>, <<>>)}

\* Foreign in its name on the QL, behind the end of that name, and in a folder that the
\* QL sees or that is not of the package; a configuration; a folder.
MCForeign ==
    {File(<<"game", "/", "foreign">>, Text(1)), File(<<"game", "_", "a", "foreign">>, Text(1)),
     File(<<"foreign", "/", "a">>, Text(1)), File(<<"foreign", ".qcf">>, Text(1)),
     File(<<"foreign", "/">>, <<>>)}

MCMarked ==
    {[File(<<"a">>, Text(1)) EXCEPT !.extra = extra, !.localExtra = local, !.inline = inline] :
        extra \in {<<>>, [program |-> 1, dates |-> 1]},
        local \in {<<>>, [program |-> 2, dates |-> 2]},
        inline \in {<<>>, [valid |-> TRUE, program |-> 3], [valid |-> FALSE, program |-> 3]}}

MCFaulty ==
    {[File(<<"game", "/", "boot">>, Text(1)) EXCEPT !.fault = fault] :
        fault \in {"central", "encrypted", "zip64", "truncated entry", "charset", "unsafe path",
                   "local", "truncated data", "method", "inflate", "integrity"}}

Ends == {[found |-> TRUE, volumes |-> FALSE, truncated |-> FALSE],
         [found |-> FALSE, volumes |-> FALSE, truncated |-> FALSE],
         [found |-> TRUE, volumes |-> TRUE, truncated |-> FALSE],
         [found |-> TRUE, volumes |-> FALSE, truncated |-> TRUE]}

Sound == [found |-> TRUE, volumes |-> FALSE, truncated |-> FALSE]

Contents ==
    {<<>>}
    \cup {<<config>> \o <<f, g>> : config \in MCConfigs, f \in MCFiles, g \in MCFiles}
    \cup {<<config>> \o <<f, g>> : config \in MCConfigs, f \in MCFiles, g \in MCForeign}
    \cup {<<f, g>> : f \in MCFiles, g \in MCFiles \cup MCFaulty \cup MCMarked \cup MCForeign}
    \cup {<<f, g, h>> : f \in MCFiles, g \in MCFiles, h \in MCFiles}
    \cup {SetToSeq(some) : some \in kSubset(4, MCFiles)}
    \cup {SetToSeq(MCFiles)}

\* Names of the file of the package: foreign in front, behind the end of the name of the
\* medium, and nothing but the extension.
MCPackageNames ==
    {<<"foreign", ".qlpak">>, <<"game", "foreign">>, <<"game", "a", "foreign", ".ZIP">>,
     <<".zip">>, <<>>}

MCArchives ==
    LET One == [entries |-> <<File(<<"a">>, Text(1))>>]
        Named(packageName) == [name |-> packageName]
        Usual == Named(<<"game", ".zip">>)
    IN  {Sound @@ Usual @@ [entries |-> c] : c \in Contents}
        \cup {end @@ Usual @@ One : end \in Ends}
        \cup {Sound @@ Named(packageName) @@ One : packageName \in MCPackageNames}
=============================================================================
