------------------------- MODULE MCContextResolver -------------------------
(* Three files, one of them also spelled with a leading slash, a path of    *)
(* slashes, texts of up to four characters and limits of up to three files  *)
(* and five characters.                                                     *)
EXTENDS ContextResolver

FileNames == {"a", "b", "c"}
Spellings == FileNames \cup {"/a", "/"}
Stripped == [a |-> "a", b |-> "b", c |-> "c"] @@ ("/a" :> "a") @@ ("/" :> "")

SmallRequests ==
    [enabled : {TRUE}, includeArtifact : BOOLEAN, includePromptFiles : BOOLEAN,
     maxFiles : 0 .. 3, maxChars : {0, 3, 5}, artifact : {0, 2, 4},
     size : [FileNames -> {0, 1, 4}],
     promptFiles : {<<"c">>}, alwaysInclude : {<<>>, <<"/a", "/">>},
     extraPaths : {<<>>, <<"b">>}, globbed : {<<>>, <<"a", "b">>}]
    \cup
    [enabled : {FALSE}, includeArtifact : {TRUE}, includePromptFiles : {TRUE},
     maxFiles : {3}, maxChars : {5}, artifact : {2}, size : [FileNames -> {1}],
     promptFiles : {<<"c">>}, alwaysInclude : {<<"a">>},
     extraPaths : {<<>>}, globbed : {<<>>}]
=============================================================================
