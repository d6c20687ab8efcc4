------------------------------ MODULE MCCalls ------------------------------
(* A small instance of Calls for TLC. *)
EXTENDS Calls

\* notify: what may be wrong with a request, in its base or in a patch.
Plain == [f \in Fields |-> IF f = "title" THEN "Hello" ELSE None]
Nothing == [f \in Fields |-> None]

MCBases ==
    {Plain,
     [Plain EXCEPT !["title"] = "blank"],
     [Plain EXCEPT !["content"] = "newline", !["icon"] = "abc", !["useBase64Icon"] = "on"],
     [Plain EXCEPT !["sourceApp"] = "control", !["volume"] = "infinite"]}

MCPatches ==
    {None,
     [Nothing EXCEPT !["title"] = "Other", !["sound"] = "on", !["timeoutSecs"] = "instant"],
     [Nothing EXCEPT !["height"] = "zero"],
     [Nothing EXCEPT !["content"] = "huge", !["timeoutSecs"] = "zero"]}

MCSinkLists ==
    {None, <<>>, <<"wayvr">>, <<"freedesktop", "wayvr">>, <<"wayvr", "wayvr">>,
     <<"">>, <<"wayvr", "freedesktop", "wayvr">>}

MCSinkSets == {<<>>, <<"wayvr">>, <<"wayvr", "freedesktop">>, <<"freedesktop", "wayvr">>}

-----------------------------------------------------------------------------
\* sql: results about both caps, and a scan that yields nothing and never ends.
Query == [method |-> "query", shape |-> "fits", database |-> "known",
          sql |-> <<"word", "end", "space">>, statement |-> "reads", bindable |-> TRUE,
          result |-> <<>>, endless |-> FALSE]

MCQueries ==
    {[Query EXCEPT !.result = r] :
        r \in {<<>>, <<1, 1>>, <<1, 2>>, <<2, 2>>, <<1, 1, 1>>, <<1>>}}
    \cup {[Query EXCEPT !.endless = TRUE, !.result = r] : r \in {<<>>, <<1>>}}
    \cup {[Query EXCEPT !.shape = "not a request"], [Query EXCEPT !.shape = "many parameters"],
          [Query EXCEPT !.database = "unknown"], [Query EXCEPT !.method = "execute"],
          [Query EXCEPT !.sql = <<"word", "end", "word">>],
          [Query EXCEPT !.sql = <<"word", "end", "quoted", "comment">>],
          [Query EXCEPT !.statement = "wrong"], [Query EXCEPT !.statement = "writes"],
          [Query EXCEPT !.bindable = FALSE]}

-----------------------------------------------------------------------------
\* outbound: addresses at the edges of the ranges.
V4(first, second) == [form |-> "v4", first |-> first, second |-> second]
V6(segment) == [form |-> "v6", first |-> segment, second |-> 0]

MCAddresses ==
    {V4(9, 255), V4(10, 0), V4(11, 0), V4(0, 0), V4(127, 1), V4(100, 63), V4(100, 64),
     V4(100, 127), V4(100, 128), V4(169, 254), V4(172, 15), V4(172, 16), V4(172, 31),
     V4(172, 32), V4(192, 168), V4(223, 255), V4(224, 0), V4(255, 255),
     [form |-> "mapped", first |-> 10, second |-> 0],
     [form |-> "nat64", first |-> 8, second |-> 8],
     [form |-> "compatible", first |-> 0, second |-> 0],
     V6(8193), V6(64511), V6(64512), V6(65023), V6(65024), V6(65151), V6(65152),
     V6(65215), V6(65216), V6(65279), V6(65280), V6(65535)}

MCLookups ==
    {{}, {V4(10, 0)}, {V4(9, 255), V4(10, 0)}, {V4(9, 255), V6(8193)},
     {V6(64512), V6(8193), V4(127, 1)}}

MCHeaderLists ==
    {<<>>, <<"plain">>, <<"plain", "credential">>, <<"connection">>, <<"malformed">>,
     <<"plain", "plain", "plain">>}

-----------------------------------------------------------------------------
\* intake: trees that differ from a good one in one thing.
Line(imports, words) ==
    [length |-> 1, marks |-> {}, imports |-> imports, words |-> words, script |-> FALSE]
Import(kind, to) == [kind |-> kind, to |-> to]
Occurs(matcher, left, right) == [matcher |-> matcher, left |-> left, right |-> right]

Good == Line({}, {Occurs("word", "dot", "("), Occurs("bare", "glued", "free"),
                  Occurs("member", "free", "glued"), Occurs("windowAlias", "free", ".other"),
                  Occurs("htmlAssign", "dot", "=="), Occurs("stringTimer", "free", "free"),
                  Occurs("dynamicImport", "free", "quote"),
                  Occurs("activeElement", "dot", "quote")})

MCLineOf ==
    [good |-> Good, blank |-> [Good EXCEPT !.length = 0],
     other |-> Line({}, {}), NUL |-> Line({}, {}),
     useLib |-> Line({Import("relative", <<"lib", "a">>)}, {}),
     useDir |-> Line({Import("relative", <<"lib">>)}, {}),
     useMain |-> Line({Import("relative", <<"..", "main.ts">>)}, {}),
     useUp |-> Line({Import("relative", <<"..">>)}, {}),
     useAlias |-> Line({Import("bare", <<"alias">>)}, {}),
     useTest |-> Line({Import("relative", <<"main.test">>)}, {}),
     useConfig |-> Line({Import("relative", <<"eslint.config.js">>)}, {}),
     useShort |-> Line({Import("relative", <<"eslint.config">>)}, {}),
     useTool |-> Line({Import("relative", <<"scripts", "sign-plugin.mjs">>)}, {}),
     useAbove |-> Line({Import("relative", <<"..", "main.ts">>)}, {}),
     useRoot |-> Line({Import("absolute", <<"main.ts">>)}, {}),
     mapLib |-> Line({Import("relative", <<"lib", "a.ts">>)}, {}),
     mapConfig |-> Line({Import("relative", <<"eslint.config.js">>)}, {}),
     mapShort |-> Line({Import("relative", <<"eslint.config">>)}, {}),
     runTool |-> [Line({Import("relative", <<"scripts", "sign-plugin.mjs">>)}, {})
                     EXCEPT !.script = TRUE],
     broken |-> [Good EXCEPT !.marks = {"broken"}],
     eval |-> Line({}, {Occurs("word", "free", "(")}),
     anywhere |-> Line({}, {Occurs("anywhere", "glued", "glued")}),
     storage |-> Line({}, {Occurs("member", "dot", "free")}),
     bundle |-> [Good EXCEPT !.length = 4],
     hidden |-> [Good EXCEPT !.marks = {"invisible"}],
     wide |-> [Good EXCEPT !.length = 3]]
    @@ "package.json" :> Line({}, {})

\* Every name that a path or an import ends in, and what the bundler makes of it.
Names == {"main.ts", "a.ts", "index.ts", "main.test.ts", "eslint.config.js", "sign-plugin.mjs",
          "package.json", "tsconfig.json", "icon.svg", "a", "lib", "..", "alias", "main.test",
          "eslint.config"}
MCWithTs == [n \in Names |-> n \o ".ts"]
MCTried == [n \in Names |-> {n, n \o ".ts", n \o ".js"}]
MCIndex == {"index.ts"}

MCKindOf ==
    LET names == UNION {MCTried[n] : n \in Names}
        kinds == "main.ts" :> "source" @@ "a.ts" :> "source" @@ "index.ts" :> "source"
                 @@ "main.test.ts" :> "test" @@ "main.test.js" :> "test"
                 @@ "main.test.ts.ts" :> "test" @@ "main.test.ts.js" :> "test"
                 @@ "eslint.config.js" :> "source" @@ "sign-plugin.mjs" :> "source"
                 @@ "package.json" :> "json" @@ "tsconfig.json" :> "json"
    IN  [n \in names |-> IF n \in DOMAIN kinds THEN kinds[n] ELSE "other"]

Main == <<"main.ts">>
LibA == <<"lib", "a.ts">>
MCPaths ==
    <<<<"eslint.config.js">>, <<"icon.svg">>, LibA, <<"lib", "index.ts">>, <<"main.test.ts">>, Main,
      <<"package.json">>, <<"scripts", "sign-plugin.mjs">>, <<"tsconfig.json">>>>

Tools ==
    <<"eslint.config.js">> :> <<"eval">> @@ <<"scripts", "sign-plugin.mjs">> :> <<"eval">>
    @@ <<"main.test.ts">> :> <<"eval">> @@ <<"icon.svg">> :> <<"bundle">>

FileSets ==
    {Main :> <<"good", "useLib">> @@ LibA :> <<"useMain">>,
     Main :> <<"useAlias">> @@ LibA :> <<"good">> @@ <<"package.json">> :> <<"mapLib", "runTool">>,
     Main :> <<"useDir">> @@ <<"lib", "index.ts">> :> <<"useUp">>,
     Main :> <<"useAlias">> @@ <<"tsconfig.json">> :> <<"mapConfig">> @@ Tools,
     Main :> <<"useAlias">> @@ <<"package.json">> :> <<"mapShort">> @@ Tools,
     Main :> <<"useAlias">> @@ <<"package.json">> :> <<"broken", "runTool">> @@ Tools,
     Main :> <<"useAlias">> @@ <<"tsconfig.json">> :> <<"runTool">> @@ Tools,
     Main :> <<"good", "blank">> @@ Tools, LibA :> <<"good">>,
     \* The same bytes, but for where one file ends and the next begins.
     Main :> <<"good">> @@ <<"package.json">> :> <<"mapLib">>,
     Main :> <<"good", "package.json", "NUL", "mapLib">>}
    \cup {Main :> <<l>> @@ LibA :> <<"good">> @@ Tools :
             l \in {"useTest", "useConfig", "useShort", "useTool", "useAbove", "useRoot", "eval", "anywhere",
                    "storage", "bundle", "hidden"}}
    \cup {Main :> <<"wide", "wide">>, Main :> <<"good", "good", "good", "good", "good", "good", "good", "good">>}

Manifest ==
    [given |-> "well-formed", id |-> "p", texts |-> {"fine"}, version |-> <<"1", "0", "2">>,
     api |-> <<<<"0", "2", "0">>, <<"0", "4", "0">>>>,
     lists |-> [tags |-> <<"a", "b">>, hosts |-> <<"h">>, dependencies |-> <<"q">>]]

Manifests ==
    {[Manifest EXCEPT !.given = "absent"], [Manifest EXCEPT !.given = "not json"],
     [Manifest EXCEPT !.id = "malformed"], [Manifest EXCEPT !.texts = {"fine", "control"}],
     [Manifest EXCEPT !.version = <<"1", "01", "0">>], [Manifest EXCEPT !.api = <<>>],
     [Manifest EXCEPT !.lists["tags"] = <<"a", "b", "c">>],
     [Manifest EXCEPT !.lists["tags"] = <<"a", "a">>],
     [Manifest EXCEPT !.lists["hosts"] = <<"unaccepted">>],
     [Manifest EXCEPT !.lists["dependencies"] = <<"p">>]}

SignedFor(id, files) ==
    [given |-> "well-formed", id |-> id, digestOf |-> files, madeFor |-> id, madeOver |-> files]

Tree(manifest, files, sig) == [manifest |-> manifest, files |-> files, links |-> FALSE, sig |-> sig]

Usual == Main :> <<"good">>

UsualTree == Tree(Manifest, Usual, SignedFor("p", Usual))

MCTrees ==
    {UsualTree}
    \cup {Tree(m, Usual, SignedFor("p", Usual)) : m \in Manifests}
    \cup {Tree(Manifest, f, SignedFor("p", g)) : f, g \in FileSets}
    \cup {[UsualTree EXCEPT !.links = TRUE]}
    \cup {Tree(Manifest, Usual, s) :
             s \in {SignedFor("q", Usual), [SignedFor("p", Usual) EXCEPT !.given = "missing"],
                    [SignedFor("q", Usual) EXCEPT !.id = "p"],
                    [SignedFor("p", Main :> <<"other">>) EXCEPT !.digestOf = Usual]}}

\* A branch of four commits, and one that was made in place of the last three.
MCHistory == (1 :> <<1>>) @@ (2 :> <<2, 1>>) @@ (3 :> <<3, 2, 1>>) @@ (4 :> <<4, 3, 2, 1>>)
             @@ (5 :> <<5, 1>>)

\* Updates of one plugin are enough.
MCBranchAt ==
    [t \in MCTrees |-> IF t = UsualTree THEN DOMAIN MCHistory ELSE {1}]

MCMaxEntries == [tags |-> 2, hosts |-> 1, dependencies |-> 1]

=============================================================================
