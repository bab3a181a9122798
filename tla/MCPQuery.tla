------------------------------ MODULE MCPQuery ------------------------------
(* The configuration files TLC reads: every line of up to MaxLine symbols,  *)
(* every sequence of up to MaxBlocks of the blocks below, and a section with *)
(* up to MaxSettings of the settings below.                                 *)
EXTENDS PQuery

CONSTANTS MaxLine,    \* bound: the length of a line alone in its file
          MaxBlocks,  \* bound: the blocks of a file
          MaxSettings \* bound: the settings of a section alone in its file

MCDigits ==
  "0" :> 0 @@ "1" :> 1 @@ "63" :> 63 @@ "64" :> 64 @@ "65535" :> 65535
  @@ "65536" :> 65536 @@ "131071" :> 131071 @@ "131072" :> 131072
  @@ "129" :> 129

Symbols == {" ", "\r", "[", "]", "=", ";", "-", "word"}

Set(key, value) == <<key, " ", "=", " ">> \o value

\* Headers and settings that are good or bad in one way each.
Blocks ==
  {<<<<"[", "a", "]">>, Set("run", <<"Yes">>)>>,
   <<<<" ", "[", "b", "]">>, <<"run", "\t", "=", "1">>>>,
   <<<<"[", "a", "]">>>>,
   <<<<"[", "c", "]">>, Set("run", <<"ON">>), Set("dbtype", <<"PostgreSQL">>)>>,
   <<<<"[", "Master", "]">>, Set("run", <<"yes">>), Set("threads", <<"1">>)>>,
   <<<<"\t", "#", "word">>, <<>>, <<"word">>>>,
   <<Set("run", <<"no">>)>>,
   <<Set("infiletype", <<"GENLOG">>)>>,
   <<Set("log-succeeded-queries", <<"Yes">>)>>}

\* A type that is unknown, and numbers at a limit, with a multiplier, that
\* overflow, or that are no value.
Settings ==
  {Set("dbtype", <<"word">>),
   Set("threads", <<"0">>),
   Set("port", <<"65536">>),
   Set("threads", <<"65535">>),
   Set("timeout", <<"131071">>),
   Set("connect-timeout", <<"131072">>),
   Set("queries-per-thread", <<"63", "T">>),
   Set("queries-per-thread", <<"64", "T">>),
   Set("queries-per-thread", <<"129", "t">>),
   Set("threads", <<"-", "1">>),
   Set("threads", <<"+", "1", " ", "K", "word">>),
   Set("threads", <<"1", "word">>),
   Set("threads", <<"1", " ", " ", "K">>)}

Chosen(S, n) == UNION {[1..k -> S] : k \in 0..n}

MCFiles == {<<line>> : line \in Chosen(Symbols, MaxLine)}
           \cup {FlattenSeq(blocks) : blocks \in Chosen(Blocks, MaxBlocks)}
           \cup {<<<<"[", "a", "]">>, Set("run", <<"yes">>)>> \o settings :
                   settings \in Chosen(Settings, MaxSettings)}

MCBuilds == {{"eMYSQL"}, {"eMYSQL", "ePGSQL"}}
=============================================================================
