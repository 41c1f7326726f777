----------------------------- MODULE MCStartup ------------------------------
(* Two settings, of which a row may be missing or stored twice, in databases *)
(* that each earlier set of migrations left behind.                          *)
EXTENDS Startup

MCConfig  == <<"reactions", "spotify", "mmanager">>
MCDefault == [account |-> "1", device |-> ""]

Rows(seqs) == [Settings -> seqs]

MCDatabases ==
  LET none == {<<>>}
      one  == {<<>>, <<"2">>}
      two  == one \cup {<<"2", "1">>}
  IN  [schema : {{}, {"spotify"}}, rows : Rows(none)]
        \cup [schema : {{"spotify", "bot_state"}}, rows : Rows(two)]
        \cup [schema : {Full}, rows : Rows(one)]

=============================================================================
