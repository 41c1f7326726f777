----------------------------- MODULE MCHandlers -----------------------------
(* Messages of up to three pieces: the prefix, spaces, a keyword, the bot's  *)
(* name and mentions, in both cases where that matters.                      *)
EXTENDS Handlers

CONSTANT MaxPieces

MCChars == {".", " ", "b", "B", "o", "x", "X", "@", "!", "1", "2"}
LowerCase == [c \in MCChars |-> CASE c = "B" -> "b" [] c = "X" -> "x" [] OTHER -> c]

MCLower    == LowerCase
MCBotName  == <<"b", "o">>
MCMentions == ("user" :> <<<<"@", "1">>, <<"@", "!", "1">>>>)
              @@ ("bot" :> <<<<"@", "2">>, <<"@", "!", "2">>>>)
MCNames    == ("user" :> <<"o", "x", "o">>) @@ ("bot" :> MCBotName)
MCKeywords == {<<"x">>, <<"o", "x">>, <<"b">>, <<"X">>}

\* Every order of every set of the modules that handle slash commands; for
\* messages, of spotify and reactions, around the manager, which is always there.
MCHandlerLists ==
  [e \in DOMAIN Attaching |->
     CASE e = "OnMessage" -> {<<"spotify", "reactions", "mmanager">>,
                              <<"reactions", "mmanager", "spotify">>,
                              <<"mmanager", "spotify", "reactions">>,
                              <<"mmanager">>}
       [] e = "OnCommand" -> {<<>>, <<"spotify">>}
       [] OTHER           -> UNION {SetToSeqs(S) : S \in SUBSET Attaching[e]}]

Pieces == {<<".">>, <<" ">>, <<"X">>, MCBotName, <<"B", "o">>, <<"@", "1">>,
           <<"@", "!", "1">>, <<"@", "2">>}

\* Discord sends no blanks at either end.
Contents ==
  {c \in {FlattenSeq(p) : p \in UNION {[1 .. n -> Pieces] : n \in 0 .. MaxPieces}} :
     trim(c) = c}

\* Discord lists a message's mentions, in any order, and those of a reply.
MentionLists(content) ==
  {m \in {<<>>, <<"user">>, <<"bot">>, <<"user", "bot">>, <<"bot", "user">>} :
     \A u \in Users : (\E f \in {1, 2} : find(content, MCMentions[u][f], 0) # npos)
                        => Contains(m, u)}

Written == UNION {{<<c, m>> : m \in MentionLists(c)} : c \in Contents}

AllMessages ==
  {[author |-> "user", content |-> w[1], mentions |-> w[2]] : w \in Written}
    \cup {[author |-> a, content |-> <<"X">>, mentions |-> <<>>] : a \in {"none", "me", "bot"}}

\* TLC evaluates a definition once, but what replaces a constant every time.
MCMessages == AllMessages

ASSUME MessagesAssumption == DiscordTrims /\ NamesApart

MCCommands ==
  [name : {"stoplight"}, sub : {"start", "stop", "shots"}, member : {TRUE}, roles : {<<>>}]
    \cup [name : {"mailalert"}, sub : {""}, member : {TRUE, FALSE},
          roles : {<<>>, <<"guest">>, <<"guest", "resident">>, <<"resident", "guest">>}]
    \cup [name : {"ldap", "other"}, sub : {""}, member : {TRUE}, roles : {<<>>}]

=============================================================================
