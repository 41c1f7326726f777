------------------------------ MODULE Handlers ------------------------------
(***************************************************************************)
(* What happens to one Discord event after another in a shard thread:      *)
(* Bot::onMessage cleans or tokenises a message and hands it to the        *)
(* modules, Bot::onSlashCommand and the other forwarding handlers hand     *)
(* theirs on as they are, and the reactions, stoplight, mail and ldap      *)
(* modules act on them.  A dispatch finds any of the lists the loader may  *)
(* have by then.  What other threads do to lists and modules while it runs *)
(* is ModuleLoader's subject, what spotify does Spotify's: here spotify    *)
(* and mmanager return, fail or throw.                                     *)
(***************************************************************************)
EXTENDS Text

CONSTANTS
  Prefix,      \* the character that starts a command; no message starts with a blank
  BotName,     \* user.username: a bot's name is never empty
  Mentions,    \* per user, the texts "<@id>" and "<@!id>"
  Names,       \* per user, the username
  Me,          \* the bot's user
  Keywords,    \* reactionMap: the keywords, each with its reaction
  Resident,    \* the role mail looks for
  HandlerLists,\* per event, the lists EventHandlers may hold when it comes
  Returns,     \* how spotify's and mmanager's handlers can end
  Messages,    \* messages that may arrive: [author, content, mentions]
  Commands     \* slash commands: [name, sub, member, roles]

Users   == DOMAIN Names
Authors == {"none", "me", "bot", "user"}

\* The other events main binds a handler of Bot to.
Forwarded == {"OnReady", "OnMessageReactionAdd", "OnFormSubmit"}

ASSUME HandlersAssumption ==
  /\ Prefix \in Chars \ {Space}
  /\ BotName \in Seq(Chars) \ {<<>>}
  /\ Names \in [Users -> Seq(Chars)]
  /\ Mentions \in [Users -> (Seq(Chars) \ {<<>>}) \X (Seq(Chars) \ {<<>>})]
  /\ Keywords \subseteq Seq(Chars) \ {<<>>}
  /\ Returns \subseteq {"true", "false", "throw"}
  /\ Messages \subseteq [author : Authors, content : Seq(Chars), mentions : Seq(Users)]
  /\ Commands \subseteq [name : STRING, sub : STRING, member : BOOLEAN, roles : Seq(STRING)]

\* The modules with a constructor that attaches to an event: which of them are
\* loaded, in which order, and whether ldap's constructor got as far as that
\* (it returns early without a server) is not known.
Attaching ==
  [e \in {"OnMessage", "OnCommand", "OnSlashCommand"} \cup Forwarded |->
     CASE e = "OnMessage"      -> {"spotify", "reactions", "mmanager"}
       [] e = "OnCommand"      -> {"spotify"}
       [] e = "OnSlashCommand" -> {"stoplight", "mail", "ldap"}
       [] e = "OnReady"        -> {"mmanager"}
       [] OTHER                -> {}]

\* attach puts a module into a list once.
ASSUME HandlerListsAssumption ==
  /\ DOMAIN HandlerLists = DOMAIN Attaching
  /\ \A e \in DOMAIN Attaching : \A list \in HandlerLists[e] :
       list \in Seq(Attaching[e]) /\ IsInjective(list)

\* What Discord sends: contents and usernames with no blank at either end.
DiscordTrims ==
  /\ \A m \in Messages : trim(m.content) = m.content
  /\ \A u \in Users : trim(Names[u]) = Names[u]

\* Usernames have neither the first nor the last character of a mention, and
\* some character that is in no mention: they have a letter and no brackets.
NamesApart ==
  \A u, v \in Users : \A f \in {1, 2} :
    LET mention == lowercase(Mentions[u][f])
        name    == lowercase(Names[v])
    IN  /\ {mention[1], Last(mention)} \cap Range(name) = {}
        /\ ~(Range(name) \subseteq Range(mention))

VARIABLES
  phase,      \* where the thread is
  event,      \* the event it handles: a message, a slash command or none
  mentions,   \* the mentions still to be replaced
  text,       \* mentions_removed
  mentioned,  \* is the bot among them
  result,     \* the tokens of a command
  list_to_call, \* FOREACH_MOD's copy of the list
  queue,      \* the rest of it
  heard,      \* what each module was called with, for this event, and how it ended
  replies,    \* what the modules replied to this event
  reacted,    \* keywords that got their reaction
  light       \* the stop light at the end of the HTTP requests

vars == <<phase, event, mentions, text, mentioned, result, list_to_call, queue, heard,
          replies, reacted, light>>

NoEvent == [author |-> "none", content |-> <<>>, mentions |-> <<>>]
Phases  == {"idle", "mentions", "name", "OnMessage", "OnCommand", "OnSlashCommand", "done"}
           \cup Forwarded
Replies == {"started", "stopped", "alert", "not resident", "ldap"}

TypeOK ==
  /\ phase \in Phases
  /\ event \in Messages \cup Commands \cup {NoEvent}
  /\ mentions \in Seq(Users)
  /\ text \in Seq(Chars)
  /\ mentioned \in BOOLEAN
  /\ result \in Seq(Seq(Chars))
  /\ \A i \in DOMAIN heard :
       /\ heard[i].module \in {"reactions", "spotify", "mmanager", "stoplight", "mail", "ldap"}
       /\ heard[i].ended \in {"true", "false", "throw"}
  /\ replies \in Seq(Replies)
  /\ reacted \subseteq Keywords
  /\ light \in {"go", "stop"}

Init ==
  /\ phase = "idle"
  /\ event = NoEvent
  /\ mentions = <<>>
  /\ text = <<>>
  /\ mentioned = FALSE
  /\ result = <<>>
  /\ list_to_call = <<>>
  /\ queue = <<>>
  /\ heard = <<>>
  /\ replies = <<>>
  /\ reacted = {}
  /\ light \in {"go", "stop"}

-----------------------------------------------------------------------------
(* Bot::onMessage and Bot::onSlashCommand *)

Arrives(e) ==
  /\ event' = e
  /\ UNCHANGED <<result, heard, replies, reacted>>

\* No author, the bot itself or another bot: nothing else happens.
MessageIgnored ==
  /\ phase = "idle"
  /\ \E m \in Messages : m.author # "user" /\ Arrives(m)
  /\ phase' = "done"
  /\ UNCHANGED <<mentions, text, mentioned, list_to_call, queue, light>>

MessageArrives ==
  /\ phase = "idle"
  /\ \E m \in Messages :
       /\ m.author = "user"
       /\ Arrives(m)
       /\ mentions' = m.mentions
       /\ text' = m.content
  /\ phase' = "mentions"
  /\ UNCHANGED <<mentioned, list_to_call, queue, light>>

\* Mutant of ReplaceMention: the form with the exclamation mark is forgotten.
ReplaceMentionOnce ==
  /\ phase = "mentions"
  /\ mentions # <<>>
  /\ LET u == Head(mentions) IN
       /\ text' = ReplaceString(text, Mentions[u][1], Names[u])
       /\ mentioned' = (mentioned \/ u = Me)
  /\ mentions' = Tail(mentions)
  /\ UNCHANGED <<phase, event, result, list_to_call, queue, heard, replies, reacted, light>>

ReplaceMention ==
  /\ phase = "mentions"
  /\ mentions # <<>>
  /\ LET u == Head(mentions) IN
       /\ text' = ReplaceString(ReplaceString(text, Mentions[u][1], Names[u]),
                                Mentions[u][2], Names[u])
       /\ mentioned' = (mentioned \/ u = Me)
  /\ mentions' = Tail(mentions)
  /\ UNCHANGED <<phase, event, result, list_to_call, queue, heard, replies, reacted, light>>

MentionsDone ==
  /\ phase = "mentions"
  /\ mentions = <<>>
  /\ phase' = "name"
  /\ UNCHANGED <<event, mentions, text, mentioned, result, list_to_call, queue, heard,
                 replies, reacted, light>>

\* Mutant of StripName: the cleaned text is never assigned.
StripNothing ==
  /\ phase = "name"
  /\ IsPrefix(BotName, text)
  /\ text' = trim(text)
  /\ UNCHANGED <<phase, event, mentions, mentioned, result, list_to_call, queue, heard,
                 replies, reacted, light>>

\* The while loop that takes the bot's name off the front.
StripName ==
  /\ phase = "name"
  /\ IsPrefix(BotName, text)
  /\ text' = trim(SubSeq(text, Len(BotName) + 1, Len(text)))
  /\ UNCHANGED <<phase, event, mentions, mentioned, result, list_to_call, queue, heard,
                 replies, reacted, light>>

\* FOREACH_MOD's copy, taken under the mutex.
Copies(e) ==
  \E list \in HandlerLists[e] : list_to_call' = list /\ queue' = list

IsCommand == IsPrefix(<<Prefix>>, event.content)

RouteMessage ==
  /\ phase = "name"
  /\ ~IsPrefix(BotName, text)
  /\ ~IsCommand
  /\ text' = trim(text)
  /\ Copies("OnMessage")
  /\ phase' = "OnMessage"
  /\ UNCHANGED <<event, mentions, mentioned, result, heard, replies, reacted, light>>

\* A command is tokenised as it was typed, not as it was cleaned.
RouteCommand ==
  /\ phase = "name"
  /\ ~IsPrefix(BotName, text)
  /\ IsCommand
  /\ text' = trim(text)
  /\ result' = Tokens(event.content)
  /\ Copies("OnCommand")
  /\ phase' = "OnCommand"
  /\ UNCHANGED <<event, mentions, mentioned, heard, replies, reacted, light>>

SlashArrives ==
  /\ phase = "idle"
  /\ \E c \in Commands : Arrives(c)
  /\ Copies("OnSlashCommand")
  /\ phase' = "OnSlashCommand"
  /\ UNCHANGED <<mentions, text, mentioned, light>>

\* The other handlers that main binds hand the event on as it is.  onReady also
\* writes Bot::user, which has its value (BotName, Me) from the shard's first
\* ready on and gets the same one again at each later one.
Forward ==
  /\ phase = "idle"
  /\ \E e \in Forwarded : phase' = e /\ Copies(e)
  /\ UNCHANGED <<event, mentions, text, mentioned, result, heard, replies, reacted, light>>

-----------------------------------------------------------------------------
(* FOREACH_MOD and the handlers *)

\* Mutant of GoOn: an exception ends the loop as false does.
GoOnUnlessThrown(outcome) ==
  queue' = IF outcome = "true" THEN Tail(queue) ELSE <<>>

\* The macro catches what a handler throws and goes on; false is a break.
GoOn(outcome) ==
  queue' = IF outcome = "false" THEN <<>> ELSE Tail(queue)

\* One call of the loop: what the module gets, and how its handler ends.
Hears(with, outcome) ==
  /\ heard' = Append(heard, [module |-> Head(queue), with |-> with, ended |-> outcome])
  /\ GoOn(outcome)
  /\ UNCHANGED list_to_call

\* Mutant of EvaluateCommand: the prefix is left where it is.
EvaluateUnerased == UNCHANGED result

\* result[0].erase(0,1), evaluated in the macro's argument, for every module.
EvaluateCommand ==
  result' = [result EXCEPT ![1] = IF @ = <<>> THEN @ ELSE Tail(@)]

CallCommand ==
  /\ phase = "OnCommand"
  /\ queue # <<>>
  /\ EvaluateCommand
  /\ \E outcome \in Returns :
       Hears([command |-> lowercase(result'[1]), params |-> result'], outcome)
  /\ UNCHANGED <<phase, event, mentions, text, mentioned, replies, reacted, light>>

\* spotify's and mmanager's OnMessage.
CallMessage ==
  /\ phase = "OnMessage"
  /\ queue # <<>>
  /\ Head(queue) # "reactions"
  /\ \E outcome \in Returns : Hears([text |-> text, mentioned |-> mentioned], outcome)
  /\ UNCHANGED <<phase, event, mentions, text, mentioned, result, replies, reacted, light>>

\* The handlers of the base class do nothing and return true.
CallDefault ==
  /\ phase \in Forwarded
  /\ queue # <<>>
  /\ Hears(phase, "true")
  /\ UNCHANGED <<phase, event, mentions, text, mentioned, result, replies, reacted, light>>

\* The keywords found in the lower case text.
Found == {k \in Keywords : find(lowercase(text), k, 0) # npos}

\* ReactionsModule::OnMessage
React ==
  /\ phase = "OnMessage"
  /\ queue # <<>>
  /\ Head(queue) = "reactions"
  /\ Hears([text |-> text, mentioned |-> mentioned], "true")
  /\ reacted' = Found
  /\ UNCHANGED <<phase, event, mentions, text, mentioned, result, replies, light>>

\* A slash command goes by the modules it does not name: they return true.
PassBy ==
  /\ phase = "OnSlashCommand"
  /\ queue # <<>>
  /\ <<Head(queue), event.name>> \notin
       {<<"stoplight", "stoplight">>, <<"mail", "mailalert">>, <<"ldap", "ldap">>}
  /\ Hears(event.name, "true")
  /\ UNCHANGED <<phase, event, mentions, text, mentioned, result, replies, reacted, light>>

Handles(module, name, outcome) ==
  /\ phase = "OnSlashCommand"
  /\ queue # <<>>
  /\ Head(queue) = module
  /\ event.name = name
  /\ Hears(name, outcome)
  /\ UNCHANGED <<phase, event, mentions, text, mentioned, result, reacted>>

Says(reply) == replies' = Append(replies, reply)

Turns == [start |-> "go", stop |-> "stop"]
Done  == [start |-> "started", stop |-> "stopped"]

\* Mutant of StoplightTurns: the status of the answer is not looked at.
StoplightHopes ==
  /\ Handles("stoplight", "stoplight", "true")
  /\ event.sub \in DOMAIN Turns
  /\ light' \in {light, Turns[event.sub]}
  /\ Says(Done[event.sub])

\* The GET reaches the light and is answered 200.
StoplightTurns ==
  /\ Handles("stoplight", "stoplight", "true")
  /\ event.sub \in DOMAIN Turns
  /\ light' = Turns[event.sub]
  /\ Says(Done[event.sub])

\* Any other status throws: the light may have turned all the same, when only
\* the answer was lost.
StoplightFails ==
  /\ Handles("stoplight", "stoplight", "throw")
  /\ event.sub \in DOMAIN Turns
  /\ light' \in {light, Turns[event.sub]}
  /\ UNCHANGED replies

\* Mutant of StoplightShots: the light is told any subcommand.
StoplightAny ==
  /\ Handles("stoplight", "stoplight", "true")
  /\ light' = event.sub
  /\ UNCHANGED replies

\* shots is registered, but nothing handles it.
StoplightShots ==
  /\ Handles("stoplight", "stoplight", "true")
  /\ event.sub \notin DOMAIN Turns
  /\ UNCHANGED <<replies, light>>

\* One alert when a role is the resident's; otherwise a refusal.
MailAlert ==
  /\ Handles("mail", "mailalert", "true")
  /\ event.member
  /\ Says(IF Contains(event.roles, Resident) THEN "alert" ELSE "not resident")
  /\ UNCHANGED light

\* find_guild_member throws for a user who is not a member.
MailThrows ==
  /\ Handles("mail", "mailalert", "throw")
  /\ ~event.member
  /\ UNCHANGED <<replies, light>>

LdapReplies ==
  /\ Handles("ldap", "ldap", "true")
  /\ Says("ldap")
  /\ UNCHANGED light

DispatchDone ==
  /\ phase \in {"OnMessage", "OnCommand", "OnSlashCommand"} \cup Forwarded
  /\ queue = <<>>
  /\ phase' = "done"
  /\ UNCHANGED <<event, mentions, text, mentioned, result, list_to_call, queue, heard,
                 replies, reacted, light>>

\* The handler returns and its locals are gone.
Return ==
  /\ phase = "done"
  /\ phase' = "idle"
  /\ event' = NoEvent
  /\ text' = <<>>
  /\ mentioned' = FALSE
  /\ result' = <<>>
  /\ list_to_call' = <<>>
  /\ heard' = <<>>
  /\ replies' = <<>>
  /\ reacted' = {}
  /\ UNCHANGED <<mentions, queue, light>>

-----------------------------------------------------------------------------

\* An event begins, or the thread goes on with the one it has.
Arrival == MessageIgnored \/ MessageArrives \/ SlashArrives \/ Forward

Step ==
  \/ ReplaceMention \/ MentionsDone \/ StripName \/ RouteMessage \/ RouteCommand
  \/ CallCommand \/ CallMessage \/ CallDefault \/ React \/ PassBy
  \/ StoplightTurns \/ StoplightFails \/ StoplightShots
  \/ MailAlert \/ MailThrows \/ LdapReplies \/ DispatchDone \/ Return

Next == Arrival \/ Step

\* The thread runs, and every handler and request returns or times out.
FairSpec == Init /\ [][Next]_vars /\ WF_vars(Step)

-----------------------------------------------------------------------------
(* Properties *)

\* The two edits of ReplaceString, of the text and of its lower case copy,
\* stay in step: whatever a name has in it and however its length differs from
\* the mention's, the text is the one a single pass from the left gives.
MentionsReplaced ==
  [][phase = "mentions" /\ mentions # <<>> =>
       LET u == Head(mentions) IN
       text' = Replaced(Replaced(text, Mentions[u][1], Names[u]),
                        Mentions[u][2], Names[u])]_vars

\* A keyword gets its reaction exactly when the message, in lower case, has it,
\* as long as the cleaning has nothing to take away from the message.  So the
\* message's case does not matter and the keyword's does: one that is not in
\* lower case itself never gets a reaction.
KeywordsReact ==
  phase = "done" /\ (\E i \in DOMAIN heard : heard[i].module = "reactions") =>
    \/ event.mentions # <<>>
    \/ IsPrefix(BotName, event.content)
    \/ reacted = {k \in Keywords : \E p \in 0 .. Len(event.content) - Len(k) :
                                     OccursAt(lowercase(event.content), k, p)}

\* What OnMessage handlers get as clean_message starts and ends with no blank,
\* does not start with the bot's name and has no mention of a mentioned user;
\* and nothing else was taken from it that a reaction is to be found by.
CleanMessage ==
  /\ phase = "OnMessage" =>
       /\ trim(text) = text
       /\ ~IsPrefix(BotName, text)
       /\ \A i \in DOMAIN event.mentions : \A m \in {1, 2} :
            find(lowercase(text), lowercase(Mentions[event.mentions[i]][m]), 0) = npos
  /\ KeywordsReact

\* A module that handles OnCommand gets every word of the command, empty ones
\* included, the first one without its prefix: joined again they are what was
\* typed.  (It holds as long as only one module attaches to OnCommand.)
CommandWords ==
  \A i \in DOMAIN heard :
    phase = "OnCommand" =>
      LET with == heard[i].with IN
      /\ Joined(with.params) = Tail(event.content)
      /\ with.command = lowercase(with.params[1])

\* A slash command is answered at most once, and once by the module it names if
\* that one listens, whatever stands before and after it in the list: unless its
\* own handler throws or has no branch for it.  "Started stoplight" and "Stopped
\* stoplight" are true when they are said, although the light's answers may be
\* lost.  (ldap's constructor returns before attach when there is no server: a
\* /ldap registered earlier then has no answer.)
SlashAnswered ==
  phase = "done" /\ event \in Commands =>
    /\ Len(replies) <= 1
    /\ event.name = "ldap" /\ "ldap" \in Range(list_to_call) => replies = <<"ldap">>
    /\ event.name = "mailalert" /\ event.member /\ "mail" \in Range(list_to_call) =>
         replies = IF Contains(event.roles, Resident) THEN <<"alert">> ELSE <<"not resident">>
    /\ \A sub \in DOMAIN Turns : replies = <<Done[sub]>> => light = Turns[sub]

\* Every module of the copied list gets the event, however many handlers before
\* it throw: only a handler that returned false ends the loop, and it always does.
ThrowSparesOthers ==
  [][(phase # "idle" /\ phase' = "done") =>
       /\ \/ Len(heard) = Len(list_to_call)
          \/ Last(heard).ended = "false"
       /\ \A i \in DOMAIN heard : heard[i].ended = "false" => i = Len(heard)]_vars

\* Every message that is not ignored gets through the cleaning loops to the
\* modules and is done with, whatever names and mentions it has.
EventEnds == phase # "idle" ~> phase = "idle"

=============================================================================
