--------------------------- MODULE HandlersProofs ---------------------------
(***************************************************************************)
(* What holds of one dispatch after another for every message, command,    *)
(* list of listeners and way their handlers end.                           *)
(*                                                                         *)
(* IInv follows FOREACH_MOD's list: what is left of it and what was heard  *)
(* make up the whole list unless the last handler returned false           *)
(* (HeardInv), and the reply to a slash command is missing exactly as long *)
(* as its module is still in the list, or for ever if it never was         *)
(* (ReplyInv).  The types need it, to know the event                       *)
(* and the list.  CommandInv holds the tokens of a command until its only  *)
(* listener has them (OneListener).  MentionInv follows the cleaned text:  *)
(* a mentioned user is still to come or the text is rid of him.  PlainInv  *)
(* and ReactInv follow a message that there is nothing to clean from.      *)
(* What ReplaceString and the tokeniser compute is TextProofs' subject.    *)
(***************************************************************************)
EXTENDS Handlers, TextProofs

Modules     == {"reactions", "spotify", "mmanager", "stoplight", "mail", "ldap"}
Dispatching == {"OnMessage", "OnCommand", "OnSlashCommand"} \cup Forwarded

Outcomes    == {"true", "false", "throw"}

\* The module that handles the slash command of a name, if any does.
Handler == [stoplight |-> "stoplight", mailalert |-> "mail", ldap |-> "ldap"]

EventInv ==
  /\ phase \in Phases
  /\ phase = "idle" => event = NoEvent
  /\ phase \in {"mentions", "name", "OnMessage", "OnCommand"} => event \in Messages
  /\ phase \in Forwarded => event = NoEvent
  /\ phase = "OnSlashCommand" => event \in Commands

ListInv ==
  phase \in Dispatching =>
    /\ list_to_call \in HandlerLists[phase]
    /\ queue \in Seq(Modules)
    /\ IsInjective(queue)
    /\ Range(queue) \subseteq Range(list_to_call)

HeardInv ==
  /\ heard \in Seq(Range(heard))
  /\ phase \in {"idle", "mentions", "name"} => heard = <<>>
  /\ phase \in Dispatching =>
       /\ \/ Len(heard) + Len(queue) = Len(list_to_call)
          \/ queue = <<>> /\ Last(heard).ended = "false"
       /\ \A i \in DOMAIN heard : heard[i].ended = "false" => i = Len(heard) /\ queue = <<>>

\* The slash command is one that a module of the copied list handles.
Owed == event.name \in DOMAIN Handler /\ Handler[event.name] \in Range(list_to_call)

\* The reply that the module a slash command names has given.
Answered ==
  /\ event.name = "ldap" => replies = <<"ldap">>
  /\ event.name = "mailalert" =>
       replies = IF ~event.member THEN <<>>
                 ELSE IF Contains(event.roles, Resident) THEN <<"alert">>
                 ELSE <<"not resident">>
  /\ event.name = "stoplight" =>
       \/ replies = <<>>
       \/ \E sub \in DOMAIN Turns : replies = <<Done[sub]>> /\ light = Turns[sub]

ReplyInv ==
  /\ phase \notin {"OnSlashCommand", "done"} => replies = <<>>
  /\ phase = "OnSlashCommand" =>
       IF Owed /\ Handler[event.name] \notin Range(queue)
         THEN Answered
         ELSE replies = <<>>
  /\ SlashAnswered

IInv == EventInv /\ ListInv /\ HeardInv /\ ReplyInv

-----------------------------------------------------------------------------
(* Events and lists *)

\* A slash command is not a message.
LEMMA CommandsApart == \A c \in Commands : c \notin Messages /\ c # NoEvent
<1> SUFFICES ASSUME NEW c \in Commands PROVE c \notin Messages /\ c # NoEvent
  OBVIOUS
<1>1. DOMAIN c = {"name", "sub", "member", "roles"}
  BY HandlersAssumption
<1>2. \A m \in Messages : DOMAIN m = {"author", "content", "mentions"}
  BY HandlersAssumption
<1>3. DOMAIN NoEvent = {"author", "content", "mentions"}
  BY DEF NoEvent
<1> QED BY <1>1, <1>2, <1>3

\* Every list of listeners is one of known modules, each once.
LEMMA ListsKnown ==
  ASSUME NEW e \in Dispatching, NEW list \in HandlerLists[e]
  PROVE  list \in Seq(Attaching[e]) /\ list \in Seq(Modules) /\ IsInjective(list)
<1>1. e \in DOMAIN Attaching
  BY DEF Attaching, Dispatching
<1>2. list \in Seq(Attaching[e]) /\ IsInjective(list)
  BY <1>1, HandlerListsAssumption
<1>3. Attaching[e] \subseteq Modules
  BY DEF Attaching, Dispatching, Modules, Forwarded
<1>4. list \in Seq(Modules)
  BY <1>2, <1>3, SeqMonotonic
<1> QED BY <1>2, <1>4

\* What is left of a list once its first module was called.
LEMMA TailLeaves ==
  ASSUME NEW S, NEW q \in Seq(S), q # <<>>, IsInjective(q)
  PROVE  /\ Head(q) \in S /\ Tail(q) \in Seq(S)
         /\ Len(Tail(q)) = Len(q) - 1 /\ Len(q) \in Nat
         /\ IsInjective(Tail(q))
         /\ Head(q) \in Range(q)
         /\ Range(Tail(q)) = Range(q) \ {Head(q)}
<1>1. /\ Head(q) \in S /\ Tail(q) \in Seq(S) /\ Len(Tail(q)) = Len(q) - 1
      /\ \A i \in 1 .. Len(Tail(q)) : Tail(q)[i] = q[i + 1]
  BY HeadTailProperties
<1>2. /\ Len(q) \in Nat \ {0} /\ DOMAIN q = 1 .. Len(q)
      /\ DOMAIN Tail(q) = 1 .. Len(q) - 1 /\ Head(q) = q[1]
  BY <1>1, LenProperties, EmptySeq
<1>3. IsInjective(Tail(q))
  BY <1>1, <1>2 DEF IsInjective
<1>4. Head(q) \in Range(q)
  BY <1>2 DEF Range
<1>5. ASSUME NEW x \in Range(Tail(q)) PROVE x \in Range(q) \ {Head(q)}
  <2>1. PICK i \in 1 .. Len(q) - 1 : x = q[i + 1]
    BY <1>1, <1>2, <1>5 DEF Range
  <2>2. i + 1 \in DOMAIN q /\ 1 \in DOMAIN q /\ i + 1 # 1
    BY <1>2, <2>1
  <2> QED BY <1>2, <2>1, <2>2 DEF Range, IsInjective
<1>6. ASSUME NEW x \in Range(q) \ {Head(q)} PROVE x \in Range(Tail(q))
  <2>1. PICK i \in 2 .. Len(q) : x = q[i]
    BY <1>2, <1>6 DEF Range
  <2>2. i - 1 \in 1 .. Len(q) - 1 /\ Tail(q)[i - 1] = q[i]
    BY <1>1, <1>2, <2>1
  <2> QED BY <1>2, <2>1, <2>2 DEF Range
<1> QED BY <1>1, <1>2, <1>3, <1>4, <1>5, <1>6

\* One more was heard.
LEMMA HearsOne ==
  ASSUME NEW h, h \in Seq(Range(h)), NEW x
  PROVE  /\ Append(h, x) \in Seq(Range(Append(h, x)))
         /\ Len(Append(h, x)) = Len(h) + 1 /\ Len(h) \in Nat
         /\ DOMAIN h = 1 .. Len(h) /\ DOMAIN Append(h, x) = 1 .. Len(h) + 1
         /\ \A i \in 1 .. Len(h) : Append(h, x)[i] = h[i]
         /\ Append(h, x)[Len(h) + 1] = x /\ Last(Append(h, x)) = x
<1> DEFINE S == Range(h) \cup {x}
<1>1. h \in Seq(S) /\ x \in S /\ Len(h) \in Nat
  BY SeqMonotonic, LenProperties
<1>2. /\ Append(h, x) \in Seq(S) /\ Len(Append(h, x)) = Len(h) + 1
      /\ \A i \in 1 .. Len(h) : Append(h, x)[i] = h[i]
      /\ Append(h, x)[Len(h) + 1] = x
  BY <1>1, AppendProperties
<1>3. DOMAIN Append(h, x) = 1 .. Len(h) + 1
  BY <1>2, LenProperties
<1>4. \A i \in 1 .. Len(h) + 1 : Append(h, x)[i] \in Range(Append(h, x))
  BY <1>3 DEF Range
<1>5. SubSeq(Append(h, x), 1, Len(h) + 1) = Append(h, x)
  BY <1>2, SubSeqFull
<1>6. Append(h, x) \in Seq(Range(Append(h, x)))
  <2>1. 1 \in Int /\ Len(h) + 1 \in Int
    BY <1>1
  <2> QED BY <1>4, <1>5, <2>1, SubSeqProperties
<1>7. DOMAIN h = 1 .. Len(h)
  BY LenProperties
<1> QED BY <1>1, <1>2, <1>3, <1>6, <1>7 DEF Last

-----------------------------------------------------------------------------
(* Replies *)

\* The first reply is the only one so far.
LEMMA FirstReply ==
  ASSUME replies = <<>>, NEW r, Says(r)
  PROVE  replies' = <<r>>
BY DEF Says

\* What a single reply is; the replies about the stop light say which way.
LEMMA SingleReplies ==
  /\ \A r, s : <<r>> = <<s>> => r = s
  /\ Len(<<>>) <= 1 /\ \A r : Len(<<r>>) <= 1 /\ <<r>> # <<>>
  /\ DOMAIN Turns = {"start", "stop"}
  /\ Turns["start"] = "go" /\ Turns["stop"] = "stop"
  /\ Done["start"] = "started" /\ Done["stop"] = "stopped"
BY DEF Turns, Done

\* What is due as a reply is what SlashAnswered asks for.
LEMMA AnsweredSuffices ==
  ASSUME IF Owed THEN Answered ELSE replies = <<>>
  PROVE  /\ Len(replies) <= 1
         /\ event.name = "ldap" /\ "ldap" \in Range(list_to_call) => replies = <<"ldap">>
         /\ event.name = "mailalert" /\ event.member /\ "mail" \in Range(list_to_call) =>
              replies = IF Contains(event.roles, Resident) THEN <<"alert">>
                        ELSE <<"not resident">>
         /\ \A sub \in DOMAIN Turns : replies = <<Done[sub]>> => light = Turns[sub]
<1>1. CASE ~Owed
  <2>1. /\ ~(event.name = "ldap" /\ "ldap" \in Range(list_to_call))
        /\ ~(event.name = "mailalert" /\ "mail" \in Range(list_to_call))
        /\ replies = <<>>
    BY <1>1 DEF Owed, Handler
  <2> QED BY <2>1, EmptySeq, SingleReplies
<1>2. CASE Owed /\ event.name = "ldap"
  <2>1. replies = <<"ldap">>
    BY <1>2 DEF Handler, Answered
  <2> QED BY <1>2, <2>1, SingleReplies
<1>3. CASE Owed /\ event.name = "mailalert"
  <2>1. replies = IF ~event.member THEN <<>>
                  ELSE IF Contains(event.roles, Resident) THEN <<"alert">>
                  ELSE <<"not resident">>
    BY <1>3 DEF Handler, Answered
  <2>2. \A sub \in DOMAIN Turns : replies # <<Done[sub]>>
    BY <2>1, SingleReplies
  <2>3. Len(replies) <= 1
    BY <2>1, SingleReplies
  <2> QED BY <1>3, <2>1, <2>2, <2>3
<1>4. CASE Owed /\ event.name = "stoplight"
  <2>1. \/ replies = <<>>
        \/ \E sub \in DOMAIN Turns : replies = <<Done[sub]>> /\ light = Turns[sub]
    BY <1>4 DEF Handler, Answered
  <2>2. Len(replies) <= 1
    BY <2>1, SingleReplies
  <2>3. \A sub \in DOMAIN Turns : replies = <<Done[sub]>> => light = Turns[sub]
    BY <2>1, SingleReplies
  <2> QED BY <1>4, <2>2, <2>3
<1> QED BY <1>1, <1>2, <1>3, <1>4 DEF Owed, Handler

-----------------------------------------------------------------------------
(* The initial states *)

LEMMA InitInv == Init => IInv
<1> SUFFICES ASSUME Init PROVE IInv
  OBVIOUS
<1>1. EventInv /\ ListInv
  BY DEF Init, EventInv, ListInv, Phases, Forwarded, Dispatching
<1>2. HeardInv
  BY EmptySeq DEF Init, HeardInv, Forwarded, Dispatching
<1>3. ReplyInv
  BY DEF Init, ReplyInv, SlashAnswered
<1> QED BY <1>1, <1>2, <1>3 DEF IInv

-----------------------------------------------------------------------------
(* The beginning and the end of a dispatch *)

\* A list of listeners is about to be gone through.
Starts ==
  /\ phase' \in Dispatching
  /\ Copies(phase')
  /\ heard' = <<>> /\ replies' = <<>>

\* A dispatch starts with its whole list and nothing heard.
LEMMA StartsList ==
  ASSUME Starts
  PROVE  ListInv' /\ HeardInv'
<1>1. PICK list \in HandlerLists[phase'] : list_to_call' = list /\ queue' = list
  BY DEF Starts, Copies
<1>2. list \in Seq(Modules) /\ IsInjective(list)
  BY <1>1, ListsKnown DEF Starts
<1>3. ListInv'
  BY <1>1, <1>2 DEF ListInv
<1>4. Len(heard') + Len(queue') = Len(list_to_call') /\ DOMAIN heard' = {}
  <2>1. Len(heard') = 0 /\ Len(list) \in Nat /\ DOMAIN heard' = {}
    BY <1>2, EmptySeq, LenProperties DEF Starts
  <2> QED BY <1>1, <2>1
<1>5. HeardInv'
  BY <1>4, EmptySeq DEF HeardInv, Starts
<1> QED BY <1>3, <1>5

\* A thread that is not dispatching, or stops doing so.
LEMMA RestList ==
  ASSUME IInv, phase' \notin Dispatching,
         \/ heard' = <<>>
         \/ heard' = heard /\ (phase' \in {"idle", "mentions", "name"} => heard = <<>>)
  PROVE  ListInv' /\ HeardInv'
<1>1. ListInv'
  BY DEF ListInv
<1>2. heard' \in Seq(Range(heard'))
  BY EmptySeq DEF IInv, HeardInv
<1>3. HeardInv'
  BY <1>2 DEF HeardInv, IInv
<1> QED BY <1>1, <1>3

-----------------------------------------------------------------------------
(* One module of a list is called *)

\* What every call does to the list and to what was heard.
LEMMA CallList ==
  ASSUME IInv, phase \in Dispatching, queue # <<>>, phase' = phase,
         NEW w, NEW o, Hears(w, o)
  PROVE  ListInv' /\ HeardInv'
<1> DEFINE x == [module |-> Head(queue), with |-> w, ended |-> o]
<1>1. /\ queue \in Seq(Modules) /\ IsInjective(queue) /\ heard \in Seq(Range(heard))
      /\ list_to_call \in HandlerLists[phase] /\ Range(queue) \subseteq Range(list_to_call)
  BY DEF IInv, ListInv, HeardInv
<1>2. /\ heard' = Append(heard, x) /\ list_to_call' = list_to_call
      /\ queue' = IF o = "false" THEN <<>> ELSE Tail(queue)
  BY DEF Hears, GoOn
<1>3. /\ Tail(queue) \in Seq(Modules) /\ IsInjective(Tail(queue))
      /\ Len(Tail(queue)) = Len(queue) - 1 /\ Len(queue) \in Nat
      /\ Range(Tail(queue)) \subseteq Range(queue)
  BY <1>1, TailLeaves
<1>4. <<>> \in Seq(Modules) /\ IsInjective(<<>>) /\ Range(<<>>) = {}
  BY EmptySeq DEF IsInjective, Range
<1>5. ListInv'
  BY <1>1, <1>2, <1>3, <1>4 DEF ListInv
<1>6. x.ended = o
  OBVIOUS
<1> HIDE DEF x
<1>7. /\ heard' \in Seq(Range(heard')) /\ Len(heard') = Len(heard) + 1
      /\ Len(heard) \in Nat /\ DOMAIN heard = 1 .. Len(heard)
      /\ DOMAIN heard' = 1 .. Len(heard) + 1
      /\ \A i \in 1 .. Len(heard) : heard'[i] = heard[i]
      /\ heard'[Len(heard) + 1] = x /\ Last(heard') = x
  BY <1>1, <1>2, HearsOne
<1>8. /\ Len(heard) + Len(queue) = Len(list_to_call)
      /\ \A i \in DOMAIN heard : heard[i].ended # "false"
  BY DEF IInv, HeardInv
<1>9. \/ Len(heard') + Len(queue') = Len(list_to_call')
      \/ queue' = <<>> /\ Last(heard').ended = "false"
  <2>1. CASE o = "false"
    BY Zenon, <1>2, <1>6, <1>7, <2>1
  <2>2. CASE o # "false"
    <3>1. queue' = Tail(queue) /\ list_to_call' = list_to_call
      BY <1>2, <2>2
    <3>2. Len(heard') + Len(queue') = Len(list_to_call')
      BY <1>3, <1>7, <1>8, <3>1
    <3> QED BY <3>2
  <2> QED BY <2>1, <2>2
<1>10. ASSUME NEW i \in DOMAIN heard', heard'[i].ended = "false"
       PROVE  i = Len(heard') /\ queue' = <<>>
  <2>1. i \in DOMAIN heard \/ i = Len(heard) + 1
    BY <1>7
  <2>2. i \notin DOMAIN heard
    BY <1>7, <1>8, <1>10
  <2> QED BY <1>2, <1>6, <1>7, <1>10, <2>1, <2>2
<1>11. phase' \notin {"idle", "mentions", "name"}
  BY DEF Dispatching, Forwarded
<1>12. HeardInv'
  BY <1>7, <1>9, <1>10, <1>11 DEF HeardInv
<1> QED BY <1>5, <1>12

\* A call outside the slash commands.
LEMMA CallOther ==
  ASSUME IInv, phase \in Dispatching \ {"OnSlashCommand"}, phase' = phase,
         event' = event, replies' = replies
  PROVE  EventInv' /\ ReplyInv'
<1>1. EventInv'
  BY DEF IInv, EventInv
<1>2. phase # "done"
  BY DEF Dispatching, Forwarded
<1>3. ReplyInv'
  BY <1>2 DEF IInv, ReplyInv, SlashAnswered
<1> QED BY <1>1, <1>3

\* A module lets a slash command by that it does not handle.
LEMMA PassByReply ==
  ASSUME IInv, PassBy
  PROVE  ReplyInv'
<1>1. /\ queue \in Seq(Modules) /\ IsInjective(queue) /\ queue # <<>>
      /\ queue' = Tail(queue) /\ phase = "OnSlashCommand"
  BY DEF PassBy, Hears, GoOn, IInv, ListInv, Dispatching
<1>2. Range(queue') = Range(queue) \ {Head(queue)}
  BY <1>1, TailLeaves
<1>3. event.name \in DOMAIN Handler => Handler[event.name] # Head(queue)
  BY DEF PassBy, Handler
<1>4. event.name \in DOMAIN Handler =>
        (Handler[event.name] \in Range(queue') <=> Handler[event.name] \in Range(queue))
  BY <1>2, <1>3
<1>5. UNCHANGED <<phase, event, replies, light, list_to_call>>
  BY DEF PassBy, Hears
<1>6. (Answered' <=> Answered) /\ (Owed' <=> Owed)
  BY <1>5 DEF Answered, Owed
<1>7. IF Owed' /\ Handler[event.name] \notin Range(queue') THEN Answered' ELSE replies' = <<>>
  BY <1>1, <1>4, <1>5, <1>6 DEF IInv, ReplyInv, Owed
<1> QED BY <1>1, <1>5, <1>7 DEF ReplyInv, SlashAnswered

\* The module a slash command names handles it, its reply being the one due.
LEMMA HandlesReply ==
  ASSUME IInv, NEW m, NEW n \in DOMAIN Handler, Handler[n] = m, NEW o, Handles(m, n, o),
         o # "false", Answered'
  PROVE  ReplyInv'
<1>1. /\ queue \in Seq(Modules) /\ IsInjective(queue) /\ queue # <<>>
      /\ phase = "OnSlashCommand" /\ phase' = phase /\ event' = event /\ event.name = n
      /\ queue' = Tail(queue) /\ list_to_call' = list_to_call
      /\ Range(queue) \subseteq Range(list_to_call)
  BY DEF Handles, Hears, GoOn, IInv, ListInv, Dispatching
<1>2. m \notin Range(queue') /\ m \in Range(list_to_call)
  BY <1>1, TailLeaves DEF Handles
<1>3. Owed'
  BY <1>1, <1>2 DEF Owed
<1> QED BY <1>1, <1>2, <1>3 DEF ReplyInv, SlashAnswered

\* As long as its module is still to be called, a slash command has no reply.
LEMMA NoReplyYet ==
  ASSUME IInv, NEW m, NEW n \in DOMAIN Handler, Handler[n] = m, NEW o, Handles(m, n, o)
  PROVE  replies = <<>>
<1>1. /\ queue \in Seq(Modules) /\ IsInjective(queue) /\ queue # <<>>
      /\ phase = "OnSlashCommand" /\ event.name = n /\ m = Head(queue)
  BY DEF Handles, IInv, ListInv, Dispatching
<1>2. m \in Range(queue)
  BY <1>1, TailLeaves
<1> QED BY <1>1, <1>2 DEF IInv, ReplyInv

-----------------------------------------------------------------------------
(* The invariant is inductive *)

LEMMA Inductive == IInv /\ [Next]_vars => IInv'
<1> SUFFICES ASSUME IInv, [Next]_vars PROVE IInv'
  OBVIOUS
<1>A. EventInv /\ ListInv /\ HeardInv /\ ReplyInv
  BY DEF IInv
<1>1. CASE MessageIgnored
  <2>1. EventInv' /\ event' \in Messages /\ phase' = "done"
    BY <1>1 DEF MessageIgnored, Arrives, EventInv, Phases, Forwarded
  <2>2. ListInv' /\ HeardInv'
    BY <1>1, RestList DEF MessageIgnored, Arrives, Dispatching, Forwarded
  <2>3. ReplyInv'
    BY <2>1, CommandsApart DEF ReplyInv, SlashAnswered
  <2> QED BY <2>1, <2>2, <2>3 DEF IInv
<1>2. CASE MessageArrives
  <2>1. EventInv'
    BY <1>2 DEF MessageArrives, Arrives, EventInv, Phases, Forwarded
  <2>2. ListInv' /\ HeardInv'
    <3>1. heard' = heard /\ heard = <<>> /\ phase' = "mentions"
      BY <1>2, <1>A DEF MessageArrives, Arrives, HeardInv
    <3> QED BY <3>1, RestList DEF Dispatching, Forwarded
  <2>3. ReplyInv'
    BY <1>2, <1>A DEF MessageArrives, Arrives, ReplyInv, SlashAnswered
  <2> QED BY <2>1, <2>2, <2>3 DEF IInv
<1>3. CASE ReplaceMention \/ MentionsDone \/ StripName
  <2>1. /\ phase \in {"mentions", "name"} /\ phase' \in {"mentions", "name"}
        /\ UNCHANGED <<event, heard, replies>>
    BY <1>3 DEF ReplaceMention, MentionsDone, StripName
  <2>2. EventInv'
    BY <1>A, <2>1 DEF EventInv, Phases, Forwarded
  <2>3. ListInv' /\ HeardInv'
    BY <1>A, <2>1, RestList DEF HeardInv, Dispatching, Forwarded
  <2>4. ReplyInv'
    BY <1>A, <2>1 DEF ReplyInv, SlashAnswered
  <2> QED BY <2>2, <2>3, <2>4 DEF IInv
<1>4. CASE RouteMessage \/ RouteCommand
  <2>1. /\ phase = "name" /\ phase' \in {"OnMessage", "OnCommand"}
        /\ Copies(phase') /\ UNCHANGED <<event, heard, replies>>
    BY <1>4 DEF RouteMessage, RouteCommand
  <2>2. Starts
    BY <1>A, <2>1 DEF Starts, HeardInv, ReplyInv, Dispatching
  <2>3. EventInv'
    BY <1>A, <2>1 DEF EventInv, Phases, Forwarded
  <2>4. ReplyInv'
    BY <2>1, <2>2 DEF ReplyInv, SlashAnswered, Starts
  <2> QED BY <2>2, <2>3, <2>4, StartsList DEF IInv
<1>5. CASE SlashArrives
  <2>1. /\ phase = "idle" /\ phase' = "OnSlashCommand" /\ event' \in Commands
        /\ Copies(phase') /\ UNCHANGED <<heard, replies>>
    BY <1>5 DEF SlashArrives, Arrives
  <2>2. Starts
    BY <1>A, <2>1 DEF Starts, HeardInv, ReplyInv, Dispatching
  <2>3. EventInv'
    BY <1>A, <2>1 DEF EventInv, Phases, Forwarded
  <2>4. ~(Owed' /\ Handler[event'.name] \notin Range(queue'))
    BY <2>1 DEF Copies, Owed
  <2>5. ReplyInv'
    BY <2>1, <2>2, <2>4 DEF ReplyInv, SlashAnswered, Starts
  <2> QED BY <2>2, <2>3, <2>5, StartsList DEF IInv
<1>6. CASE Forward
  <2>1. /\ phase = "idle" /\ phase' \in Forwarded
        /\ Copies(phase') /\ UNCHANGED <<event, heard, replies>>
    BY <1>6 DEF Forward
  <2>2. Starts
    BY <1>A, <2>1 DEF Starts, HeardInv, ReplyInv, Dispatching
  <2>3. EventInv'
    BY <1>A, <2>1 DEF EventInv, Phases, Forwarded
  <2>4. ReplyInv'
    BY <2>1, <2>2 DEF ReplyInv, SlashAnswered, Starts, Forwarded
  <2> QED BY <2>2, <2>3, <2>4, StartsList DEF IInv
<1>7. CASE CallCommand
  <2>1. ListInv' /\ HeardInv'
    BY <1>7, CallList DEF CallCommand, Dispatching
  <2>2. EventInv' /\ ReplyInv'
    BY <1>7, CallOther DEF CallCommand, Dispatching
  <2> QED BY <2>1, <2>2 DEF IInv
<1>8. CASE CallMessage
  <2>1. ListInv' /\ HeardInv'
    BY <1>8, CallList DEF CallMessage, Dispatching
  <2>2. EventInv' /\ ReplyInv'
    BY <1>8, CallOther DEF CallMessage, Dispatching
  <2> QED BY <2>1, <2>2 DEF IInv
<1>9. CASE CallDefault
  <2>1. phase \in Dispatching \ {"OnSlashCommand"}
    BY <1>9 DEF CallDefault, Dispatching, Forwarded
  <2>2. ListInv' /\ HeardInv'
    BY <1>9, <2>1, CallList DEF CallDefault
  <2>3. EventInv' /\ ReplyInv'
    BY <1>9, <2>1, CallOther DEF CallDefault
  <2> QED BY <2>2, <2>3 DEF IInv
<1>10. CASE React
  <2>1. ListInv' /\ HeardInv'
    BY <1>10, CallList DEF React, Dispatching
  <2>2. EventInv' /\ ReplyInv'
    BY <1>10, CallOther DEF React, Dispatching
  <2> QED BY <2>1, <2>2 DEF IInv
<1>11. CASE PassBy
  <2>1. ListInv' /\ HeardInv'
    BY <1>11, CallList DEF PassBy, Dispatching
  <2>2. EventInv'
    BY <1>11, <1>A DEF PassBy, EventInv
  <2> QED BY <1>11, <2>1, <2>2, PassByReply DEF IInv
<1>12. CASE StoplightTurns \/ StoplightFails \/ StoplightShots
  <2>1. PICK o \in {"true", "throw"} : Handles("stoplight", "stoplight", o)
    BY <1>12 DEF StoplightTurns, StoplightFails, StoplightShots
  <2>2. replies = <<>>
    BY <2>1, NoReplyYet DEF Handler
  <2>3. Answered'
    <3>1. event'.name = "stoplight"
      BY <2>1 DEF Handles
    <3>2. CASE StoplightTurns
      <4>1. /\ event.sub \in DOMAIN Turns /\ light' = Turns[event.sub]
            /\ replies' = <<Done[event.sub]>>
        BY <2>2, <3>2, FirstReply DEF StoplightTurns
      <4> QED BY <3>1, <4>1 DEF Answered
    <3>3. CASE StoplightFails \/ StoplightShots
      BY <2>2, <3>1, <3>3 DEF Answered, StoplightFails, StoplightShots
    <3> QED BY <1>12, <3>2, <3>3
  <2>4. ReplyInv'
    BY <2>1, <2>3, HandlesReply DEF Handler
  <2>5. ListInv' /\ HeardInv'
    BY <2>1, CallList DEF Handles, Dispatching
  <2>6. EventInv'
    BY <2>1, <1>A DEF Handles, EventInv
  <2> QED BY <2>4, <2>5, <2>6 DEF IInv
<1>13. CASE MailAlert \/ MailThrows
  <2>1. PICK o \in {"true", "throw"} : Handles("mail", "mailalert", o)
    BY <1>13 DEF MailAlert, MailThrows
  <2>2. replies = <<>>
    BY <2>1, NoReplyYet DEF Handler
  <2>3. Answered'
    <3>1. event'.name = "mailalert" /\ event' = event
      BY <2>1 DEF Handles
    <3>2. CASE MailAlert
      <4>1. CASE Contains(event.roles, Resident)
        <5>1. event.member /\ Says("alert")
          BY <3>2, <4>1 DEF MailAlert
        <5> QED BY <2>2, <3>1, <4>1, <5>1, FirstReply DEF Answered
      <4>2. CASE ~Contains(event.roles, Resident)
        <5>1. event.member /\ Says("not resident")
          BY <3>2, <4>2 DEF MailAlert
        <5> QED BY <2>2, <3>1, <4>2, <5>1, FirstReply DEF Answered
      <4> QED BY <4>1, <4>2
    <3>3. CASE MailThrows
      BY <2>2, <3>1, <3>3 DEF Answered, MailThrows
    <3> QED BY <1>13, <3>2, <3>3
  <2>4. ReplyInv'
    BY <2>1, <2>3, HandlesReply DEF Handler
  <2>5. ListInv' /\ HeardInv'
    BY <2>1, CallList DEF Handles, Dispatching
  <2>6. EventInv'
    BY <2>1, <1>A DEF Handles, EventInv
  <2> QED BY <2>4, <2>5, <2>6 DEF IInv
<1>14. CASE LdapReplies
  <2>1. Handles("ldap", "ldap", "true")
    BY <1>14 DEF LdapReplies
  <2>2. replies = <<>>
    BY <2>1, NoReplyYet DEF Handler
  <2>3. Answered'
    BY <1>14, <2>1, <2>2, FirstReply DEF Answered, LdapReplies, Handles
  <2>4. ReplyInv'
    BY <2>1, <2>3, HandlesReply DEF Handler
  <2>5. ListInv' /\ HeardInv'
    BY <2>1, CallList DEF Handles, Dispatching
  <2>6. EventInv'
    BY <2>1, <1>A DEF Handles, EventInv
  <2> QED BY <2>4, <2>5, <2>6 DEF IInv
<1>15. CASE DispatchDone
  <2>1. /\ phase \in Dispatching /\ queue = <<>> /\ phase' = "done"
        /\ UNCHANGED <<event, list_to_call, heard, replies, light>>
    BY <1>15 DEF DispatchDone, Dispatching
  <2>2. ListInv' /\ HeardInv'
    BY <2>1, RestList DEF Dispatching, Forwarded
  <2>3. EventInv'
    BY <1>A, <2>1 DEF EventInv, Phases, Forwarded
  <2>4. SlashAnswered'
    <3>1. CASE phase = "OnSlashCommand"
      <4>1. Range(queue) = {}
        BY <2>1 DEF Range
      <4>2. IF Owed THEN Answered ELSE replies = <<>>
        BY <1>A, <3>1, <4>1 DEF ReplyInv
      <4> QED BY <2>1, <4>2, AnsweredSuffices DEF SlashAnswered
    <3>2. CASE phase # "OnSlashCommand"
      <4>1. event \notin Commands
        BY <1>A, <2>1, <3>2, CommandsApart DEF EventInv, Dispatching
      <4> QED BY <2>1, <4>1 DEF SlashAnswered
    <3> QED BY <3>1, <3>2
  <2>5. ReplyInv'
    BY <2>1, <2>4 DEF ReplyInv
  <2> QED BY <2>2, <2>3, <2>5 DEF IInv
<1>16. CASE Return
  <2>1. phase' = "idle" /\ event' = NoEvent /\ heard' = <<>> /\ replies' = <<>>
    BY <1>16 DEF Return
  <2>2. ListInv' /\ HeardInv'
    BY <2>1, RestList DEF Dispatching, Forwarded
  <2>3. EventInv' /\ ReplyInv'
    BY <2>1 DEF EventInv, ReplyInv, SlashAnswered, Phases, Forwarded
  <2> QED BY <2>2, <2>3 DEF IInv
<1>17. CASE UNCHANGED vars
  <2>1. EventInv' /\ ListInv'
    BY <1>17, <1>A DEF vars, EventInv, ListInv
  <2>2. HeardInv'
    BY <1>17, <1>A DEF vars, HeardInv
  <2>3. ReplyInv'
    BY <1>17, <1>A DEF vars, ReplyInv, SlashAnswered, Answered, Owed
  <2> QED BY <2>1, <2>2, <2>3 DEF IInv
<1> QED
  BY <1>1, <1>2, <1>3, <1>4, <1>5, <1>6, <1>7, <1>8, <1>9, <1>10, <1>11, <1>12, <1>13,
     <1>14, <1>15, <1>16, <1>17 DEF Next, Arrival, Step

\* Hence IInv holds in every state.
LEMMA Invariant == FairSpec => []IInv
BY InitInv, Inductive, PTL DEF FairSpec

-----------------------------------------------------------------------------
(* The words and the text of a message *)

\* The texts of a mention and the name in their place.
LEMMA MentionTexts ==
  ASSUME NEW u \in Users
  PROVE  /\ Names[u] \in Seq(Chars)
         /\ Mentions[u][1] \in Seq(Chars) /\ Mentions[u][1] # <<>>
         /\ Mentions[u][2] \in Seq(Chars) /\ Mentions[u][2] # <<>>
<1>1. Names[u] \in Seq(Chars)
  BY HandlersAssumption
<1>2. Mentions[u] \in (Seq(Chars) \ {<<>>}) \X (Seq(Chars) \ {<<>>})
  BY HandlersAssumption
<1>3. /\ Mentions[u][1] \in Seq(Chars) \ {<<>>}
      /\ Mentions[u][2] \in Seq(Chars) \ {<<>>}
  BY <1>2
<1> QED BY <1>1, <1>3

\* Both forms of a mention give way as in two passes from the left.
LEMMA MentionGivesWay ==
  ASSUME NEW u \in Users, NEW s \in Seq(Chars)
  PROVE  LET r == ReplaceString(ReplaceString(s, Mentions[u][1], Names[u]),
                                Mentions[u][2], Names[u]) IN
         /\ r \in Seq(Chars)
         /\ r = Replaced(Replaced(s, Mentions[u][1], Names[u]), Mentions[u][2], Names[u])
<1> DEFINE a == Mentions[u][1]
           b == Mentions[u][2]
           n == Names[u]
           q == ReplaceString(s, a, n)
<1>1. a \in Seq(Chars) /\ a # <<>> /\ b \in Seq(Chars) /\ b # <<>> /\ n \in Seq(Chars)
  BY MentionTexts
<1> HIDE DEF a, b, n
<1>2. q \in Seq(Chars) /\ q = Replaced(s, a, n)
  BY <1>1, ReplaceStringSpells
<1> HIDE DEF q
<1>3. ReplaceString(q, b, n) \in Seq(Chars) /\ ReplaceString(q, b, n) = Replaced(q, b, n)
  BY <1>1, <1>2, ReplaceStringSpells
<1> QED BY Zenon, <1>2, <1>3 DEF a, b, n, q

\* What a message that arrives has.
LEMMA MessageParts ==
  ASSUME NEW m \in Messages
  PROVE  m.content \in Seq(Chars) /\ m.mentions \in Seq(Users)
BY HandlersAssumption

\* Taking the prefix off the first word leaves a list of words.
LEMMA EvaluateIn ==
  ASSUME result \in Seq(Seq(Chars)), EvaluateCommand
  PROVE  result' \in Seq(Seq(Chars))
<1> DEFINE r == [result EXCEPT ![1] = IF result[1] = <<>> THEN result[1] ELSE Tail(result[1])]
<1>1. result' = r
  BY DEF EvaluateCommand
<1>2. DOMAIN result = 1 .. Len(result) /\ Len(result) \in Nat
  BY LenProperties
<1>3. CASE Len(result) = 0
  <2>1. 1 \notin DOMAIN result
    BY <1>2, <1>3
  <2>2. r = result
    BY <1>2, <2>1
  <2> QED BY <1>1, <2>2
<1>4. CASE Len(result) # 0
  <2> DEFINE w == IF result[1] = <<>> THEN result[1] ELSE Tail(result[1])
  <2>1. 1 \in 1 .. Len(result)
    BY <1>2, <1>4
  <2>2. result[1] \in Seq(Chars)
    BY <2>1, ElementOfSeq
  <2>3. w \in Seq(Chars)
    BY <2>2, HeadTailProperties
  <2>4. r = [result EXCEPT ![1] = w]
    OBVIOUS
  <2> HIDE DEF w, r
  <2>5. [result EXCEPT ![1] = w] \in Seq(Seq(Chars))
    BY <2>1, <2>3, ExceptSeq
  <2> QED BY <1>1, <2>4, <2>5
<1> QED BY <1>2, <1>3, <1>4

-----------------------------------------------------------------------------
(* Types *)

\* The initial states are typed.
LEMMA TypeInit == Init => TypeOK
<1> SUFFICES ASSUME Init PROVE TypeOK
  OBVIOUS
<1>1. /\ mentions \in Seq(Users) /\ text \in Seq(Chars) /\ result \in Seq(Seq(Chars))
      /\ replies \in Seq(Replies)
  BY EmptySeq DEF Init
<1>2. DOMAIN heard = {}
  BY DEF Init
<1> QED BY <1>1, <1>2 DEF Init, TypeOK, Phases

\* What a module heard keeps its type by the list that names it.
LEMMA HeardTyped ==
  ASSUME IInv, TypeOK, phase \in Dispatching, queue # <<>>, NEW w, NEW o \in Outcomes, Hears(w, o)
  PROVE  \A i \in DOMAIN heard' : heard'[i].module \in Modules /\ heard'[i].ended \in Outcomes
<1> DEFINE x == [module |-> Head(queue), with |-> w, ended |-> o]
<1>1. Head(queue) \in Modules
  BY HeadTailProperties DEF IInv, ListInv
<1>2. heard \in Seq(Range(heard) \cup {x}) /\ x \in Range(heard) \cup {x}
  BY SeqMonotonic DEF IInv, HeardInv
<1>3. heard' = Append(heard, x)
  BY DEF Hears
<1>4. x.module \in Modules /\ x.ended \in Outcomes
  BY <1>1
<1>5. DOMAIN heard = 1 .. Len(heard) /\ Len(heard) \in Nat
  BY <1>2, LenProperties
<1> HIDE DEF x
<1>6. /\ heard' \in Seq(Range(heard) \cup {x}) /\ Len(heard') = Len(heard) + 1
      /\ \A i \in 1 .. Len(heard) : heard'[i] = heard[i]
      /\ heard'[Len(heard) + 1] = x
  BY <1>2, <1>3, AppendProperties
<1>7. DOMAIN heard' = 1 .. Len(heard')
  BY <1>6, LenProperties
<1>8. ASSUME NEW i \in DOMAIN heard'
      PROVE  heard'[i].module \in Modules /\ heard'[i].ended \in Outcomes
  <2>1. i \in DOMAIN heard \/ i = Len(heard) + 1
    BY <1>5, <1>6, <1>7
  <2>2. i \in DOMAIN heard => heard[i].module \in Modules /\ heard[i].ended \in Outcomes
    BY DEF TypeOK, Modules, Outcomes
  <2> QED BY <1>4, <1>5, <1>6, <2>1, <2>2
<1> QED BY <1>8

\* What every call that leaves text and tokens alone leaves typed.
LEMMA CallTyped ==
  ASSUME IInv, TypeOK, phase \in Dispatching, queue # <<>>,
         NEW w, NEW o \in Outcomes, Hears(w, o),
         UNCHANGED <<phase, event, mentions, text, mentioned>>,
         result' \in Seq(Seq(Chars)), replies' \in Seq(Replies),
         reacted' \subseteq Keywords, light' \in {"go", "stop"}
  PROVE  TypeOK'
<1>1. \A i \in DOMAIN heard' : heard'[i].module \in Modules /\ heard'[i].ended \in Outcomes
  BY HeardTyped
<1> QED BY <1>1 DEF TypeOK, Modules, Outcomes

\* One more reply.
LEMMA SaysTyped ==
  ASSUME TypeOK, NEW r \in Replies, Says(r)
  PROVE  replies' \in Seq(Replies)
BY AppendProperties DEF TypeOK, Says

\* Every step keeps the types: IInv knows the event and the list of modules.
LEMMA TypeStep == IInv /\ TypeOK /\ [Next]_vars => TypeOK'
<1> SUFFICES ASSUME IInv, TypeOK, [Next]_vars PROVE TypeOK'
  OBVIOUS
<1>T. /\ phase \in Phases /\ event \in Messages \cup Commands \cup {NoEvent}
      /\ mentions \in Seq(Users) /\ text \in Seq(Chars) /\ mentioned \in BOOLEAN
      /\ result \in Seq(Seq(Chars)) /\ replies \in Seq(Replies)
      /\ reacted \subseteq Keywords /\ light \in {"go", "stop"}
  BY DEF TypeOK
<1>1. CASE MessageIgnored \/ SlashArrives \/ Forward
  <2>1. /\ phase' \in Phases /\ event' \in Messages \cup Commands \cup {NoEvent}
        /\ UNCHANGED <<mentions, text, mentioned, result, heard, replies, reacted, light>>
    BY <1>T, <1>1 DEF MessageIgnored, SlashArrives, Forward, Arrives, Phases
  <2> QED BY <2>1 DEF TypeOK
<1>2. CASE MessageArrives
  <2>1. PICK m \in Messages : /\ event' = m /\ mentions' = m.mentions /\ text' = m.content
                              /\ phase' = "mentions"
                              /\ UNCHANGED <<mentioned, result, heard, replies, reacted, light>>
    BY <1>2 DEF MessageArrives, Arrives
  <2>2. mentions' \in Seq(Users) /\ text' \in Seq(Chars)
    BY <2>1, MessageParts
  <2> QED BY <2>1, <2>2 DEF TypeOK, Phases
<1>3. CASE ReplaceMention
  <2> DEFINE u == Head(mentions)
  <2>1. u \in Users /\ Tail(mentions) \in Seq(Users)
    BY <1>T, <1>3, HeadTailProperties DEF ReplaceMention
  <2>2. text' \in Seq(Chars)
    BY <1>T, <1>3, <2>1, MentionGivesWay DEF ReplaceMention
  <2>3. mentions' \in Seq(Users) /\ mentioned' \in BOOLEAN
    BY <1>T, <1>3, <2>1 DEF ReplaceMention
  <2>4. UNCHANGED <<phase, event, result, heard, replies, reacted, light>>
    BY <1>3 DEF ReplaceMention
  <2> QED BY <2>2, <2>3, <2>4 DEF TypeOK
<1>4. CASE MentionsDone \/ DispatchDone
  <2>1. /\ phase' \in Phases
        /\ UNCHANGED <<event, mentions, text, mentioned, result, heard, replies, reacted, light>>
    BY <1>4 DEF MentionsDone, DispatchDone, Phases
  <2> QED BY <2>1 DEF TypeOK
<1>5. CASE StripName
  <2>1. SubSeq(text, Len(BotName) + 1, Len(text)) \in Seq(Chars)
    BY <1>T, <1>5, DropIn, HandlersAssumption DEF StripName
  <2>2. text' \in Seq(Chars)
    BY <1>5, <2>1, TrimIn DEF StripName
  <2>3. UNCHANGED <<phase, event, mentions, mentioned, result, heard, replies, reacted, light>>
    BY <1>5 DEF StripName
  <2> QED BY <2>2, <2>3 DEF TypeOK
<1>6. CASE RouteMessage \/ RouteCommand
  <2>1. /\ phase = "name" /\ phase' \in Phases /\ text' = trim(text)
        /\ result' = result \/ result' = Tokens(event.content)
        /\ UNCHANGED <<event, mentions, mentioned, heard, replies, reacted, light>>
    BY <1>6 DEF RouteMessage, RouteCommand, Phases
  <2>2. text' \in Seq(Chars)
    BY <1>T, <2>1, TrimIn
  <2>3. event.content \in Seq(Chars)
    BY <2>1, MessageParts DEF IInv, EventInv
  <2>4. Tokens(event.content) \in Seq(Seq(Chars))
    <3>1. Len(event.content) \in Nat
      BY <2>3, LenProperties
    <3>2. 1 \in 1 .. Len(event.content) + 1
      BY <3>1
    <3> QED BY <2>3, <3>2, TokensJoin DEF Tokens, Lists
  <2> QED BY <1>T, <2>1, <2>2, <2>4 DEF TypeOK
<1>7. CASE CallCommand
  <2>1. result' \in Seq(Seq(Chars))
    BY <1>T, <1>7, EvaluateIn DEF CallCommand
  <2> QED BY <1>T, <1>7, <2>1, CallTyped, HandlersAssumption DEF CallCommand, Dispatching, Outcomes
<1>8. CASE CallMessage
  BY <1>T, <1>8, CallTyped, HandlersAssumption DEF CallMessage, Dispatching, Outcomes
<1>9. CASE CallDefault
  BY <1>T, <1>9, CallTyped DEF CallDefault, Dispatching, Outcomes
<1>10. CASE React
  <2>1. reacted' \subseteq Keywords
    BY <1>10 DEF React, Found
  <2> QED BY <1>T, <1>10, <2>1, CallTyped DEF React, Dispatching, Outcomes
<1>11. CASE PassBy
  BY <1>T, <1>11, CallTyped DEF PassBy, Dispatching, Outcomes
<1>12. ASSUME NEW m, NEW n, NEW o \in Outcomes, Handles(m, n, o), replies' \in Seq(Replies), light' \in {"go", "stop"}
       PROVE  TypeOK'
  BY <1>T, <1>12, CallTyped DEF Handles, Dispatching
<1>13. CASE StoplightTurns \/ StoplightFails \/ StoplightShots
  <2>1. PICK o \in Outcomes : Handles("stoplight", "stoplight", o)
    BY <1>13 DEF Outcomes, StoplightTurns, StoplightFails, StoplightShots
  <2>2. light' \in {"go", "stop"}
    BY <1>T, <1>13 DEF StoplightTurns, StoplightFails, StoplightShots, Turns
  <2>3. replies' \in Seq(Replies)
    <3>1. CASE StoplightTurns
      <4>1. event.sub \in {"start", "stop"} /\ Says(Done[event.sub])
        BY <3>1, SingleReplies DEF StoplightTurns
      <4>2. Done["start"] \in Replies /\ Done["stop"] \in Replies
        BY SingleReplies DEF Replies
      <4> QED BY <4>1, <4>2, SaysTyped
    <3>2. CASE StoplightFails \/ StoplightShots
      BY <1>T, <3>2 DEF StoplightFails, StoplightShots
    <3> QED BY <1>13, <3>1, <3>2
  <2> QED BY <1>12, <2>1, <2>2, <2>3
<1>14. CASE MailAlert \/ MailThrows
  <2>1. light' = light /\ \E o \in Outcomes : Handles("mail", "mailalert", o)
    BY <1>14 DEF Outcomes, MailAlert, MailThrows
  <2>2. replies' \in Seq(Replies)
    <3>1. CASE MailAlert
      <4>1. Says("alert") \/ Says("not resident")
        BY <3>1 DEF MailAlert
      <4>2. "alert" \in Replies /\ "not resident" \in Replies
        BY DEF Replies
      <4> QED BY <4>1, <4>2, SaysTyped
    <3>2. CASE MailThrows
      BY <1>T, <3>2 DEF MailThrows
    <3> QED BY <1>14, <3>1, <3>2
  <2> QED BY <1>T, <1>12, <2>1, <2>2
<1>15. CASE LdapReplies
  <2>1. /\ light' = light /\ Says("ldap")
        /\ \E o \in Outcomes : Handles("ldap", "ldap", o)
    BY <1>15 DEF Outcomes, LdapReplies
  <2>2. replies' \in Seq(Replies)
    BY <2>1, SaysTyped DEF Replies
  <2> QED BY <1>T, <1>12, <2>1, <2>2
<1>16. CASE Return
  <2>1. text' \in Seq(Chars) /\ result' \in Seq(Seq(Chars)) /\ replies' \in Seq(Replies)
    BY <1>16, EmptySeq DEF Return
  <2>2. DOMAIN heard' = {}
    BY <1>16 DEF Return
  <2> QED BY <1>T, <1>16, <2>1, <2>2 DEF Return, TypeOK, Phases
<1>17. CASE UNCHANGED vars
  BY <1>17 DEF vars, TypeOK
<1> QED
  BY <1>1, <1>2, <1>3, <1>4, <1>5, <1>6, <1>7, <1>8, <1>9, <1>10, <1>11, <1>13, <1>14,
     <1>15, <1>16, <1>17 DEF Next, Arrival, Step

-----------------------------------------------------------------------------
(* The words of a command *)

\* The tokens of a command stay as they are until its one listener is called.
CommandInv ==
  /\ phase = "OnCommand" => /\ IsCommand
                            /\ heard = <<>> => result = Tokens(event.content)
  /\ CommandWords

\* Only one module listens to OnCommand: it is called first or not at all.
LEMMA OneListener ==
  ASSUME IInv, phase = "OnCommand", queue # <<>>
  PROVE  heard = <<>>
<1> DEFINE l == list_to_call
<1>1. l \in Seq({"spotify"}) /\ IsInjective(l)
  <2>1. l \in HandlerLists["OnCommand"]
    BY DEF IInv, ListInv, Dispatching
  <2> QED BY <2>1, ListsKnown DEF Dispatching, Attaching
<1>2. Len(l) \in Nat /\ DOMAIN l = 1 .. Len(l) /\ \A i \in 1 .. Len(l) : l[i] = "spotify"
  BY <1>1, LenProperties, ElementOfSeq
<1>3. Len(l) <= 1
  <2> SUFFICES ASSUME Len(l) > 1 PROVE FALSE
    BY <1>2
  <2>1. 1 \in 1 .. Len(l) /\ 2 \in 1 .. Len(l)
    BY <1>2
  <2>2. l[1] = l[2] /\ 1 \in DOMAIN l /\ 2 \in DOMAIN l
    BY <1>2, <2>1
  <2> QED BY <1>1, <2>2 DEF IsInjective
<1>4. Len(heard) + Len(queue) = Len(l)
  BY DEF IInv, HeardInv, Dispatching
<1>5. Len(queue) \in Nat \ {0}
  BY EmptySeq DEF IInv, ListInv, Dispatching
<1>6. Len(heard) \in Nat /\ (heard # <<>> => Len(heard) # 0)
  BY LenProperties, EmptySeq DEF IInv, HeardInv
<1> HIDE DEF l
<1> QED BY <1>2, <1>3, <1>4, <1>5, <1>6

\* A command begins with the prefix.
LEMMA PrefixFirst ==
  ASSUME NEW s \in Seq(Chars), IsPrefix(<<Prefix>>, s)
  PROVE  s # <<>> /\ s[1] # Space
<1>1. Prefix \in Chars /\ Prefix # Space
  BY HandlersAssumption
<1> DEFINE p == <<Prefix>>
<1>2. p \in Seq(Chars) /\ Len(p) = 1 /\ p[1] = Prefix /\ Len(s) \in Nat
  BY <1>1, LenProperties
<1> HIDE DEF p
<1>3. Len(p) <= Len(s) /\ SubSeq(p, 1, Len(p)) = SubSeq(s, 1, Len(p))
  BY Zenon DEF IsPrefix, p
<1>4. 1 <= Len(s) /\ p = SubSeq(s, 1, 1)
  <2>1. SubSeq(p, 1, Len(p)) = p
    BY <1>2, SubSeqFull
  <2> QED BY Zenon, <1>2, <1>3, <2>1
<1>5. SubSeq(s, 1, 1)[1] = s[1]
  <2>1. PICK k \in 1 .. Len(s) : k = 1
    BY <1>2, <1>4
  <2>2. /\ k \in 1 .. Len(s) + 1 /\ k \in k - 1 .. Len(s)
        /\ 1 \in 1 .. k - k + 1 /\ k + 1 - 1 = k
    BY <1>2
  <2>3. \A i \in 1 .. k - k + 1 : SubSeq(s, k, k)[i] = s[k + i - 1]
    BY <2>2, Slice
  <2>4. SubSeq(s, k, k)[1] = s[k + 1 - 1]
    BY Zenon, <2>2, <2>3
  <2> QED BY Zenon, <2>1, <2>2, <2>4
<1>6. s[1] = Prefix
  BY Zenon, <1>2, <1>4, <1>5
<1>7. s # <<>>
  BY <1>2, <1>4, EmptySeq
<1> QED BY <1>1, <1>6, <1>7

\* What the listener of a command gets.
LEMMA CommandHeard ==
  ASSUME IInv, CommandInv, CallCommand
  PROVE  CommandWords'
<1> DEFINE s == event.content
           words == Tokens(s)
           rest == [words EXCEPT ![1] = Tail(@)]
<1>1. phase = "OnCommand" /\ event' = event /\ event \in Messages /\ heard = <<>>
  <2>1. phase = "OnCommand" /\ queue # <<>> /\ event' = event
    BY DEF CallCommand
  <2> QED BY <2>1, OneListener DEF IInv, EventInv
<1>2. s \in Seq(Chars) /\ s # <<>> /\ s[1] # Space
  BY <1>1, MessageParts, PrefixFirst DEF CommandInv, IsCommand
<1>3. words[1] # <<>> /\ Joined(rest) = Tail(s)
  BY <1>2, CommandJoins
<1>4. result' = rest
  BY <1>1, <1>3 DEF CommandInv, CallCommand, EvaluateCommand
<1> DEFINE with == [command |-> lowercase(result'[1]), params |-> result']
<1>A. PICK o \in Returns : Hears(with, o)
  BY DEF CallCommand
<1> DEFINE x == [module |-> Head(queue), with |-> with, ended |-> o]
<1>5. heard' = Append(<<>>, x)
  BY <1>1, <1>A DEF Hears
<1>6. x.with.command = lowercase(x.with.params[1]) /\ x.with.params = rest
  BY <1>4
<1>7. event'.content = s
  BY <1>1
<1> HIDE DEF x, rest, s
<1>8. \A i \in DOMAIN heard' : heard'[i] = x
  BY <1>5
<1> QED BY <1>3, <1>6, <1>7, <1>8 DEF CommandWords

\* The invariant of a command is inductive.
LEMMA CommandStep == IInv /\ CommandInv /\ [Next]_vars => CommandInv'
<1> SUFFICES ASSUME IInv, CommandInv, [Next]_vars PROVE CommandInv'
  OBVIOUS
<1>1. CASE CallCommand
  <2>1. CommandWords'
    BY <1>1, CommandHeard
  <2>2. phase = "OnCommand" /\ UNCHANGED event /\ heard' # <<>>
    <3>1. heard \in Seq(Range(heard)) /\ \E x : heard' = Append(heard, x)
      BY <1>1 DEF CallCommand, Hears, IInv, HeardInv
    <3>2. PICK x : heard' = Append(heard, x)
      BY <3>1
    <3>3. heard \in Seq(Range(heard) \cup {x}) /\ x \in Range(heard) \cup {x}
      BY <3>1, SeqMonotonic
    <3>4. heard' # <<>>
      BY <3>2, <3>3, AppendProperties
    <3> QED BY <1>1, <3>4 DEF CallCommand
  <2>3. IsCommand'
    BY <2>2 DEF CommandInv, IsCommand
  <2> QED BY <2>1, <2>2, <2>3 DEF CommandInv
<1>2. CASE RouteCommand
  <2>1. /\ phase' = "OnCommand" /\ event' = event /\ IsCommand /\ heard' = <<>>
        /\ result' = Tokens(event.content)
    BY <1>2 DEF RouteCommand, IInv, HeardInv
  <2>2. DOMAIN heard' = {}
    BY <2>1
  <2> QED BY <2>1, <2>2 DEF CommandInv, CommandWords, IsCommand
<1>3. CASE \/ MessageIgnored \/ MessageArrives \/ SlashArrives \/ Forward \/ ReplaceMention
           \/ MentionsDone \/ StripName \/ RouteMessage \/ DispatchDone \/ Return
  <2>1. phase' # "OnCommand"
    BY <1>3 DEF MessageIgnored, MessageArrives, SlashArrives, Forward, ReplaceMention,
                MentionsDone, StripName, RouteMessage, DispatchDone, Return, Forwarded
  <2> QED BY <2>1 DEF CommandInv, CommandWords
<1>4. CASE \/ CallMessage \/ CallDefault \/ React \/ PassBy \/ StoplightTurns
           \/ StoplightFails \/ StoplightShots \/ MailAlert \/ MailThrows \/ LdapReplies
  <2>1. phase' # "OnCommand"
    BY <1>4 DEF CallMessage, CallDefault, React, PassBy, StoplightTurns, StoplightFails,
                StoplightShots, MailAlert, MailThrows, LdapReplies, Handles, Forwarded
  <2> QED BY <2>1 DEF CommandInv, CommandWords
<1>5. CASE UNCHANGED vars
  BY <1>5 DEF vars, CommandInv, CommandWords, IsCommand
<1> QED BY <1>1, <1>2, <1>3, <1>4, <1>5 DEF Next, Arrival, Step

-----------------------------------------------------------------------------
(* The cleaned text *)

\* No mention of the user is left.
Rid(u) == \A f \in {1, 2} : Without(text, lowercase(Mentions[u][f]))

\* Who was mentioned is rid of or still to come; the text begins with no blank, so that the last
\* trim does not bring the bot's name to its front.
MentionInv ==
  /\ phase \in {"mentions", "name"} => (text # <<>> => text[1] \notin Blanks)
  /\ phase \in {"name", "OnMessage"} => mentions = <<>>
  /\ phase \in {"mentions", "name", "OnMessage"} =>
       \A i \in DOMAIN event.mentions :
         event.mentions[i] \in Range(mentions) \/ Rid(event.mentions[i])
  /\ phase = "OnMessage" => Trimmed(text) /\ ~IsPrefix(BotName, text)

\* The cleaning has nothing to take away from the message.
Plain == event.mentions = <<>> /\ ~IsPrefix(BotName, event.content)

PlainInv ==
  phase \in {"mentions", "name", "OnMessage"} /\ Plain => mentions = <<>> /\ text = event.content

ReactionsHeard == \E i \in DOMAIN heard : heard[i].module = "reactions"

InContent == {k \in Keywords : \E p \in 0 .. Len(event.content) - Len(k) :
                                 OccursAt(lowercase(event.content), k, p)}

ReactInv ==
  /\ phase \in Dispatching \ {"OnMessage"} => "reactions" \notin Range(queue)
  /\ ReactionsHeard => /\ phase \in {"OnMessage", "done"}
                       /\ Plain => reacted = InContent

\* A mention cannot come to stand where a name was put.
LEMMA MentionsApart ==
  ASSUME NamesApart, NEW u \in Users, NEW v \in Users, NEW f \in {1, 2}
  PROVE  Apart(lowercase(Mentions[u][f]), Names[v])
<1> DEFINE M == Mentions[u][f]
           N == Names[v]
           k == lowercase(M)
           n == lowercase(N)
<1>1. M \in Seq(Chars) /\ M # <<>> /\ N \in Seq(Chars)
  BY MentionTexts
<1>2. k[1] \notin Range(n) /\ Last(k) \notin Range(n) /\ ~(Range(n) \subseteq Range(k))
  BY DEF NamesApart
<1> HIDE DEF M, N
<1>3. k \in Seq(Chars) /\ Len(k) = Len(M) /\ Len(M) \in Nat \ {0}
  BY <1>1, LowerCase, LenProperties, EmptySeq
<1>4. n \in Seq(Chars) /\ Len(n) = Len(N) /\ \A i \in 1 .. Len(N) : n[i] = Lower[N[i]]
  BY <1>1, LowerCase
<1> HIDE DEF k, n
<1>5. k # <<>> /\ DOMAIN k = 1 .. Len(k) /\ DOMAIN n = 1 .. Len(N) /\ Last(k) = k[Len(k)]
  BY <1>3, <1>4, LenProperties, EmptySeq DEF Last
<1>6. ASSUME NEW i \in 1 .. Len(N) PROVE Lower[N[i]] # k[1] /\ Lower[N[i]] # k[Len(k)]
  <2>1. n[i] \in Range(n) /\ n[i] = Lower[N[i]]
    BY <1>4, <1>5 DEF Range
  <2> QED BY <1>2, <1>5, <2>1
<1>7. \E i \in 1 .. Len(N) : \A j \in 1 .. Len(k) : Lower[N[i]] # k[j]
  <2>1. PICK x \in Range(n) : x \notin Range(k)
    BY <1>2
  <2>2. PICK i \in 1 .. Len(N) : x = n[i]
    BY <1>5, <2>1 DEF Range
  <2>3. \A j \in 1 .. Len(k) : k[j] \in Range(k)
    BY <1>5 DEF Range
  <2> QED BY Zenon, <1>4, <2>1, <2>2, <2>3
<1>8. Apart(k, N)
  BY Zenon, <1>5, <1>6, <1>7 DEF Apart
<1> QED BY <1>8 DEF M, N, k

\* Once the mentions of a user gave way the text is rid of them, and of those it was rid of.
LEMMA MentionRids ==
  ASSUME NamesApart, NEW u \in Users, NEW v \in Users, NEW s \in Seq(Chars), NEW f \in {1, 2},
         v # u => Without(s, lowercase(Mentions[v][f]))
  PROVE  Without(ReplaceString(ReplaceString(s, Mentions[u][1], Names[u]),
                               Mentions[u][2], Names[u]),
                 lowercase(Mentions[v][f]))
<1> DEFINE a == Mentions[u][1]
           b == Mentions[u][2]
           n == Names[u]
           k == lowercase(Mentions[v][f])
           q == Replaced(s, a, n)
           r == ReplaceString(ReplaceString(s, a, n), b, n)
<1>1. a \in Seq(Chars) /\ a # <<>> /\ b \in Seq(Chars) /\ b # <<>> /\ n \in Seq(Chars)
  BY MentionTexts
<1>2. k \in Seq(Chars) /\ Apart(k, n)
  BY MentionsApart, MentionTexts, LowerCase
<1>3. r = Replaced(q, b, n)
  BY MentionGivesWay
<1>4. v = u => k = lowercase(a) \/ k = lowercase(b)
  OBVIOUS
<1>5. v # u => Without(s, k)
  OBVIOUS
<1> HIDE DEF a, b, n, k, r
<1>6. q \in Seq(Chars)
  BY <1>1, ReplaceStringSpells
<1>7. k = lowercase(a) \/ Without(s, k) => Without(q, k)
  <2>1. /\ k = lowercase(a) => Without(Replaced(s, a, n), k)
        /\ Without(s, k) => Without(Replaced(s, a, n), k)
    BY Zenon, <1>1, <1>2, ReplacingRids
  <2> QED BY Zenon, <2>1
<1> HIDE DEF q
<1>8. /\ k = lowercase(b) => Without(Replaced(q, b, n), k)
      /\ Without(q, k) => Without(Replaced(q, b, n), k)
  BY Zenon, <1>1, <1>2, <1>6, ReplacingRids
<1>9. Without(r, k)
  BY Zenon, <1>3, <1>4, <1>5, <1>7, <1>8
<1> QED BY <1>9 DEF a, b, n, k, r

\* And it still begins with no blank.
LEMMA MentionFront ==
  ASSUME DiscordTrims, NamesApart, NEW u \in Users, NEW s \in Seq(Chars),
         s # <<>> => s[1] \notin Blanks
  PROVE  LET r == ReplaceString(ReplaceString(s, Mentions[u][1], Names[u]),
                                Mentions[u][2], Names[u]) IN
         r # <<>> => r[1] \notin Blanks
<1> DEFINE a == Mentions[u][1]
           b == Mentions[u][2]
           n == Names[u]
           q == Replaced(s, a, n)
           r == ReplaceString(ReplaceString(s, a, n), b, n)
<1>1. a \in Seq(Chars) /\ a # <<>> /\ b \in Seq(Chars) /\ b # <<>> /\ n \in Seq(Chars)
  BY MentionTexts
<1>2. n # <<>>
  <2>1. Apart(lowercase(a), n)
    BY MentionsApart
  <2> HIDE DEF a, n
  <2>2. \E i \in 1 .. Len(n) : TRUE
    BY <2>1 DEF Apart
  <2> QED BY <2>2, EmptySeq
<1>3. n[1] \notin Blanks
  <2>1. trim(n) = n
    BY DEF DiscordTrims
  <2> HIDE DEF n
  <2>2. Trimmed(trim(n))
    BY <1>1, TrimTrims
  <2> QED BY <1>2, <2>1, <2>2 DEF Trimmed
<1>4. r = Replaced(q, b, n)
  BY MentionGivesWay
<1> HIDE DEF a, b, n, r
<1>5. q \in Seq(Chars) /\ (q # <<>> => q[1] \notin Blanks)
  <2>1. q \in Seq(Chars)
    BY <1>1, ReplaceStringSpells
  <2> QED BY Zenon, <1>1, <1>2, <1>3, <2>1, ReplacingFront
<1> HIDE DEF q
<1>6. r # <<>> => r[1] \notin Blanks
  BY Zenon, <1>1, <1>2, <1>3, <1>4, <1>5, ReplacingFront
<1> QED BY <1>6 DEF a, b, n, r

\* An element of a list is its head or in its tail.
LEMMA HeadOrTail ==
  ASSUME NEW S, NEW q \in Seq(S), q # <<>>, NEW x \in Range(q)
  PROVE  x = Head(q) \/ x \in Range(Tail(q))
<1>1. /\ Tail(q) \in Seq(S) /\ Len(Tail(q)) = Len(q) - 1
      /\ \A i \in 1 .. Len(Tail(q)) : Tail(q)[i] = q[i + 1]
  BY HeadTailProperties
<1>2. /\ Len(q) \in Nat \ {0} /\ DOMAIN q = 1 .. Len(q)
      /\ DOMAIN Tail(q) = 1 .. Len(q) - 1 /\ Head(q) = q[1]
  BY <1>1, LenProperties, EmptySeq
<1>3. PICK i \in 1 .. Len(q) : x = q[i]
  BY <1>2 DEF Range
<1>4. CASE i = 1
  BY <1>2, <1>3, <1>4
<1>5. CASE i # 1
  <2>1. i - 1 \in 1 .. Len(q) - 1 /\ Tail(q)[i - 1] = q[i]
    BY <1>1, <1>2, <1>5
  <2> QED BY <1>2, <1>3, <2>1 DEF Range
<1> QED BY <1>4, <1>5

\* A module that handles a slash command does so as one call of the loop.
LEMMA ModuleCalls ==
  ASSUME \/ StoplightTurns \/ StoplightFails \/ StoplightShots \/ MailAlert \/ MailThrows
         \/ LdapReplies
  PROVE  \E m, n, o : Handles(m, n, o)
<1>1. CASE StoplightTurns \/ StoplightFails \/ StoplightShots
  BY Zenon, <1>1 DEF StoplightTurns, StoplightFails, StoplightShots
<1>2. CASE MailAlert \/ MailThrows
  BY Zenon, <1>2 DEF MailAlert, MailThrows
<1>3. CASE LdapReplies
  BY Zenon, <1>3 DEF LdapReplies
<1> QED BY Zenon, <1>1, <1>2, <1>3

\* The steps that lead nowhere in the way of a message.
LEMMA OtherPhases ==
  ASSUME \/ MessageIgnored \/ SlashArrives \/ Forward \/ RouteCommand \/ CallCommand
         \/ CallDefault \/ PassBy \/ StoplightTurns \/ StoplightFails \/ StoplightShots
         \/ MailAlert \/ MailThrows \/ LdapReplies \/ DispatchDone \/ Return
  PROVE  phase' \notin {"mentions", "name", "OnMessage"}
<1>1. CASE MessageIgnored \/ SlashArrives \/ Forward \/ RouteCommand \/ DispatchDone \/ Return
  BY <1>1 DEF MessageIgnored, SlashArrives, Forward, RouteCommand, DispatchDone, Return, Forwarded
<1>2. CASE CallCommand \/ CallDefault
  BY <1>2 DEF CallCommand, CallDefault, Forwarded
<1>3. CASE PassBy
  BY <1>3 DEF PassBy
<1>4. CASE \/ StoplightTurns \/ StoplightFails \/ StoplightShots \/ MailAlert \/ MailThrows
           \/ LdapReplies
  BY <1>4, ModuleCalls DEF Handles
<1> QED BY <1>1, <1>2, <1>3, <1>4

\* Who is rid of stays so in a text without the same mentions.
LEMMA RidKept ==
  ASSUME TypeOK, NEW i \in DOMAIN event.mentions, event' = event,
         event.mentions[i] \in Users, Rid(event.mentions[i]),
         \A k \in Seq(Chars) : Without(text, k) => Without(text', k)
  PROVE  Rid(event.mentions[i])'
<1> DEFINE u == event.mentions[i]
<1>1. \A f \in {1, 2} : lowercase(Mentions[u][f]) \in Seq(Chars)
  BY MentionTexts, LowerCase
<1>2. \A f \in {1, 2} : Without(text', lowercase(Mentions[u][f]))
  BY <1>1 DEF Rid
<1>3. event'.mentions[i] = u
  BY Zenon
<1> HIDE DEF u
<1> QED BY <1>2, <1>3 DEF Rid

\* The invariant of the cleaned text is inductive.
LEMMA MentionStep ==
  ASSUME DiscordTrims, NamesApart, IInv, TypeOK, MentionInv, [Next]_vars
  PROVE  MentionInv'
<1>T. text \in Seq(Chars) /\ mentions \in Seq(Users)
  BY DEF TypeOK
<1>E. phase \in {"mentions", "name", "OnMessage"} =>
        /\ event \in Messages /\ event.mentions \in Seq(Users)
        /\ \A i \in DOMAIN event.mentions : event.mentions[i] \in Users
  BY MessageParts, LenProperties, ElementOfSeq DEF IInv, EventInv
<1>1. CASE MessageArrives
  <2>1. PICK m \in Messages : /\ event' = m /\ mentions' = m.mentions /\ text' = m.content
                              /\ phase' = "mentions"
    BY <1>1 DEF MessageArrives, Arrives
  <2>2. m.content \in Seq(Chars) /\ Trimmed(trim(m.content)) /\ trim(m.content) = m.content
    BY MessageParts, TrimTrims DEF DiscordTrims
  <2>3. text' # <<>> => text'[1] \notin Blanks
    BY <2>1, <2>2 DEF Trimmed
  <2>4. \A i \in DOMAIN event'.mentions : event'.mentions[i] \in Range(mentions')
    BY <2>1 DEF Range
  <2> QED BY <2>1, <2>3, <2>4 DEF MentionInv
<1>2. CASE ReplaceMention
  <2> DEFINE u == Head(mentions)
             r == ReplaceString(ReplaceString(text, Mentions[u][1], Names[u]),
                                Mentions[u][2], Names[u])
  <2>1. /\ phase = "mentions" /\ phase' = phase /\ event' = event /\ mentions # <<>>
        /\ text' = r /\ mentions' = Tail(mentions)
    BY <1>2 DEF ReplaceMention
  <2>2. u \in Users
    BY <1>T, <2>1, HeadTailProperties
  <2>3. r # <<>> => r[1] \notin Blanks
    BY <1>T, <2>1, <2>2, MentionFront DEF MentionInv
  <2>4. ASSUME NEW v \in Users, v # u => Rid(v) PROVE Rid(v)'
    <3>1. ASSUME NEW f \in {1, 2} PROVE Without(r, lowercase(Mentions[v][f]))
      <4>1. v # u => Without(text, lowercase(Mentions[v][f]))
        BY <2>4 DEF Rid
      <4> QED BY <1>T, <2>2, <4>1, MentionRids
    <3> HIDE DEF r
    <3> QED BY <2>1, <3>1 DEF Rid
  <2> HIDE DEF r
  <2>5. ASSUME NEW i \in DOMAIN event.mentions
        PROVE  event.mentions[i] \in Range(mentions') \/ Rid(event.mentions[i])'
    <3> DEFINE v == event.mentions[i]
    <3>1. v \in Users /\ (v \in Range(mentions) \/ Rid(v))
      BY <1>E, <2>1 DEF MentionInv
    <3>2. v \in Range(mentions) => v = u \/ v \in Range(Tail(mentions))
      BY <1>T, <2>1, HeadOrTail
    <3>3. v = u \/ Rid(v) => Rid(v)'
      <4>1. event'.mentions[i] = v
        BY Zenon, <2>1
      <4> HIDE DEF v, u
      <4>2. (v # u => Rid(v)) => \A f \in {1, 2} : Without(text', lowercase(Mentions[v][f]))
        BY <2>4, <3>1 DEF Rid
      <4> QED BY <4>1, <4>2 DEF Rid, v
    <3> QED BY <2>1, <3>1, <3>2, <3>3
  <2> QED BY <2>1, <2>3, <2>5 DEF MentionInv
<1>3. CASE MentionsDone
  <2>1. /\ phase = "mentions" /\ phase' = "name" /\ mentions = <<>>
        /\ UNCHANGED <<event, mentions, text>>
    BY <1>3 DEF MentionsDone
  <2> QED BY <2>1 DEF MentionInv, Rid
<1>4. CASE StripName
  <2> DEFINE rest == SubSeq(text, Len(BotName) + 1, Len(text))
  <2>1. /\ phase = "name" /\ phase' = phase /\ IsPrefix(BotName, text) /\ text' = trim(rest)
        /\ UNCHANGED <<event, mentions>>
    BY <1>4 DEF StripName
  <2>2. BotName \in Seq(Chars) /\ rest \in Seq(Chars)
    BY <1>T, <2>1, DropIn, HandlersAssumption
  <2>3. \A k \in Seq(Chars) : Without(text, k) => Without(rest, k)
    BY <1>T, <2>1, <2>2, WithoutDropped
  <2> HIDE DEF rest
  <2>4. \A k \in Seq(Chars) : Without(text, k) => Without(text', k)
    BY <2>1, <2>2, <2>3, WithoutTrimmed
  <2>5. \A i \in DOMAIN event.mentions : Rid(event.mentions[i])'
    <3>1. \A i \in DOMAIN event.mentions : event.mentions[i] \in Users /\ Rid(event.mentions[i])
      BY <1>E, <2>1 DEF MentionInv, Range
    <3> QED BY <2>1, <2>4, <3>1, RidKept
  <2>6. text' # <<>> => text'[1] \notin Blanks
    BY <2>1, <2>2, TrimTrims DEF Trimmed
  <2> QED BY <2>1, <2>5, <2>6 DEF MentionInv
<1>5. CASE RouteMessage
  <2>1. /\ phase = "name" /\ phase' = "OnMessage" /\ ~IsPrefix(BotName, text)
        /\ text' = trim(text) /\ UNCHANGED <<event, mentions>>
    BY <1>5 DEF RouteMessage
  <2>2. \A k \in Seq(Chars) : Without(text, k) => Without(text', k)
    BY <1>T, <2>1, WithoutTrimmed
  <2>3. \A i \in DOMAIN event.mentions : Rid(event.mentions[i])'
    <3>1. \A i \in DOMAIN event.mentions : event.mentions[i] \in Users /\ Rid(event.mentions[i])
      BY <1>E, <2>1 DEF MentionInv, Range
    <3> QED BY <2>1, <2>2, <3>1, RidKept
  <2>4. Trimmed(text')
    BY <1>T, <2>1, TrimTrims
  <2>5. ~IsPrefix(BotName, text')
    BY <1>T, <2>1, TrimmedEnd, HandlersAssumption DEF MentionInv
  <2> QED BY <2>1, <2>3, <2>4, <2>5 DEF MentionInv
<1>6. CASE \/ MessageIgnored \/ SlashArrives \/ Forward \/ RouteCommand \/ CallCommand
           \/ CallDefault \/ PassBy \/ StoplightTurns \/ StoplightFails \/ StoplightShots
           \/ MailAlert \/ MailThrows \/ LdapReplies \/ DispatchDone \/ Return
  <2>1. phase' \notin {"mentions", "name", "OnMessage"}
    BY <1>6, OtherPhases
  <2> QED BY <2>1 DEF MentionInv
<1>7. CASE CallMessage \/ React \/ UNCHANGED vars
  <2>1. UNCHANGED <<phase, event, mentions, text>>
    BY <1>7 DEF CallMessage, React, vars
  <2> QED BY <2>1 DEF MentionInv, Rid
<1> QED BY <1>1, <1>2, <1>3, <1>4, <1>5, <1>6, <1>7 DEF Next, Arrival, Step

\* A plain message is handed on as it came.
LEMMA PlainStep ==
  ASSUME DiscordTrims, IInv, TypeOK, PlainInv, [Next]_vars
  PROVE  PlainInv'
<1>1. CASE MessageArrives
  BY <1>1 DEF MessageArrives, Arrives, PlainInv, Plain
<1>2. CASE ReplaceMention \/ MentionsDone \/ StripName \/ CallMessage \/ React \/ UNCHANGED vars
  <2>1. /\ phase \in {"mentions", "name", "OnMessage"} \/ UNCHANGED vars
        /\ phase' \in {"mentions", "name", "OnMessage"} \/ UNCHANGED vars
        /\ event' = event
        /\ ReplaceMention \/ StripName \/ UNCHANGED <<mentions, text>>
    BY <1>2 DEF ReplaceMention, MentionsDone, StripName, CallMessage, React, vars
  <2>2. CASE ReplaceMention \/ StripName
    <3>1. ~Plain
      BY <2>2 DEF ReplaceMention, StripName, PlainInv, Plain
    <3> QED BY <2>1, <3>1 DEF PlainInv, Plain
  <2>3. CASE UNCHANGED <<mentions, text>>
    BY <2>1, <2>3 DEF PlainInv, Plain, vars
  <2> QED BY <2>1, <2>2, <2>3
<1>3. CASE RouteMessage
  <2>1. /\ phase = "name" /\ text' = trim(text) /\ UNCHANGED <<event, mentions>>
    BY <1>3 DEF RouteMessage
  <2>2. event \in Messages
    BY <2>1 DEF IInv, EventInv
  <2>3. trim(event.content) = event.content
    BY <2>2 DEF DiscordTrims
  <2> QED BY <2>1, <2>3 DEF PlainInv, Plain
<1>4. CASE \/ MessageIgnored \/ SlashArrives \/ Forward \/ RouteCommand \/ CallCommand
           \/ CallDefault \/ PassBy \/ StoplightTurns \/ StoplightFails \/ StoplightShots
           \/ MailAlert \/ MailThrows \/ LdapReplies \/ DispatchDone \/ Return
  <2>1. phase' \notin {"mentions", "name", "OnMessage"}
    BY <1>4, OtherPhases
  <2> QED BY <2>1 DEF PlainInv
<1> QED BY <1>1, <1>2, <1>3, <1>4 DEF Next, Arrival, Step

\* No list but that of OnMessage has reactions.
LEMMA OtherLists ==
  ASSUME NEW e \in Dispatching \ {"OnMessage"}, NEW list \in HandlerLists[e]
  PROVE  "reactions" \notin Range(list)
<1>1. list \in Seq(Attaching[e])
  BY ListsKnown
<1>2. "reactions" \notin Attaching[e]
  BY DEF Attaching, Dispatching, Forwarded
<1> QED BY <1>1, <1>2, LenProperties, ElementOfSeq DEF Range

\* Who has heard of an event after one more call.
LEMMA OneMoreHeard ==
  ASSUME IInv, phase \in Dispatching, queue # <<>>, NEW w, NEW o, Hears(w, o), ReactionsHeard'
  PROVE  ReactionsHeard \/ Head(queue) = "reactions"
<1> DEFINE x == [module |-> Head(queue), with |-> w, ended |-> o]
<1>1. heard \in Seq(Range(heard) \cup {x}) /\ x \in Range(heard) \cup {x}
  BY SeqMonotonic DEF IInv, HeardInv
<1>2. heard' = Append(heard, x)
  BY DEF Hears
<1>3. DOMAIN heard = 1 .. Len(heard) /\ Len(heard) \in Nat
  BY <1>1, LenProperties
<1>4. x.module = Head(queue)
  OBVIOUS
<1> HIDE DEF x
<1>5. /\ heard' \in Seq(Range(heard) \cup {x}) /\ Len(heard') = Len(heard) + 1
      /\ \A i \in 1 .. Len(heard) : heard'[i] = heard[i]
      /\ heard'[Len(heard) + 1] = x
  BY <1>1, <1>2, AppendProperties
<1>6. DOMAIN heard' = 1 .. Len(heard')
  BY <1>5, LenProperties
<1>7. PICK i \in DOMAIN heard' : heard'[i].module = "reactions"
  BY DEF ReactionsHeard
<1>8. i \in DOMAIN heard \/ i = Len(heard) + 1
  BY <1>3, <1>5, <1>6
<1> QED BY <1>3, <1>4, <1>5, <1>7, <1>8 DEF ReactionsHeard

\* A call outside OnMessage is of another module.
LEMMA OtherCalls ==
  ASSUME IInv, ReactInv, phase \in Dispatching \ {"OnMessage"}, phase' = phase,
         queue # <<>>, NEW w, NEW o, Hears(w, o)
  PROVE  ReactInv'
<1>1. queue \in Seq(Modules) /\ IsInjective(queue)
  BY DEF IInv, ListInv
<1>2. "reactions" \notin Range(queue) /\ ~ReactionsHeard
  BY DEF ReactInv, Dispatching, Forwarded
<1>3. Head(queue) \in Range(queue) /\ Range(Tail(queue)) \subseteq Range(queue)
  BY <1>1, TailLeaves
<1>4. ~ReactionsHeard'
  BY <1>2, <1>3, OneMoreHeard
<1>5. "reactions" \notin Range(queue')
  <2>1. queue' = Tail(queue) \/ queue' = <<>>
    BY DEF Hears, GoOn
  <2>2. Range(<<>>) = {}
    BY DEF Range
  <2> QED BY <1>2, <1>3, <2>1, <2>2
<1> QED BY <1>4, <1>5 DEF ReactInv

\* The reactions are those of the message's own keywords.
LEMMA ReactStep ==
  ASSUME IInv, TypeOK, PlainInv, ReactInv, [Next]_vars
  PROVE  ReactInv'
<1>1. CASE \/ MessageIgnored \/ MessageArrives \/ ReplaceMention \/ MentionsDone \/ StripName
           \/ RouteMessage \/ Return
  <2>1. phase' \notin Dispatching \ {"OnMessage"}
    BY <1>1 DEF MessageIgnored, MessageArrives, ReplaceMention, MentionsDone, StripName,
                RouteMessage, Return, Dispatching, Forwarded
  <2>2. heard' = <<>>
    BY <1>1 DEF MessageIgnored, MessageArrives, Arrives, ReplaceMention, MentionsDone, StripName,
                RouteMessage, Return, IInv, HeardInv
  <2>3. ~ReactionsHeard'
    BY <2>2 DEF ReactionsHeard
  <2> QED BY <2>1, <2>3 DEF ReactInv
<1>2. CASE SlashArrives \/ Forward \/ RouteCommand
  <2>1. /\ phase' \in Dispatching \ {"OnMessage"} /\ queue' \in HandlerLists[phase'] /\ heard' = <<>>
    BY <1>2 DEF SlashArrives, Forward, RouteCommand, Copies, Arrives, IInv, HeardInv, Dispatching,
                Forwarded
  <2>2. ~ReactionsHeard'
    BY <2>1 DEF ReactionsHeard
  <2> QED BY <2>1, <2>2, OtherLists DEF ReactInv
<1>3. CASE CallCommand \/ CallDefault \/ PassBy
  <2>1. /\ phase \in Dispatching \ {"OnMessage"} /\ phase' = phase /\ queue # <<>>
        /\ \E w, o : Hears(w, o)
    BY <1>3 DEF CallCommand, CallDefault, PassBy, Dispatching, Forwarded
  <2> QED BY <2>1, OtherCalls
<1>4. CASE \/ StoplightTurns \/ StoplightFails \/ StoplightShots \/ MailAlert \/ MailThrows
           \/ LdapReplies
  <2>1. \E m, n, o : Handles(m, n, o)
    BY Zenon, <1>4, ModuleCalls
  <2>2. /\ phase \in Dispatching \ {"OnMessage"} /\ phase' = phase /\ queue # <<>>
        /\ \E w, o : Hears(w, o)
    BY <2>1 DEF Handles, Dispatching
  <2> QED BY <2>1, <2>2, OtherCalls
<1>5. CASE CallMessage
  <2>1. /\ phase = "OnMessage" /\ phase' = phase /\ queue # <<>> /\ Head(queue) # "reactions"
        /\ \E w, o : Hears(w, o)
        /\ UNCHANGED <<event, reacted>>
    BY <1>5 DEF CallMessage
  <2>2. ReactionsHeard' => ReactionsHeard
    BY <2>1, OneMoreHeard DEF Dispatching
  <2> QED BY <2>1, <2>2 DEF ReactInv, Plain, InContent
<1>6. CASE React
  <2>1. phase = "OnMessage" /\ phase' = phase /\ event' = event /\ reacted' = Found
    BY <1>6 DEF React
  <2>2. ASSUME Plain PROVE Found = InContent
    <3>1. text = event.content /\ text \in Seq(Chars)
      BY <2>1, <2>2 DEF PlainInv, TypeOK
    <3> DEFINE c == lowercase(text)
    <3>2. c \in Seq(Chars) /\ Len(c) = Len(text)
      BY <3>1, LowerCase
    <3>3. ASSUME NEW k \in Keywords
          PROVE  find(c, k, 0) # npos <=> \E p \in 0 .. Len(text) - Len(k) : OccursAt(c, k, p)
      <4>1. k \in Seq(Chars)
        BY HandlersAssumption
      <4> HIDE DEF c
      <4> QED BY <3>2, <4>1, Finds
    <3> QED BY <3>1, <3>3 DEF Found, InContent
  <2> QED BY <2>1, <2>2 DEF ReactInv, Plain, InContent
<1>7. CASE DispatchDone
  <2>1. phase' = "done" /\ UNCHANGED <<event, heard, reacted>>
    BY <1>7 DEF DispatchDone
  <2> QED BY <2>1 DEF ReactInv, ReactionsHeard, Plain, InContent, Dispatching, Forwarded
<1>8. CASE UNCHANGED vars
  BY <1>8 DEF vars, ReactInv, ReactionsHeard, Plain, InContent
<1> QED BY <1>1, <1>2, <1>3, <1>4, <1>5, <1>6, <1>7, <1>8 DEF Next, Arrival, Step

\* What CleanMessage says of the text.
LEMMA TextClean ==
  ASSUME IInv, TypeOK, MentionInv, KeywordsReact
  PROVE  CleanMessage
<1>T. text \in Seq(Chars)
  BY DEF TypeOK
<1>1. ASSUME phase = "OnMessage"
      PROVE  /\ trim(text) = text
             /\ ~IsPrefix(BotName, text)
             /\ \A i \in DOMAIN event.mentions : \A m \in {1, 2} :
                  find(lowercase(text), lowercase(Mentions[event.mentions[i]][m]), 0) = npos
  <2>1. trim(text) = text /\ ~IsPrefix(BotName, text)
    BY <1>T, <1>1, TrimmedStays DEF MentionInv
  <2>2. ASSUME NEW i \in DOMAIN event.mentions, NEW m \in {1, 2}
        PROVE  find(lowercase(text), lowercase(Mentions[event.mentions[i]][m]), 0) = npos
    <3> DEFINE u == event.mentions[i]
               k == lowercase(Mentions[u][m])
    <3>1. u \in Users /\ Rid(u)
      <4>1. event.mentions \in Seq(Users)
        BY <1>1, MessageParts DEF IInv, EventInv
      <4>2. u \in Users
        BY <4>1, LenProperties, ElementOfSeq
      <4> QED BY <1>1, <4>2 DEF MentionInv, Range
    <3> HIDE DEF u
    <3>2. k \in Seq(Chars) /\ Without(text, k)
      BY <3>1, MentionTexts, LowerCase DEF Rid
    <3> HIDE DEF k
    <3>3. find(lowercase(text), k, 0) = npos
      BY <1>T, <3>2, FindWithout
    <3> QED BY <3>3 DEF k, u
  <2> QED BY <2>1, <2>2
<1> QED BY <1>1 DEF CleanMessage

-----------------------------------------------------------------------------
(* The theorems *)

\* A slash command gets at most one reply; it gets the one its own module owes
\* it if that module is in the list the dispatch copied, whatever else is in it
\* and in whatever order; and what the stop light is said to do it does.
THEOREM SlashReplied == FairSpec => []SlashAnswered
<1>1. IInv => SlashAnswered
  BY DEF IInv, ReplyInv
<1> QED BY <1>1, Invariant, PTL

\* FOREACH_MOD calls every module of the list it copied, however many of them
\* throw, unless one returned false: then that one was the last it called.
THEOREM ThrowsAreSpared == FairSpec => ThrowSparesOthers
<1> DEFINE Spared == (phase # "idle" /\ phase' = "done") =>
                       /\ \/ Len(heard) = Len(list_to_call)
                          \/ Last(heard).ended = "false"
                       /\ \A i \in DOMAIN heard : heard[i].ended = "false" => i = Len(heard)
<1>1. IInv /\ [Next]_vars => [Spared]_vars
  <2> SUFFICES ASSUME IInv, Next, phase # "idle", phase' = "done" PROVE Spared
    OBVIOUS
  <2>1. DispatchDone
    BY DEF Next, Arrival, Step, MessageIgnored, MessageArrives, SlashArrives, Forward,
           ReplaceMention, MentionsDone, StripName, RouteMessage, RouteCommand, CallCommand,
           CallMessage, CallDefault, React, PassBy, StoplightTurns, StoplightFails,
           StoplightShots, MailAlert, MailThrows, LdapReplies, Handles, Return, Forwarded
  <2>2. phase \in Dispatching /\ queue = <<>>
    BY <2>1 DEF DispatchDone, Dispatching
  <2>3. /\ \/ Len(heard) + Len(queue) = Len(list_to_call)
           \/ Last(heard).ended = "false"
        /\ \A i \in DOMAIN heard : heard[i].ended = "false" => i = Len(heard)
    BY <2>2 DEF IInv, HeardInv
  <2>4. Len(queue) = 0 /\ Len(heard) \in Nat
    BY <2>2, EmptySeq, LenProperties DEF IInv, HeardInv
  <2> QED BY <2>3, <2>4
<1>2. ThrowSparesOthers <=> [][Spared]_vars
  BY PTL DEF ThrowSparesOthers
<1> QED BY <1>1, <1>2, Invariant, PTL DEF FairSpec

\* Whatever arrives, every variable keeps its type: in particular the loops of
\* ReplaceString and of the tokeniser end with texts.
THEOREM TypeCorrect == FairSpec => []TypeOK
BY TypeInit, TypeStep, Invariant, PTL DEF FairSpec

\* ReplaceMention puts the name in the place of every mention of the user that
\* one pass from the left over the text finds, in its first form and then in its
\* second, whatever the names and their lengths.
THEOREM MentionsAreReplaced == FairSpec => MentionsReplaced
<1> DEFINE InStep == phase = "mentions" /\ mentions # <<>> =>
                       LET u == Head(mentions) IN
                       text' = Replaced(Replaced(text, Mentions[u][1], Names[u]),
                                        Mentions[u][2], Names[u])
<1>1. TypeOK /\ [Next]_vars => [InStep]_vars
  <2> SUFFICES ASSUME TypeOK, Next, phase = "mentions", mentions # <<>> PROVE InStep
    OBVIOUS
  <2>1. ReplaceMention
    BY DEF Next, Arrival, Step, MessageIgnored, MessageArrives, SlashArrives, Forward,
           MentionsDone, StripName, RouteMessage, RouteCommand, CallCommand,
           CallMessage, CallDefault, React, PassBy, StoplightTurns, StoplightFails,
           StoplightShots, MailAlert, MailThrows, LdapReplies, Handles, DispatchDone, Return,
           Forwarded
  <2>2. Head(mentions) \in Users /\ text \in Seq(Chars)
    BY HeadTailProperties DEF TypeOK
  <2> QED BY <2>1, <2>2, MentionGivesWay DEF ReplaceMention
<1>2. MentionsReplaced <=> [][InStep]_vars
  BY PTL DEF MentionsReplaced
<1> QED BY <1>1, <1>2, TypeCorrect, PTL DEF FairSpec

\* The module that handles a command gets all its words, empty ones too: joined
\* again they are what was typed after the prefix, and the command is the first
\* of them in lower case.
THEOREM CommandsWhole == FairSpec => []CommandWords
<1>1. Init => CommandInv
  BY DEF Init, CommandInv, CommandWords
<1>2. CommandInv => CommandWords
  BY DEF CommandInv
<1> QED BY <1>1, <1>2, CommandStep, Invariant, PTL DEF FairSpec

\* A message that the cleaning takes nothing from gets the reactions of the keywords it has in
\* any case, and no others, whatever the names are.
THEOREM KeywordsFound == DiscordTrims => (FairSpec => []KeywordsReact)
<1> SUFFICES ASSUME DiscordTrims PROVE FairSpec => []KeywordsReact
  OBVIOUS
<1>1. Init => PlainInv /\ ReactInv
  <2> SUFFICES ASSUME Init PROVE PlainInv /\ ReactInv
    OBVIOUS
  <2>1. phase = "idle" /\ heard = <<>>
    BY DEF Init
  <2>2. ~ReactionsHeard
    BY <2>1 DEF ReactionsHeard
  <2> QED BY <2>1, <2>2 DEF PlainInv, ReactInv, Dispatching, Forwarded
<1>2. IInv /\ TypeOK /\ PlainInv /\ ReactInv /\ [Next]_vars => PlainInv' /\ ReactInv'
  BY PlainStep, ReactStep
<1>3. PlainInv /\ ReactInv => KeywordsReact
  BY DEF ReactInv, ReactionsHeard, Plain, InContent, KeywordsReact
<1> QED BY <1>1, <1>2, <1>3, TypeCorrect, Invariant, PTL DEF FairSpec

\* The text that OnMessage handlers get starts and ends with no blank, does not start with the
\* bot's name and has no mention of a mentioned user, however many names and mentions it came
\* with; and the reactions are those of the message.  It takes Discord to trim, and names that no
\* mention can be put together from.
THEOREM MessagesClean == DiscordTrims /\ NamesApart => (FairSpec => []CleanMessage)
<1> SUFFICES ASSUME DiscordTrims, NamesApart PROVE FairSpec => []CleanMessage
  OBVIOUS
<1>1. Init => MentionInv
  BY DEF Init, MentionInv
<1>2. IInv /\ TypeOK /\ MentionInv /\ [Next]_vars => MentionInv'
  BY MentionStep
<1>3. IInv /\ TypeOK /\ MentionInv /\ KeywordsReact => CleanMessage
  BY TextClean
<1> QED BY <1>1, <1>2, <1>3, TypeCorrect, Invariant, KeywordsFound, PTL DEF FairSpec

=============================================================================
