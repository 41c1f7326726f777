SPECIFICATION FairSpec

CONSTANTS
  Chars <- MCChars
  Lower <- MCLower
  Space = " "
  Blanks = {" "}
  Prefix = "."
  BotName <- MCBotName
  Mentions <- MCMentions
  Names <- MCNames
  Me = "bot"
  Keywords <- MCKeywords
  Resident = "resident"
  HandlerLists <- MCHandlerLists
  Returns = {"true", "false", "throw"}
  Messages <- MCMessages
  Commands <- MCCommands
  MaxPieces = 3

INVARIANT TypeOK
INVARIANT CleanMessage
INVARIANT CommandWords
INVARIANT SlashAnswered
PROPERTY MentionsReplaced
PROPERTY ThrowSparesOthers
PROPERTY EventEnds
