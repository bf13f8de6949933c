\* Messages of two friends and a group, one old chat.
CONSTANTS
  Friends = {owner, friend}
  Owner = owner
  Groups = {group}
  OldChats = 1
  MaxChats = 3
  MaxMail = 3
  MaxGroupMail = 2
  MaxFaults = 1
SPECIFICATION FairSpec
INVARIANTS TypeOK ContextKept ChatsApart
PROPERTIES InOrder EveryMessageAnswered
CHECK_DEADLOCK FALSE
