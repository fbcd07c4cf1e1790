CONSTANTS MaxCrashes = 1  MaxQueue = 2  MaxCities = 2  Places = {1}
CONSTANTS Offers = {3}  Media = {5}  Audio = {2}
CONSTANT Shelf <- MCShelf
CONSTANT Inbox <- MCInbox
CONSTANT Mails <- MCMails
CONSTANT Chats <- MCChats
CONSTANT Budget <- MCBudget
SPECIFICATION Spec
INVARIANT CursorsInLists
PROPERTY WaitEnds
PROPERTY LoadingEnds
CHECK_DEADLOCK FALSE
