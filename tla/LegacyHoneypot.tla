--------------------------- MODULE LegacyHoneypot ---------------------------
(***************************************************************************)
(* The legacy bot's honeypots: channels in which nobody should write.  A   *)
(* honeypot is a row in MySQL and an entry of a list in Redis, written one *)
(* after the other; the row counts the bans and a message in the channel   *)
(* shows the count.  Each message is handled in a goroutine of its own.    *)
(***************************************************************************)
EXTENDS Integers, FiniteSets

CONSTANTS Traps,       \* channels made by /honeypot create
          Posts,       \* messages written in them
          Strangers,   \* users without the right to moderate
          Keepers,     \* the owner, administrators and moderators
          MaxMisses    \* bound: calls that fail

ASSUME LegacyHoneypotAssumption == MaxMisses \in Nat

VARIABLES
    trap,     \* how far /honeypot create and the channel's deletion are
    row,      \* table honeypots: actions_taken, or NoCount without a row
    list,     \* the Redis list
    post,     \* the goroutine of each message
    bans, saves, \* the posts whose ban, whose case was carried out
    shown,    \* the number in the channel's message
    misses

trapVars == <<trap, row, list>>
potVars == <<trapVars, post, bans, saves, shown, misses>>

NoCount == -1    \* stands for "no row", below every count

Misses == misses < MaxMisses /\ misses' = misses + 1
Lands == UNCHANGED misses

PotInit ==
    /\ trap = [c \in Traps |-> "none"]
    /\ row = [c \in Traps |-> NoCount] /\ list = {}
    /\ post = [m \in Posts |-> [at |-> "unsent"]]
    /\ bans = {} /\ saves = {} /\ shown = [c \in Traps |-> 0] /\ misses = 0
-----------------------------------------------------------------------------
\* handleHoneypotCreate makes the channel and its message, then the row ...
CreateTrap(c) ==
    /\ trap[c] = "none"
    /\ \/ Lands /\ row' = [row EXCEPT ![c] = 0] /\ trap' = [trap EXCEPT ![c] = "saved"]
       \/ Misses /\ trap' = [trap EXCEPT ![c] = "open"] /\ UNCHANGED row
    /\ UNCHANGED <<list, post, bans, saves, shown>>

\* ... and then the list's entry; without it the channel is harmless.
ListTrap(c) ==
    /\ trap[c] = "saved" /\ trap' = [trap EXCEPT ![c] = "open"]
    /\ \/ Lands /\ list' = list \cup {c}
       \/ Misses /\ UNCHANGED list
    /\ UNCHANGED <<row, post, bans, saves, shown>>

\* The channel is deleted; its event may be dropped by the full event queue.
DeleteChannel(c) ==
    /\ trap[c] = "open"
    /\ \/ Lands /\ trap' = [trap EXCEPT ![c] = "deleted"]
       \/ Misses /\ trap' = [trap EXCEPT ![c] = "over"]
    /\ UNCHANGED <<row, list, post, bans, saves, shown>>

\* channelDeleteHandler: the row goes first; if that or the reading of the list
\* fails the rest is left.
ForgetRow(c) ==
    /\ trap[c] = "deleted"
    /\ \/ c \notin list /\ trap' = [trap EXCEPT ![c] = "over"] /\ Lands /\ UNCHANGED row
       \/ /\ c \in list /\ Lands
          /\ row' = [row EXCEPT ![c] = NoCount] /\ trap' = [trap EXCEPT ![c] = "unlisting"]
       \/ Misses /\ trap' = [trap EXCEPT ![c] = "over"] /\ UNCHANGED row
    /\ UNCHANGED <<list, post, bans, saves, shown>>

UnlistTrap(c) ==
    /\ trap[c] = "unlisting" /\ trap' = [trap EXCEPT ![c] = "over"]
    /\ \/ Lands /\ list' = list \ {c}
       \/ Misses /\ UNCHANGED list
    /\ UNCHANGED <<row, post, bans, saves, shown>>
-----------------------------------------------------------------------------
\* A message is written while the channel exists.
Write(m, c, u) ==
    /\ post[m].at = "unsent" /\ trap[c] \in {"saved", "open"}
    /\ post' = [post EXCEPT ![m] = [at |-> "listed", chan |-> c, user |-> u, read |-> 0]]
    /\ UNCHANGED <<trapVars, bans, saves, shown, misses>>

Goes(m, at) == post' = [post EXCEPT ![m].at = at]
Ends(m) == post' = [post EXCEPT ![m] = [at |-> "done", chan |-> @.chan, user |-> @.user]]
Chan(m) == post[m].chan

\* IsHoneypotChannel: a list that cannot be read holds no honeypot.
CheckList(m) ==
    /\ post[m].at = "listed"
    /\ \/ Chan(m) \in list /\ Goes(m, "get") /\ Lands
       \/ Chan(m) \notin list /\ Ends(m) /\ Lands
       \/ Misses /\ Ends(m)
    /\ UNCHANGED <<trapVars, bans, saves, shown>>

\* GetHoneypot: the handler keeps the count it reads here to the end.
GetHoneypot(m) ==
    /\ post[m].at = "get"
    /\ \/ /\ row[Chan(m)] # NoCount /\ Lands
          /\ post' = [post EXCEPT ![m].read = row[Chan(m)], ![m].at = "rights"]
       \/ row[Chan(m)] = NoCount /\ Ends(m) /\ Lands
       \/ Misses /\ Ends(m)
    /\ UNCHANGED <<trapVars, bans, saves, shown>>

\* computeMemberPerms: whoever may moderate is let off.  The member is fetched
\* afresh, so a user whom another message has had banned is not found.
BannedUsers == {post[m].user : m \in bans}
LetsOff(u) == u \in Keepers \cup BannedUsers

CheckRights(m) ==
    /\ post[m].at = "rights"
    /\ \/ LetsOff(post[m].user) /\ Ends(m) /\ Lands
       \/ ~LetsOff(post[m].user) /\ Goes(m, "delete") /\ Lands
       \/ Misses /\ Ends(m)
    /\ UNCHANGED <<trapVars, bans, saves, shown>>

CountFirst == [delete |-> "ban", ban |-> "count", count |-> "save", save |-> "show"]

\* The calls that follow, each only after the one before it succeeded: the
\* message is deleted, the ban carried out, its case saved, the count raised.
\* The direct message in between may fail.  A call may be carried out and still
\* be answered by an error, which ends the handler.
NextCall == [delete |-> "ban", ban |-> "save", save |-> "count", count |-> "show"]

Increment(c) == row' = [row EXCEPT ![c] = IF @ = NoCount THEN @ ELSE @ + 1]

HandleHoneypotMessage(m) ==
    LET at == post[m].at IN
    /\ at \in DOMAIN NextCall
    /\ \/ /\ \/ Lands /\ Goes(m, NextCall[at])
             \/ Misses /\ Ends(m)
          /\ bans' = IF at = "ban" THEN bans \cup {m} ELSE bans
          /\ saves' = IF at = "save" THEN saves \cup {m} ELSE saves
          /\ IF at = "count" THEN Increment(Chan(m)) ELSE UNCHANGED row
       \/ Misses /\ Ends(m) /\ UNCHANGED <<bans, saves, row>>
    /\ UNCHANGED <<trap, list, shown>>

\* The channel's message is edited to show one more than was read.
NewCount(m) == post[m].read + 1

ShowCount(m) ==
    /\ post[m].at = "show" /\ Ends(m)
    /\ \/ Lands /\ shown' = [shown EXCEPT ![Chan(m)] = NewCount(m)]
       \/ Misses /\ UNCHANGED shown
    /\ UNCHANGED <<trapVars, bans, saves>>
-----------------------------------------------------------------------------
Trapping(c) == CreateTrap(c) \/ ListTrap(c) \/ DeleteChannel(c) \/ ForgetRow(c) \/ UnlistTrap(c)
Handling(m) == CheckList(m) \/ GetHoneypot(m) \/ CheckRights(m)
               \/ HandleHoneypotMessage(m) \/ ShowCount(m)

PotNext ==
    \/ \E c \in Traps : Trapping(c)
    \/ \E m \in Posts : \/ \E c \in Traps, u \in Strangers \cup Keepers : Write(m, c, u)
                        \/ Handling(m)

PotSpec == PotInit /\ [][PotNext]_potVars
-----------------------------------------------------------------------------
In(S, c) == {m \in S : Chan(m) = c}

(* Rows, list entries and cases only ever belong to channels that the      *)
(* command made and to bans that were carried out on visitors.             *)
PotTypeOK ==
    /\ list \subseteq {c \in Traps : trap[c] # "none"}
    /\ saves \subseteq bans
    /\ \A m \in bans : post[m].user \in Strangers

(* The counter lags behind and never runs ahead: a row counts no ban whose *)
(* case is not on record, although the messages of a raid are handled side *)
(* by side and any call between the ban and the count may fail.            *)
CountsOnlyRecorded ==
    \A c \in Traps : row[c] = NoCount \/ row[c] <= Cardinality(In(saves, c))

(* The number shown in the channel may be behind, as each handler adds one *)
(* to what it read at its start, but it is never more than the bans on     *)
(* record there.  Like the counter it counts messages that led to a ban.   *)
ShownNeverAhead == \A c \in Traps : shown[c] <= Cardinality(In(saves, c))

\* What is counted and shown was done.
CountsTellBans == PotTypeOK /\ CountsOnlyRecorded /\ ShownNeverAhead
=============================================================================
