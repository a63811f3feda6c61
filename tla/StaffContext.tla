---------------------------- MODULE StaffContext ----------------------------
(***************************************************************************)
(* Who may do what: GuildService (internal/quack/guilds.go) behind the     *)
(* middleware RequireGuildContext and the /case command, and the rows it   *)
(* keeps of guilds and staff (internal/store/guilds.go).                   *)
(*                                                                         *)
(* One member of one guild makes requests while Discord changes what the   *)
(* member is allowed. A dashboard request asks Discord for the member's    *)
(* permissions; a command carries those of the moment it was sent. Both    *)
(* then read the guild's owner from the bot's state, which the gateway's   *)
(* events keep and which may be behind, and bring the guild row and the    *)
(* staff row up to date: a read, then a save of the whole row or an insert *)
(* under a unique index, without a transaction.                            *)
(*                                                                         *)
(* Abstracted: names and icons; permission bits that nothing looks at.     *)
(***************************************************************************)
EXTENDS Naturals, Sequences

CONSTANTS Visitors,   \* requests
          BitSets,    \* permission bits that the member may come to have
          Throttle,   \* time for which an activity counts; 5 minutes in the code
          MaxClock, MaxChanges  \* bounds on the time and on changes in Discord

AllBits == {"administrator", "manage_guild", "moderate_members"}

ASSUME StaffAssumption ==
    /\ BitSets \subseteq SUBSET AllBits
    /\ Throttle \in Nat /\ MaxClock \in Nat \ {0} /\ MaxChanges \in Nat

VARIABLES
    clock,
    bits, owns,   \* the member in Discord: permission bits; owner or not
    known,        \* the bot's state takes the member for the owner
    news,         \* events on the guild's owner that the bot has yet to process
    changes,      \* changes in Discord so far
    guildRow,     \* who the guild row names as owner, or "none"
    staffRow,     \* permission bits and last activity; activity 0 is no row
    visitor,      \* requests
    granted,      \* ghost: what Discord granted at some time of a request,
    withheld,     \* and what it withheld
    taken,        \* ghost: requests in whose time `known' was true
    offeredAt     \* ghost: the change after which a list offered the guild

discord == <<bits, owns, known, news, changes>>
ghosts == <<granted, withheld, taken, offeredAt>>
staffVars == <<clock, discord, guildRow, staffRow, visitor, ghosts>>
-----------------------------------------------------------------------------
(* The rules                                                               *)

\* One action for each of the two classes that discordPermissionMap makes.
Moderating == {"case.create"}
Managing == {"template.write"}
Wishes == Moderating \cup Managing

\* Discord reports every bit of an owner.
BitsOf(b, o) == IF o THEN AllBits ELSE b

\* discordRoleContext and discordPermissionMap.
Admin(b, o) == o \/ "administrator" \in b
MayModerate(b, o) == Admin(b, o) \/ "moderate_members" \in b
MayManage(b, o) == Admin(b, o) \/ "manage_guild" \in b

PermissionsOf(b, o) ==
    (IF MayModerate(b, o) THEN Moderating ELSE {}) \cup (IF MayManage(b, o) THEN Managing ELSE {})

\* ListUserManageableGuilds.
OffersModerators(b, o) == MayManage(b, o) \/ MayModerate(b, o)
Offers(b, o) == o \/ "administrator" \in b \/ "manage_guild" \in b
-----------------------------------------------------------------------------
NoStaff == [bits |-> {}, active |-> 0]

Waiting0 == [at |-> "idle", via |-> "dashboard", wish |-> "case.create", bits |-> {}, owner |-> FALSE,
             guild |-> "none", staff |-> NoStaff, active |-> 0, since |-> 0]

StaffInit ==
    /\ clock = 1 /\ changes = 0
    /\ bits \in BitSets /\ owns \in BOOLEAN /\ known = owns /\ news = <<>>
    /\ guildRow = "none" /\ staffRow = NoStaff
    /\ visitor = [v \in Visitors |-> Waiting0]
    /\ granted = [v \in Visitors |-> {}] /\ withheld = [v \in Visitors |-> {}]
    /\ taken = {} /\ offeredAt = MaxChanges + 1

Ends == {"served", "denied", "failed", "listed", "unlisted"}

StaffTypeOK ==
    /\ clock \in 1 .. MaxClock /\ changes \in 0 .. MaxChanges
    /\ bits \in BitSets /\ owns \in BOOLEAN /\ known \in BOOLEAN /\ taken \subseteq Visitors
    /\ guildRow \in {"none", "member", "other"}
    /\ staffRow \in [bits : SUBSET AllBits, active : 0 .. MaxClock]
    /\ \A v \in Visitors :
          /\ visitor[v].at \in {"idle", "user", "bot", "guild", "saveGuild", "insertGuild", "staff", "saveStaff", "decide"} \cup Ends
          /\ visitor[v].via \in {"dashboard", "command", "list"} /\ visitor[v].wish \in Wishes
          /\ granted[v] \subseteq Wishes /\ withheld[v] \subseteq Wishes
    /\ offeredAt \in 0 .. (MaxChanges + 1)
-----------------------------------------------------------------------------
(* Discord                                                                 *)

Under == {v \in Visitors : visitor[v].at \notin {"idle"} \cup Ends}

ChangeInDiscord ==
    /\ changes < MaxChanges
    /\ changes' = changes + 1
    /\ bits' \in BitSets /\ owns' \in BOOLEAN
    /\ news' = IF owns' = owns THEN news ELSE Append(news, owns')
    /\ granted' = [v \in Visitors |->
          IF v \in Under THEN granted[v] \cup PermissionsOf(bits', owns') ELSE granted[v]]
    /\ withheld' = [v \in Visitors |->
          IF v \in Under THEN withheld[v] \cup (Wishes \ PermissionsOf(bits', owns')) ELSE withheld[v]]
    /\ UNCHANGED <<clock, known, guildRow, staffRow, visitor, taken, offeredAt>>

\* The gateway's next event on the guild reaches the bot's state; after a
\* reconnection the guild as it is.
HearOfOwner ==
    /\ news # <<>>
    /\ \/ known' = Head(news) /\ news' = Tail(news)
       \/ known' = owns /\ news' = <<>>
    /\ taken' = IF known' THEN taken \cup Under ELSE taken
    /\ UNCHANGED <<clock, bits, owns, changes, guildRow, staffRow, visitor, granted, withheld, offeredAt>>

TimePasses ==
    /\ clock < MaxClock
    /\ clock' = clock + 1
    /\ UNCHANGED <<discord, guildRow, staffRow, visitor, ghosts>>
-----------------------------------------------------------------------------
(* A request                                                               *)

\* A request that ends forgets what it read.
ToStep(v, at) ==
    visitor' = [visitor EXCEPT ![v] = IF at \in Ends THEN [Waiting0 EXCEPT !.at = at, !.wish = visitor[v].wish]
                                      ELSE [@ EXCEPT !.at = at]]
DiscordSame == UNCHANGED <<clock, discord, granted, withheld, taken>>

Enter(v, via, wish) ==
    /\ visitor[v].at = "idle"
    /\ via # "dashboard" => wish = "case.create"
    /\ visitor' = [visitor EXCEPT ![v] =
          [Waiting0 EXCEPT !.at = IF via = "command" THEN "bot" ELSE "user", !.via = via, !.wish = wish,
                           !.bits = IF via = "command" THEN BitsOf(bits, owns) ELSE {},
                           !.active = clock, !.since = changes]]
    /\ granted' = [granted EXCEPT ![v] = PermissionsOf(bits, owns)]
    /\ withheld' = [withheld EXCEPT ![v] = Wishes \ PermissionsOf(bits, owns)]
    /\ taken' = IF known THEN taken \cup {v} ELSE taken \ {v}
    /\ UNCHANGED <<clock, discord, guildRow, staffRow, offeredAt>>

\* The call to Discord or to the database fails, or the member or the bot is
\* not in the guild.
Fail(v) ==
    /\ v \in Under
    /\ ToStep(v, "failed")
    /\ UNCHANGED <<guildRow, staffRow, offeredAt>> /\ DiscordSame

\* UserGuilds, for the dashboard and for the list of guilds.
ReadUserGuilds(v) ==
    LET listed == visitor[v].via = "list" IN
    /\ visitor[v].at = "user"
    /\ IF listed THEN ToStep(v, IF Offers(BitsOf(bits, owns), owns) THEN "listed" ELSE "unlisted")
       ELSE visitor' = [visitor EXCEPT ![v].bits = BitsOf(bits, owns), ![v].owner = owns, ![v].at = "bot"]
    /\ offeredAt' = IF listed /\ Offers(BitsOf(bits, owns), owns) THEN changes ELSE offeredAt
    /\ UNCHANGED <<guildRow, staffRow>> /\ DiscordSame

\* BotGuild: the owner as the bot's state has it, or as Discord answers when the
\* state does not have the guild.
OwnerAnswers == {known, owns}

ReadBotGuild(v) ==
    /\ visitor[v].at = "bot"
    /\ \E o \in OwnerAnswers :
          visitor' = [visitor EXCEPT ![v].owner = @ \/ o, ![v].at = "guild",
                                     ![v].guild = IF o THEN "member" ELSE "other"]
    /\ UNCHANGED <<guildRow, staffRow, offeredAt>> /\ DiscordSame

\* UpsertGuild: up to date, saved, or inserted, by what its read found.
UpsertGuild(v) ==
    \/ /\ visitor[v].at = "guild"
       /\ ToStep(v, IF guildRow = visitor[v].guild THEN "staff"
                    ELSE IF guildRow = "none" THEN "insertGuild" ELSE "saveGuild")
       /\ UNCHANGED guildRow
    \/ /\ visitor[v].at = "saveGuild"
       /\ guildRow' = visitor[v].guild
       /\ ToStep(v, "staff")
    \/ /\ visitor[v].at = "insertGuild"
       /\ guildRow' = IF guildRow = "none" THEN visitor[v].guild ELSE guildRow
       /\ ToStep(v, IF guildRow = "none" THEN "staff" ELSE "failed")

WriteGuild(v) == UpsertGuild(v) /\ UNCHANGED <<staffRow, offeredAt>> /\ DiscordSame

\* UpsertStaffMember reads the row; the dashboard takes the time before it.
ReadStaff(v) ==
    /\ visitor[v].at = "staff"
    /\ visitor' = [visitor EXCEPT ![v].staff = staffRow, ![v].at = "saveStaff",
                                  ![v].active = IF visitor[v].via = "command" THEN @ ELSE clock]
    /\ UNCHANGED <<guildRow, staffRow, offeredAt>> /\ DiscordSame

\* ... and saves it when its permissions are others or its activity is old.
ActivityDue(v) == visitor[v].active >= visitor[v].staff.active + Throttle

SaveStaff(v) ==
    LET copy == visitor[v].staff
        saved == [bits |-> visitor[v].bits,
                  active |-> IF ActivityDue(v) THEN visitor[v].active ELSE copy.active]
    IN
    /\ visitor[v].at = "saveStaff"
    /\ \/ /\ copy = NoStaff
          /\ staffRow' = IF staffRow = NoStaff THEN [saved EXCEPT !.active = visitor[v].active] ELSE staffRow
          /\ ToStep(v, IF staffRow = NoStaff THEN "decide" ELSE "failed")
       \/ /\ copy # NoStaff
          /\ staffRow' = IF saved = copy THEN staffRow ELSE saved
          /\ ToStep(v, "decide")
    /\ UNCHANGED <<guildRow, offeredAt>> /\ DiscordSame

\* Can, on this request's own readings, never on the row.
RightsOfRow(v) == PermissionsOf(staffRow.bits, guildRow = "member")
RightsOfReading(v) == PermissionsOf(visitor[v].bits, visitor[v].owner)

DecideAccess(v) ==
    /\ visitor[v].at = "decide"
    /\ ToStep(v, IF visitor[v].wish \in RightsOfReading(v) THEN "served" ELSE "denied")
    /\ UNCHANGED <<guildRow, staffRow, offeredAt>> /\ DiscordSame

StaffNext ==
    \/ ChangeInDiscord \/ HearOfOwner \/ TimePasses
    \/ \E v \in Visitors :
          \/ \E via \in {"dashboard", "command", "list"}, wish \in Wishes : Enter(v, via, wish)
          \/ ReadUserGuilds(v) \/ ReadBotGuild(v) \/ WriteGuild(v) \/ ReadStaff(v)
          \/ SaveStaff(v) \/ DecideAccess(v) \/ Fail(v)

StaffSpec == StaffInit /\ [][StaffNext]_staffVars
-----------------------------------------------------------------------------
(* Properties                                                              *)

\* A request is served only what Discord granted the member at some time of the
\* request, or what the owner may while the bot took the member for the owner
\* at some time of it: once the bot has heard of a new owner, the old one's
\* later requests have no more rights than Discord gives, whatever the rows
\* still say. It is denied only what Discord withheld at some time of it.
RightsFromOwnReading ==
    \A v \in Visitors :
        /\ visitor[v].at = "served" => visitor[v].wish \in granted[v] \/ v \in taken
        /\ visitor[v].at = "denied" => visitor[v].wish \in withheld[v]

\* "Cached information may support displays, but it does not grant lasting
\* access after a Discord role changes" (v5.md): a request is served only what
\* Discord itself granted the member at some time of the request.
CacheGrantsNothing ==
    \A v \in Visitors : visitor[v].at = "served" => visitor[v].wish \in granted[v]

\* A guild that the list offers to manage opens: if nothing has changed in
\* Discord since the list, no request to manage it is denied.
OfferedGuildOpens ==
    [][\A v \in Visitors :
          visitor[v].at = "decide" /\ visitor'[v].at = "denied" /\ visitor[v].wish \in Managing =>
              ~(offeredAt = changes /\ visitor[v].since = changes)]_staffVars

=============================================================================
