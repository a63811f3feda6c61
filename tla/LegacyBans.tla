----------------------------- MODULE LegacyBans -----------------------------
(***************************************************************************)
(* The legacy bot's punishments and ban appeals.  A slash command or a     *)
(* button press becomes a job that performs a fixed list of calls, each of *)
(* which may fail: a direct message to the member, the punishment at       *)
(* Discord, the edit of the reply, the insert of a case row, the change of *)
(* an appeal.  Jobs run side by side in goroutines of their own and share  *)
(* nothing but Discord and the database; the process may die between any   *)
(* two calls.  Job `0' stands for "nobody".                                *)
(***************************************************************************)
EXTENDS Naturals, FiniteSets, Sequences

CONSTANTS Members,      \* users who can be punished
          Kinds,        \* the commands moderators use
          MaxJobs,      \* bound: commands and presses in a behaviour
          MaxRunning,   \* bound: jobs that run at the same time
          MaxRefusals,  \* bound: calls that fail
          MaxRemovals   \* bound: /cases remove commands

ASSUME LegacyBansAssumption ==
    /\ Kinds \subseteq {"Ban", "Kick", "TimeoutAdd", "Warn", "CasesAdd", "Unban"}
    /\ MaxJobs \in Nat \ {0} /\ MaxRunning \in Nat \ {0}
    /\ MaxRefusals \in Nat /\ MaxRemovals \in Nat

VARIABLES
    job,       \* the jobs, in the order they began
    banned,    \* Discord's ban list of the guild
    cases,     \* rows of table cases; n orders them by created_at
    appeals,   \* rows of table appeals with their review message
    buttons,   \* members whose ban message still has its appeal button
    refusals, removals

banVars == <<job, banned, cases, appeals, buttons, refusals, removals>>
-----------------------------------------------------------------------------
(* What each handler does, call by call. *)

\* Two handlers with their calls in another order.
CaseFirst   == [type |-> "timeout", spares |-> {"self", "bot"},
                steps |-> <<"save", "act", "dm", "edit">>]
DecideFirst == [type |-> "unban", spares |-> {},
                steps |-> <<"look", "decide", "act", "dm", "save", "review">>]

\* The punishments.  `type' is the case type; `spares' says whom the handler
\* refuses to punish: the moderator, the bot.
Ban        == [type |-> "ban",     spares |-> {"self", "bot"},
               steps |-> <<"dm", "act", "edit", "save">>]
Kick       == [type |-> "kick",    spares |-> {"self", "bot"},
               steps |-> <<"dm", "act", "edit", "save">>]
TimeoutAdd == [type |-> "timeout", spares |-> {"self", "bot"},
               steps |-> <<"act", "dm", "edit", "save">>]
Warn       == [type |-> "warn",    spares |-> {"bot"},
               steps |-> <<"dm", "edit", "save">>]
CasesAdd   == [type |-> "warn",    spares |-> {"bot"},
               steps |-> <<"dm", "edit", "save">>]
Unban      == [type |-> "unban",   spares |-> {"self", "bot"},
               steps |-> <<"invites", "act", "dm", "list", "resolve", "edit", "save">>]

\* The appeal's modal and the two buttons of its review message.
AppealSubmit == [type |-> "none",  spares |-> {},
                 steps |-> <<"check", "find", "file", "post", "hide">>]
AppealAccept == [type |-> "unban", spares |-> {},
                 steps |-> <<"look", "act", "decide", "dm", "save", "review">>]
AppealReject == [type |-> "none",  spares |-> {},
                 steps |-> <<"decide", "look", "dm", "review">>]

Does == [Ban |-> Ban, Kick |-> Kick, TimeoutAdd |-> TimeoutAdd, Warn |-> Warn,
         CasesAdd |-> CasesAdd, Unban |-> Unban, AppealSubmit |-> AppealSubmit,
         AppealAccept |-> AppealAccept, AppealReject |-> AppealReject]
-----------------------------------------------------------------------------
Jobs == DOMAIN job
Running(j) == job[j].end = "running"
At(j, step) == Running(j) /\ Does[job[j].kind].steps[job[j].at] = step
MayFail == refusals < MaxRefusals
Fails == MayFail /\ refusals' = refusals + 1
Holds == UNCHANGED refusals

\* The job goes on to its next call, or ends, with these fields changed.
Ended(r, how) == [r EXCEPT !.end = how, !.at = 0, !.ban = 0, !.found = {}]
Advanced(r) == IF r.at = Len(Does[r.kind].steps) THEN Ended(r, "done")
                                                 ELSE [r EXCEPT !.at = @ + 1]
Proceed(j, r) == job' = [job EXCEPT ![j] = Advanced(r)]

\* The handler returns after an error; the call was refused, or it was
\* carried out and only its answer is the error.
Failed(r) == [r EXCEPT !.end = "failed", !.ban = 0, !.found = {}]
Stop(j) == job' = [job EXCEPT ![j] = Failed(job[j])]
CarriedOut(j, r) == \/ Proceed(j, r) /\ Holds
                    \/ job' = [job EXCEPT ![j] = Failed(r)] /\ Fails

\* vain: Discord took the job's timeout and timed nobody out.
NewJob(kind, member, appeal) ==
    [kind |-> kind, on |-> member, appeal |-> appeal, at |-> 1, end |-> "running",
     acted |-> FALSE, vain |-> FALSE, saved |-> FALSE, ban |-> 0, found |-> {}]

StartJob(kind, member, appeal) ==
    /\ Len(job) < MaxJobs
    /\ Cardinality({j \in Jobs : Running(j)}) < MaxRunning
    /\ job' = Append(job, NewJob(kind, member, appeal))

\* A moderator's command on a member.  A command on the moderator or the bot,
\* or without the permission, is answered with an error and starts no job.
Command ==
    /\ \E kind \in Kinds, target \in Members \cup {"self", "bot"}, permitted \in BOOLEAN :
         /\ permitted /\ target \notin Does[kind].spares
         /\ target \in Members
         /\ StartJob(kind, target, 0)
    /\ UNCHANGED <<banned, cases, appeals, buttons, refusals, removals>>

\* A banned member opens the modal from the ban message and submits it.
PressAppeal ==
    /\ \E u \in buttons : StartJob("AppealSubmit", u, 0)
    /\ UNCHANGED <<banned, cases, appeals, buttons, refusals, removals>>

\* A moderator presses a button of an open review message.
PressReview ==
    /\ \E a \in DOMAIN appeals, kind \in {"AppealAccept", "AppealReject"} :
         /\ appeals[a].review = "open"
         /\ StartJob(kind, appeals[a].user, a)
    /\ UNCHANGED <<banned, cases, appeals, buttons, refusals, removals>>
-----------------------------------------------------------------------------
\* The direct message.  A ban's message carries an appeal button unless the
\* moderator said no or appeals are not set up.
SendDM(j) ==
    /\ At(j, "dm")
    /\ Proceed(j, job[j])
    /\ \/ Fails /\ UNCHANGED buttons
       \/ Holds /\ \E appealable \in BOOLEAN :
            buttons' = IF job[j].kind = "Ban" /\ appealable
                       THEN buttons \cup {job[j].on} ELSE buttons
    /\ UNCHANGED <<banned, cases, appeals, removals>>

\* What Discord answers by itself: it lifts only a ban that stands, and
\* punishes only a member that is there.
Accepts(type, u) == CASE type = "ban" -> TRUE
                      [] type = "unban" -> u \in banned
                      [] OTHER -> u \notin banned

\* Discord carries the act out, with or without an error for an answer; it
\* refuses, or it fails.
Act(j) ==
    LET type == Does[job[j].kind].type
        u == job[j].on
    IN /\ At(j, "act")
       /\ \/ /\ Accepts(type, u)
             /\ CarriedOut(j, [job[j] EXCEPT !.acted = TRUE])
             /\ banned' = CASE type = "ban" -> banned \cup {u}
                            [] type = "unban" -> banned \ {u}
                            [] OTHER -> banned
          \/ ~Accepts(type, u) /\ Stop(j) /\ Holds /\ UNCHANGED banned
          \/ Fails /\ Stop(j) /\ UNCHANGED banned
       /\ UNCHANGED <<cases, appeals, buttons, removals>>

\* A length that cannot be read is dropped with its error: the timeout that
\* goes to Discord ends long ago, and Discord takes it or does not.
ActInVain(j) ==
    /\ At(j, "act") /\ job[j].kind = "TimeoutAdd" /\ Accepts("timeout", job[j].on)
    /\ \/ CarriedOut(j, [job[j] EXCEPT !.vain = TRUE])
       \/ Stop(j) /\ Holds
    /\ UNCHANGED <<banned, cases, appeals, buttons, removals>>

\* The edit of the loading response, which fails when the response is not at
\* Discord yet as when Discord refuses it: the job goes on, and its case has
\* no link to the reply.
EditReply(j) ==
    /\ At(j, "edit") /\ Proceed(j, job[j])
    /\ (Holds \/ Fails)
    /\ UNCHANGED <<banned, cases, appeals, buttons, removals>>

LastCase(S) == CHOOSE c \in S : \A d \in S : d.n <= c.n
NextCase == 1 + Cardinality({j \in Jobs : job[j].saved})

SaveCase(j) ==
    /\ At(j, "save")
    /\ \/ /\ cases' = cases \cup {[n |-> NextCase, user |-> job[j].on, by |-> j,
                                   type |-> Does[job[j].kind].type]}
          /\ CarriedOut(j, [job[j] EXCEPT !.saved = TRUE])
       \/ Fails /\ Stop(j) /\ UNCHANGED cases
    /\ UNCHANGED <<banned, appeals, buttons, removals>>

Lost == [j \in Jobs |-> IF Running(j) THEN Ended(job[j], "lost") ELSE job[j]]

\* /unban indexes the first of the guild's invites: without one, or without an
\* answer, the goroutine panics and takes the process down.
ReadInvites(j) ==
    /\ At(j, "invites")
    /\ \/ Proceed(j, job[j]) /\ Holds
       \/ Fails /\ job' = Lost
    /\ UNCHANGED <<banned, cases, appeals, buttons, removals>>

\* The process is stopped or dies.
ProcessDies ==
    /\ \E j \in Jobs : Running(j)
    /\ Fails /\ job' = Lost
    /\ UNCHANGED <<banned, cases, appeals, buttons, removals>>
-----------------------------------------------------------------------------
Undecided(u) == {a \in DOMAIN appeals :
                   appeals[a].user = u /\ appeals[a].status \in {"pending", "rejected"}}
Decided(a, status, j) == [a EXCEPT !.status = status, !.by = j]

\* /unban lists the member's appeals; when the query fails it goes on with none.
ListAppeals(j) ==
    /\ At(j, "list")
    /\ \/ Holds /\ Proceed(j, [job[j] EXCEPT !.found = Undecided(job[j].on)])
       \/ Fails /\ Proceed(j, job[j])
    /\ UNCHANGED <<banned, cases, appeals, buttons, removals>>

\* It then accepts those it found pending or rejected; an update that fails is
\* passed over.
ResolveAppeals(j) ==
    /\ At(j, "resolve")
    /\ Proceed(j, [job[j] EXCEPT !.found = {}])
    /\ \E missed \in SUBSET job[j].found :
         /\ IF missed = {} THEN Holds ELSE Fails
         /\ appeals' = [a \in DOMAIN appeals |->
                          IF a \in job[j].found \ missed
                          THEN Decided(appeals[a], "accepted", j) ELSE appeals[a]]
    /\ UNCHANGED <<banned, cases, buttons, removals>>

\* A submission is refused while an appeal is pending or rejected; when the
\* query fails it is let through.
CheckAppeals(j) ==
    /\ At(j, "check")
    /\ \/ Undecided(job[j].on) = {} /\ Proceed(j, job[j]) /\ Holds
       \/ Undecided(job[j].on) # {} /\ Stop(j) /\ Holds
       \/ Fails /\ Proceed(j, job[j])
    /\ UNCHANGED <<banned, cases, appeals, buttons, removals>>

\* The ban the appeal is about: the member's latest case, if it is a ban.
FindLatestBanCase(j) ==
    LET mine == {c \in cases : c.user = job[j].on}
        found == IF mine # {} /\ LastCase(mine).type = "ban" THEN LastCase(mine).n ELSE 0
    IN /\ At(j, "find")
       /\ \/ Holds /\ Proceed(j, [job[j] EXCEPT !.ban = found])
          \/ Fails /\ Proceed(j, job[j])
       /\ UNCHANGED <<banned, cases, appeals, buttons, removals>>

CreateAppeal(j) ==
    /\ At(j, "file")
    /\ \/ /\ appeals' = Append(appeals, [user |-> job[j].on, case |-> job[j].ban, by |-> 0,
                                         status |-> "pending", review |-> "none"])
          /\ CarriedOut(j, [job[j] EXCEPT !.appeal = Len(appeals) + 1])
       \/ Fails /\ Stop(j) /\ UNCHANGED appeals
    /\ UNCHANGED <<banned, cases, buttons, removals>>

\* The review message with its two buttons goes to the staff channel; its id
\* is noted in the row for the link of the appeals queue.
PostReview(j) ==
    /\ At(j, "post")
    /\ Proceed(j, job[j])
    /\ \/ Holds /\ appeals' = [appeals EXCEPT ![job[j].appeal].review = "open"]
       \/ Fails /\ UNCHANGED appeals
    /\ UNCHANGED <<banned, cases, buttons, removals>>

\* The appeal button of the ban message is disabled.
HideButton(j) ==
    /\ At(j, "hide") /\ Proceed(j, job[j])
    /\ \/ Holds /\ buttons' = buttons \ {job[j].on}
       \/ Fails /\ UNCHANGED buttons
    /\ UNCHANGED <<banned, cases, appeals, removals>>

\* The appeal is read for the buttons' handlers.  Its case is scanned into a
\* plain string: an appeal without a case cannot be read.
ParseAppeal(j) ==
    /\ At(j, "look")
    /\ IF appeals[job[j].appeal].case = 0 THEN Stop(j) /\ Holds
       ELSE \/ Proceed(j, job[j]) /\ Holds
            \/ Fails /\ Stop(j)
    /\ UNCHANGED <<banned, cases, appeals, buttons, removals>>

\* The row's new status, whatever it was; an error is dropped.
UpdateStatus(j) ==
    LET status == IF job[j].kind = "AppealAccept" THEN "accepted" ELSE "rejected"
    IN /\ At(j, "decide") /\ Proceed(j, job[j])
       /\ \/ Holds /\ appeals' = [appeals EXCEPT ![job[j].appeal] = Decided(@, status, j)]
          \/ Fails /\ UNCHANGED appeals
       /\ UNCHANGED <<banned, cases, buttons, removals>>

\* The review message shows the decision in place of its buttons, if the
\* handler answered within Discord's three seconds.
UpdateReview(j) ==
    LET shown == IF job[j].kind = "AppealAccept" THEN "Accepted" ELSE "Rejected"
    IN /\ At(j, "review") /\ Proceed(j, job[j])
       /\ \/ Holds /\ appeals' = [appeals EXCEPT ![job[j].appeal].review = shown]
          \/ Fails /\ UNCHANGED appeals
       /\ UNCHANGED <<banned, cases, buttons, removals>>

\* /cases remove: the guild's latest case, one by id, or all of a member's.
RemoveCases ==
    /\ removals < MaxRemovals /\ cases # {}
    /\ removals' = removals + 1
    /\ \/ cases' = cases \ {LastCase(cases)}
       \/ \E c \in cases : cases' = cases \ {c}
       \/ \E u \in Members : cases' = {c \in cases : c.user # u}
    /\ UNCHANGED <<job, banned, appeals, buttons, refusals>>
-----------------------------------------------------------------------------
BanInit ==
    /\ job = <<>> /\ banned = {} /\ cases = {} /\ appeals = <<>> /\ buttons = {}
    /\ refusals = 0 /\ removals = 0

Step(j) ==
    \/ SendDM(j) \/ Act(j) \/ ActInVain(j) \/ EditReply(j) \/ SaveCase(j)
    \/ ReadInvites(j) \/ ListAppeals(j) \/ ResolveAppeals(j) \/ CheckAppeals(j) \/ FindLatestBanCase(j)
    \/ CreateAppeal(j) \/ PostReview(j) \/ HideButton(j)
    \/ ParseAppeal(j) \/ UpdateStatus(j) \/ UpdateReview(j)

BanNext ==
    \/ Command \/ PressAppeal \/ PressReview \/ RemoveCases \/ ProcessDies
    \/ \E j \in Jobs : Step(j)

BanSpec == BanInit /\ [][BanNext]_banVars
-----------------------------------------------------------------------------
(* The job list, the ban list and the rows have the shapes the schema and  *)
(* the handlers give them.                                                 *)
BanTypeOK ==
    /\ Len(job) <= MaxJobs
    /\ \A j \in Jobs : job[j].end \in {"running", "done", "failed", "lost"}
    /\ banned \subseteq Members /\ buttons \subseteq Members
    /\ \A c \in cases : c.n \in 1..MaxJobs /\ c.user \in Members /\ c.by \in Jobs
    /\ \A c, d \in cases : c.n = d.n => c = d
    /\ \A a \in DOMAIN appeals :
         /\ appeals[a].status \in {"pending", "accepted", "rejected"}
         /\ appeals[a].review \in {"none", "open", "Accepted", "Rejected"}

(* A case of a ban, a kick, a timeout or an unban is only ever written by  *)
(* a job whose call to Discord was carried out, so a member's record never *)
(* shows a punishment that did not happen, whatever fails or dies between; *)
(* the one exception is a timeout whose length could not be read.          *)
CasesFollowActs ==
    \A c \in cases : c.type # "warn" =>
        job[c.by].acted \/ (c.type = "timeout" /\ job[c.by].vain)

(* What a job did to a member is missing from the record only if its call  *)
(* was answered by an error though Discord carried it out, the insert of   *)
(* its case failed or the process died: a reply that cannot be edited, as  *)
(* when the goroutine is ahead of the loading response, a message that     *)
(* cannot be delivered or appeals that cannot be listed cost no case.      *)
ActsRecorded ==
    \A j \in Jobs : job[j].acted /\ ~job[j].saved =>
        \/ job[j].end \in {"running", "lost"}
        \/ /\ job[j].end = "failed"
           /\ Does[job[j].kind].steps[job[j].at] \in {"act", "save"}

\* The record says what was done, and what it leaves out has a cause.
CasesMatchActs == BanTypeOK /\ CasesFollowActs /\ ActsRecorded

(* An appeal stands as accepted only if the job that accepted it lifted a  *)
(* ban of that member itself, and its message says so only if the unban is *)
(* on record, although two moderators may press both buttons at once and   *)
(* /unban decides appeals as well.                                         *)
AcceptedMeansLifted ==
    \A a \in DOMAIN appeals :
        /\ appeals[a].status = "accepted" =>
             job[appeals[a].by].acted /\ job[appeals[a].by].on = appeals[a].user
        /\ appeals[a].review = "Accepted" =>
             \E j \in Jobs : job[j].appeal = a /\ job[j].acted /\ job[j].saved
=============================================================================
